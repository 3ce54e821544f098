----------------------------- MODULE FleetProofs -----------------------------
(***************************************************************************)
(* What holds over any number of runs of any fleet, when a run does not    *)
(* begin before the chunks of the last have left.                          *)
(***************************************************************************)
EXTENDS Fleet, FiniteSetTheorems, WellFoundedInduction, TLAPS

Chunk(k) == <<k, round>>

\* Where a run can be, and where a chunk.
RunPC   == {"none", "release", "open", "create", "carry", "await", "finalize",
            "gone"}
ChunkPC == {"none", "patching", "open", "create", "write", "marking",
            "waiting", "await", "carry", "gone"}

\* The runs come one after another: only this round's processes are at work.
RoundInv ==
    /\ pc[Run(0)] \in {"park", "gates", "gone"}
    /\ round > 0 => pc[Run(0)] = "gone"
    /\ \A t \in Turns : pc[Run(t)] \in RunPC
    /\ \A c \in Chunks : pc[c] \in ChunkPC
    /\ \A k \in Boundaries : pc[<<k, 0>>] = "none"
    /\ \A p \in Procs : p[2] > round => pc[p] = "none"
    /\ \A p \in Procs : p[2] < round => pc[p] \in {"none", "gone"}
    /\ round > 0 => pc[Run(round)] # "none"
    /\ \A c \in Chunks : pc[c] # "none" => c[1] \in parked

\* A page is released once in a round, and its chunk begun once.
PipeInv ==
    /\ todo # {} => pc[Run(round)] = "release"
    /\ \A k \in todo : pipe[k] = <<>> /\ pc[Chunk(k)] = "none"
    /\ \A k \in Boundaries : pipe[k] # <<>> =>
          /\ k \in parked /\ round > 0
          /\ pipe[k] = <<round>> /\ pc[Chunk(k)] = "none"

\* Where each process is in the document.
PlaceInv ==
    /\ \A c \in Chunks :
          /\ pc[c] \in {"none", "patching", "open", "create", "write"} =>
               at[c] = c[1]
          /\ pc[c] \in {"marking", "waiting"} => at[c] = NextStop(c[1])
          /\ pc[c] \in {"await", "carry"} => at[c] \in parked /\ at[c] > c[1]
    /\ \A t \in Turns :
          /\ pc[Run(t)] \in {"none", "release", "open", "create"} =>
               at[Run(t)] = 0
          /\ pc[Run(t)] = "carry" => at[Run(t)] \in parked \cup {0}
          /\ pc[Run(t)] = "await" => at[Run(t)] \in parked

\* The files are this round's, and say what their writers have come to.
FilesInv ==
    /\ ThisRoundsFiles /\ endDone \in {Absent, round}
    /\ \A k \in Boundaries \ parked :
          {entry[k], marker[k], valid[k], stale[k]} = {Absent}
    /\ \A k \in parked :
          /\ Exists(entry, k) => pc[Chunk(k)] \notin {"none", "patching"}
          /\ Exists(valid, k) => Exists(entry, k) /\ handedOff
          /\ Exists(marker, k) =>
               pc[Chunk(k)] \in {"waiting", "await", "carry", "gone"}
    /\ \A c \in Chunks : c[2] = round =>
          /\ pc[c] \in {"marking", "waiting"} /\ matched[c] =>
               Exists(entry, at[c])
          /\ pc[c] \in {"await", "carry"} => Exists(valid, c[1])

Verdict(k) == Exists(valid, k) \/ Exists(stale, k)

\* Who has the baton: the run, until it confers it; then the chunk that was
\* told it is valid, until it passes it on.
Holds(p) ==
    /\ p[2] = round /\ round > 0
    /\ \/ p[1] = 0 /\ pc[p] \in {"release", "open", "create", "carry", "await"}
       \/ p[1] \in parked /\ Exists(valid, p[1]) /\ pc[p] # "gone"

\* How far the holder knows the document to be settled.
Front(p) == IF p[1] = 0 \/ pc[p] \in {"await", "carry"} THEN at[p] ELSE p[1]

\* There is one holder, and no verdict beyond its front.
BatonInv ==
    /\ \A p, q \in Procs : Holds(p) /\ Holds(q) => p = q
    /\ \A p \in Procs : Holds(p) =>
          /\ \A k \in parked : Verdict(k) => k <= Front(p)
          /\ pc[p] \in {"await", "carry"} => ~Exists(valid, at[p])
          /\ endDone = Absent

Opened == {"write", "marking", "waiting", "await", "carry"}

\* The fleet file: who has it open has it under its name, until it is renamed;
\* and what was written stays in it, unless two found it missing.
DiskInv ==
    /\ round = 0 => disk = {}
    /\ \A p \in Procs : pc[p] \in Opened => there \/ round \in published
    /\ "race" \notin mishaps =>
         /\ \A k \in parked : Exists(marker, k) => k \in disk
         /\ \A c \in Chunks : c[2] = round /\ pc[c] = "marking" => c[1] \in disk
         /\ there \/ disk = {} \/ round \in published

\* A published round has every verdict and every marker.
PublishedInv ==
    /\ \A t \in published : t <= round
    /\ round \in published =>
         /\ pc[Run(round)] = "gone"
         /\ \A k \in parked : /\ Verdict(k)
                              /\ pc[Chunk(k)] \in {"waiting", "gone"}

FleetInv == /\ TypeOK /\ RoundInv /\ PipeInv /\ PlaceInv /\ FilesInv
            /\ BatonInv /\ DiskInv /\ PublishedInv

-----------------------------------------------------------------------------
(* Processes and pages. *)

\* A set of naturals has a least member.
LEMMA LeastIs ==
    ASSUME NEW S, S \subseteq Nat, S # {}
    PROVE  Least(S) \in S /\ \A j \in S : Least(S) <= j
<1>1. PICK n \in S : \A m \in S : ~ (<<m, n>> \in OpToRel(<, Nat))
  BY WFMin, NatLessThanWellFounded, Zenon
<1>2. ASSUME NEW m \in S
      PROVE  ~ (m < n)
  BY <1>1 DEF OpToRel
<1>3. \A m \in S : n <= m
  BY <1>2
<1> QED
  BY <1>3 DEF Least

\* The next stop is a parked page or the end, and no parked page is passed.
LEMMA NextStopIs ==
    ASSUME parked \in SUBSET Boundaries, NEW k \in 0 .. N
    PROVE  /\ NextStop(k) \in parked \cup {End} /\ NextStop(k) > k
           /\ \A q \in parked : q > k => NextStop(k) <= q
           /\ NextStop(k) \in 0 .. End
<1> DEFINE S == {q \in parked \cup {End} : q > k}
<1>0. k \in Nat /\ k < End /\ End \in Nat /\ \A q \in parked : q \in 1 .. N
  BY NAssumption DEF Boundaries, End
<1>1. S \subseteq Nat /\ End \in S
  BY <1>0, NAssumption
<1> HIDE DEF S
<1>2. Least(S) \in S /\ \A j \in S : Least(S) <= j
  BY <1>1, LeastIs
<1> QED
  <2>1. NextStop(k) = Least(S)
    BY DEF NextStop, S
  <2> QED
    BY <1>0, <1>2, <2>1, NAssumption DEF S, End

\* A process is named by its page, none for a run, and its round.
LEMMA ProcIs ==
    /\ \A p \in Procs : /\ p[1] \in 0 .. N /\ p[2] \in 0 .. Rounds
                         /\ p = <<p[1], p[2]>>
    /\ \A c \in Chunks : /\ c \in Procs /\ c[1] \in Boundaries
                          /\ c[2] \in Turns /\ c[1] # 0 /\ c[2] # 0
    /\ \A t \in 0 .. Rounds : /\ Run(t) \in Procs /\ Run(t)[1] = 0
                              /\ Run(t)[2] = t /\ Run(t) \notin Chunks
  BY NAssumption, RoundsAssumption DEF Procs, Chunks, Boundaries, Turns, Run

\* Who is at work is the run of this round or one of its chunks.
LEMMA AtWork ==
    ASSUME TypeOK, RoundInv, NEW p \in Procs,
           pc[p] \notin {"none", "gone", "park", "gates"}
    PROVE  /\ round \in Turns /\ p[2] = round
           /\ \/ p = Run(round)
              \/ p \in Chunks /\ p[1] \in parked /\ p = Chunk(p[1])
<1>1. p[2] = round
  BY ProcIs, RoundsAssumption DEF RoundInv, TypeOK
<1>2. CASE round = 0
  BY <1>1, <1>2, ProcIs DEF RoundInv, Run, Boundaries
<1>3. CASE round # 0
  <2>1. round \in Turns
    BY <1>3, RoundsAssumption DEF TypeOK, Turns
  <2>2. CASE p[1] = 0
    BY <1>1, <2>1, <2>2, ProcIs DEF Run
  <2>3. CASE p[1] # 0
    <3>1. p \in Chunks /\ p = Chunk(p[1])
      BY <1>1, <2>1, <2>3, ProcIs DEF Chunks, Chunk, Boundaries
    <3> QED
      BY <1>1, <2>1, <3>1 DEF RoundInv
  <2> QED
    BY <2>2, <2>3
<1> QED
  BY <1>2, <1>3

-----------------------------------------------------------------------------
(* The invariant holds at first. *)

LEMMA InitFleet == Init => FleetInv
<1> SUFFICES ASSUME Init PROVE FleetInv
  OBVIOUS
<1>1. /\ round = 0 /\ parked = {} /\ todo = {} /\ published = {}
      /\ \A p \in Procs : pc[p] = IF p = Run(0) THEN "park" ELSE "none"
      /\ \A p \in Procs : at[p] = p[1]
      /\ \A k \in Boundaries : pipe[k] = <<>>
  BY DEF Init
<1>2. TypeOK
  <2>1. pc \in [Procs -> PC]
    BY DEF Init, PC
  <2>2. at \in [Procs -> 0 .. End]
    <3>1. \A p \in Procs : p[1] \in 0 .. End
      BY ProcIs, NAssumption DEF End
    <3> QED
      BY <3>1 DEF Init
  <2>3. pipe \in [Boundaries -> Seq(Turns)] /\ sleeper \in [Boundaries -> Sleeping]
    BY DEF Init, Sleeping
  <2> QED
    <3>1. Absent \in Stamps /\ 0 \in 0 .. Rounds
      BY RoundsAssumption DEF Stamps, Absent
    <3>2. /\ entry \in [Boundaries -> Stamps] /\ marker \in [Boundaries -> Stamps]
          /\ valid \in [Boundaries -> Stamps] /\ stale \in [Boundaries -> Stamps]
      BY <3>1 DEF Init
    <3> QED
      BY <2>1, <2>2, <2>3, <3>1, <3>2 DEF Init, TypeOK
<1>3. \A p \in Procs : p # Run(0) => pc[p] = "none"
  BY <1>1
<1>4. \A c \in Chunks : pc[c] = "none"
  <2>1. \A c \in Chunks : c \in Procs /\ c # Run(0)
    BY ProcIs, RoundsAssumption
  <2> QED
    BY <1>3, <2>1
<1>5. \A t \in Turns : pc[Run(t)] = "none"
  <2>1. \A t \in Turns : Run(t) \in Procs /\ Run(t) # Run(0)
    <3>1. \A t \in Turns : t \in 0 .. Rounds /\ t # 0
      BY RoundsAssumption DEF Turns
    <3>2. Run(0)[2] = 0
      BY ProcIs, RoundsAssumption
    <3> QED
      BY <3>1, <3>2, ProcIs
  <2> QED
    BY <1>3, <2>1
<1>6. \A k \in Boundaries : pc[<<k, 0>>] = "none"
  BY <1>3, RoundsAssumption DEF Procs, Run, Boundaries
<1>7. pc[Run(0)] = "park"
  BY <1>1, ProcIs, RoundsAssumption
<1>8. RoundInv
  <2>1. \A p \in Procs : p[2] # 0 => p # Run(0)
    BY DEF Run
  <2>2. \A p \in Procs : p[2] < round => FALSE
    BY <1>1, ProcIs
  <2> QED
    BY <1>1, <1>3, <1>4, <1>5, <1>6, <1>7, <2>1, <2>2 DEF RoundInv, RunPC, ChunkPC
<1>9. PipeInv /\ FilesInv /\ BatonInv /\ PublishedInv
  <2>1. \A c \in Chunks : pc[c] \notin {"marking", "waiting", "await", "carry"}
    BY <1>4
  <2> QED
    <3>1. \A k \in Boundaries : {entry[k], marker[k], valid[k], stale[k]}
                                   = {Absent}
      BY DEF Init
    <3>2. endDone = Absent
      BY DEF Init
    <3>3. FilesInv
      BY <1>1, <2>1, <3>1, <3>2 DEF FilesInv, ThisRoundsFiles
    <3> QED
      BY <1>1, <2>1, <3>3 DEF PipeInv, BatonInv, PublishedInv, Holds
<1>10. PlaceInv
  <2>1. \A c \in Chunks : at[c] = c[1]
    BY <1>1, ProcIs
  <2>2. \A t \in Turns : at[Run(t)] = 0
    BY <1>1, ProcIs, RoundsAssumption DEF Turns
  <2> QED
    BY <1>4, <1>5, <2>1, <2>2 DEF PlaceInv
<1>11. DiskInv
  <2>1. \A p \in Procs : pc[p] \in {"park", "none"}
    BY <1>1
  <2> QED
    BY <1>1, <1>4, <2>1 DEF DiskInv, Opened, Init
<1> QED
  BY <1>2, <1>8, <1>9, <1>10, <1>11 DEF FleetInv

-----------------------------------------------------------------------------
(* Every step keeps the types. *)

LEMMA NextType == FleetInv /\ [Next]_vars => TypeOK'
<1> SUFFICES ASSUME FleetInv, [Next]_vars PROVE TypeOK'
  OBVIOUS
<1>t. /\ TypeOK /\ N \in Nat /\ Rounds \in Nat /\ Faults \subseteq AllFaults
      /\ \A c \in Chunks : c \in Procs
  BY NAssumption, RoundsAssumption, FaultsAssumption, ProcIs DEF FleetInv
<1>1. CASE Park
  <2>1. /\ Run(0) \in Procs /\ at[Run(0)] \in 0 .. End /\ at[Run(0)] < N
        /\ at[Run(0)] + 1 \in Boundaries /\ at[Run(0)] + 1 \in 0 .. End
    BY <1>t, <1>1, ProcIs DEF TypeOK, Park, Boundaries, End
  <2>2. parked' \in SUBSET Boundaries /\ todo' \in SUBSET parked'
    BY <1>t, <1>1, <2>1 DEF TypeOK, Park
  <2>3. sleeper' \in [Boundaries -> Sleeping]
    BY <1>t, <1>1, <2>1 DEF TypeOK, Park, fleet, Sleeping
  <2>4. at' \in [Procs -> 0 .. End]
    BY <1>t, <1>1, <2>1 DEF TypeOK, Park
  <2>5. mishaps' \in SUBSET AllFaults
    BY <1>t, <1>1 DEF TypeOK, Park, AllFaults
  <2> QED
    BY <1>t, <1>1, <2>2, <2>3, <2>4, <2>5 DEF TypeOK, Park, files, output
<1>2. CASE OpenTheGates \/ AllReported \/ AllReleased
  BY <1>t, <1>2 DEF TypeOK, OpenTheGates, AllReported, AllReleased, PC, Moves,
                    files, output, fleet
<1>3. CASE Release
  <2>1. /\ pc' = pc /\ at' = at /\ sleeper' = sleeper /\ parked' = parked
        /\ todo' \in SUBSET parked
        /\ pipe' = pipe \/ pipe' = [pipe EXCEPT ![Least(todo)] = Append(@, round)]
        /\ mishaps' \subseteq mishaps \cup {"away"}
        /\ UNCHANGED <<round, matched, files, handedOff, output>>
    BY <1>t, <1>3 DEF Release, TypeOK
  <2>2. pipe' \in [Boundaries -> Seq(Turns)]
    <3>1. todo \subseteq Boundaries /\ todo # {} /\ round \in Turns
      BY <1>t, <1>3 DEF TypeOK, Release, FleetInv, RoundInv, Turns
    <3>2. Least(todo) \in Boundaries
      <4>1. todo \subseteq Nat
        BY <3>1 DEF Boundaries
      <4> QED
        BY <3>1, <4>1, LeastIs
    <3>3. Append(pipe[Least(todo)], round) \in Seq(Turns)
      BY <1>t, <3>1, <3>2 DEF TypeOK
    <3> QED
      BY <1>t, <2>1, <3>2, <3>3 DEF TypeOK
  <2> QED
    BY <1>t, <2>1, <2>2 DEF TypeOK, files, output, AllFaults
<1>4. CASE Finalize
  <2>1. published' \in SUBSET Turns
    BY <1>t, <1>4, RoundsAssumption
       DEF TypeOK, Finalize, FleetInv, RoundInv, Turns
  <2> QED
    BY <1>t, <1>4, <2>1 DEF TypeOK, Finalize, PC, Moves, files, fleet
<1>5. CASE BeginRound
  <2>1. round' \in 0 .. Rounds /\ todo' \in SUBSET parked'
    BY <1>t, <1>5 DEF TypeOK, BeginRound, fleet
  <2>2. \A f \in [Boundaries -> Stamps] : Unlinked(f) \in [Boundaries -> Stamps]
    BY <1>t DEF Unlinked, Stamps, Absent
  <2>3. endDone' \in Stamps
    BY <1>t, <1>5 DEF BeginRound, Stamps, Absent
  <2>5. pc' \in [Procs -> PC]
    BY <1>t, <1>5 DEF TypeOK, BeginRound, Moves, PC
  <2>4. mishaps' \in SUBSET AllFaults
    BY <1>t, <1>5 DEF TypeOK, BeginRound, AllFaults
  <2> QED
    BY <1>t, <1>5, <2>1, <2>2, <2>3, <2>4, <2>5 DEF TypeOK, BeginRound, fleet
<1>6. CASE Abandon
  BY <1>t, <1>6 DEF TypeOK, Abandon, PC, AllFaults, Moves, files, fleet, output
<1>7. ASSUME NEW k \in Boundaries, SleeperStep(k) PROVE TypeOK'
  <2>1. CASE ReportIn(k) \/ Listen(k)
    BY <1>t, <2>1 DEF TypeOK, ReportIn, Listen, Sleeping, files, output
  <2>2. CASE Rouse(k)
    <3>1. pipe' \in [Boundaries -> Seq(Turns)]
      <4>1. pipe[k] \in Seq(Turns) /\ pipe[k] # <<>>
        BY <1>t, <2>2 DEF TypeOK, Rouse
      <4>2. Tail(pipe[k]) \in Seq(Turns) /\ <<>> \in Seq(Turns)
        BY <4>1
      <4> QED
        BY <1>t, <2>2, <4>2 DEF TypeOK, Rouse
    <3> QED
      BY <1>t, <2>2, <3>1 DEF TypeOK, Rouse, Sleeping, PC, Moves, files, output
  <2> QED
    BY <1>7, <2>1, <2>2 DEF SleeperStep
<1>8. ASSUME NEW c \in Chunks, ChunkStep(c) \/ PatchFails(c) PROVE TypeOK'
  <2>0. /\ c \in Procs /\ c[1] \in Boundaries /\ c[2] \in Stamps
        /\ c[1] \in 0 .. N
    BY ProcIs DEF Stamps
  <2>1. CASE PatchFails(c) \/ Retire(c)
    BY <1>t, <2>0, <2>1 DEF TypeOK, PatchFails, Retire, PC, AllFaults, Moves,
                            files, fleet, output
  <2>2. CASE Enter(c) \/ WriteMarker(c)
    BY <1>t, <2>0, <2>2 DEF TypeOK, Enter, WriteMarker, PC, Moves, fleet, output
  <2>3. CASE ReachStop(c)
    <3>1. NextStop(c[1]) \in 0 .. End
      BY <1>t, <2>0, NextStopIs DEF TypeOK
    <3>2. at' \in [Procs -> 0 .. End] /\ matched' \in [Chunks -> BOOLEAN]
      BY <1>t, <2>3, <3>1 DEF TypeOK, ReachStop
    <3>3. mishaps' \in SUBSET AllFaults
      BY <1>t, <2>3 DEF TypeOK, ReachStop, AllFaults
    <3>4. disk' \in SUBSET (0 .. N) /\ pc' \in [Procs -> PC]
      BY <1>t, <2>0, <2>3 DEF TypeOK, ReachStop, Moves, PC
    <3> QED
      BY <1>t, <2>3, <3>2, <3>3, <3>4 DEF TypeOK, ReachStop, files, fleet
  <2>4. CASE PassOn(c) \/ Disown(c)
    BY <1>t, <2>0, <2>4 DEF TypeOK, PassOn, Disown, PC, Moves, fleet, output
  <2>5. CASE TakeBaton(c)
    <3>1. pc' \in [Procs -> PC] /\ endDone' \in Stamps
      BY <1>t, <2>0, <2>5 DEF TypeOK, TakeBaton, PC, Moves
    <3> QED
      BY <1>t, <2>5, <3>1 DEF TypeOK, TakeBaton, fleet, output
  <2> QED
    BY <1>8, <2>1, <2>2, <2>3, <2>4, <2>5 DEF ChunkStep
<1>9. ASSUME NEW p \in Procs, WriterStep(p) PROVE TypeOK'
  <2>0. p[2] \in Stamps
    BY ProcIs DEF Stamps
  <2>1. CASE OpenThere(p) \/ FindNone(p) \/ Rewrite(p)
    BY <1>t, <2>1 DEF TypeOK, OpenThere, FindNone, Rewrite, PC, Begun, Moves,
                      files, fleet, output
  <2>2. CASE Create(p)
    BY <1>t, <2>2 DEF TypeOK, Create, PC, Begun, Moves, AllFaults, files, fleet
  <2>3. ASSUME Confer(p) \/ Overrule(p) \/ RunOut(p)
        PROVE  /\ disk' \in SUBSET (0 .. N) /\ at' \in [Procs -> 0 .. End]
               /\ pc' \in [Procs -> PC]
    <3>1. pc[p] = "carry"
      BY <2>3 DEF Confer, Overrule, RunOut
    <3>2. at[p] \in 0 .. N
      <4>1. round \in Turns /\ (p = Run(round) \/ p \in Chunks)
        BY <1>t, <3>1, AtWork DEF FleetInv
      <4>2. at[p] \in parked \cup {0}
        BY <1>t, <3>1, <4>1 DEF FleetInv, PlaceInv
      <4> QED
        BY <1>t, <4>2 DEF TypeOK, Boundaries
    <3>3. NextStop(at[p]) \in 0 .. End /\ End \in 0 .. End
      BY <1>t, <3>2, NextStopIs DEF TypeOK, End
    <3>4. disk' = disk \cup {at[p]} /\ \E q \in 0 .. End : at' = [at EXCEPT ![p] = q]
      BY <2>3, <3>3 DEF Confer, Overrule, RunOut
    <3>5. \E to \in PC : pc' = [pc EXCEPT ![p] = to]
      BY <2>3 DEF Confer, Overrule, RunOut, PC, Moves
    <3> QED
      BY <1>t, <3>2, <3>4, <3>5 DEF TypeOK
  <2>4. CASE Confer(p)
    BY <1>t, <2>0, <2>3, <2>4 DEF TypeOK, Confer, fleet
  <2>5. CASE Overrule(p)
    BY <1>t, <2>0, <2>3, <2>5 DEF TypeOK, Overrule, fleet
  <2>6. CASE RunOut(p)
    BY <1>t, <2>0, <2>3, <2>6 DEF TypeOK, RunOut, fleet
  <2> QED
    BY <1>9, <2>1, <2>2, <2>4, <2>5, <2>6 DEF WriterStep
<1>10. CASE UNCHANGED vars
  BY <1>t, <1>10 DEF TypeOK, vars, files, output, fleet
<1> QED
  BY <1>1, <1>2, <1>3, <1>4, <1>5, <1>6, <1>7, <1>8, <1>9, <1>10
     DEF Next, RunStep

-----------------------------------------------------------------------------
(* What a step of a chunk, or of who opens and carries, leaves alone. *)

LEMMA ChunkMoves ==
    ASSUME TypeOK, RoundInv, NEW c \in Chunks, ChunkStep(c) \/ PatchFails(c)
    PROVE  /\ c \in Procs /\ c[1] # 0 /\ c # Run(round)
           /\ c = Chunk(c[1]) /\ c[1] \in parked
           /\ c[2] = round /\ round \in Turns
           /\ pc[c] \notin {"none", "gone"}
           /\ pc'[c] \notin {"none", "patching"}
           /\ \A q \in Procs : q # c => pc'[q] = pc[q] /\ at'[q] = at[q]
           /\ \A d \in Chunks : d # c => matched'[d] = matched[d]
           /\ UNCHANGED <<round, fleet, todo, handedOff, there, published>>
<1>1. c \in Procs /\ pc[c] \notin {"none", "gone", "park", "gates"}
  BY ProcIs DEF ChunkStep, PatchFails, Enter, ReachStop, WriteMarker,
                PassOn, Disown, TakeBaton, Retire
<1>2. c # Run(round)
  BY ProcIs DEF TypeOK
<1>3. /\ c[1] # 0 /\ c = Chunk(c[1]) /\ c[1] \in parked
      /\ c[2] = round /\ round \in Turns
  BY <1>1, <1>2, AtWork, ProcIs
<1>4. \E to \in PC : Moves(c, to) /\ to \notin {"none", "patching"}
  BY DEF ChunkStep, PatchFails, Enter, ReachStop, WriteMarker,
         PassOn, Disown, TakeBaton, Retire, PC
<1>5. pc'[c] \notin {"none", "patching"}
      /\ \A q \in Procs : q # c => pc'[q] = pc[q]
  BY <1>1, <1>4 DEF Moves, TypeOK
<1>6. \A q \in Procs : q # c => at'[q] = at[q]
  BY DEF TypeOK, ChunkStep, PatchFails, Enter, ReachStop, WriteMarker,
         PassOn, Disown, TakeBaton, Retire
<1>7. \A d \in Chunks : d # c => matched'[d] = matched[d]
  BY DEF TypeOK, ChunkStep, PatchFails, Enter, ReachStop, WriteMarker,
         PassOn, Disown, TakeBaton, Retire
<1>8. UNCHANGED <<round, fleet, todo, handedOff, there, published>>
  BY DEF ChunkStep, PatchFails, Enter, ReachStop, WriteMarker,
         PassOn, Disown, TakeBaton, Retire, output
<1> QED
  BY <1>1, <1>2, <1>3, <1>5, <1>6, <1>7, <1>8

\* A carrier, run or chunk, is of this round and leaves the others alone.
LEMMA WriterMoves ==
    ASSUME TypeOK, RoundInv, NEW p \in Procs, WriterStep(p)
    PROVE  /\ p[2] = round /\ round \in Turns
           /\ \/ p = Run(round) /\ p[1] = 0
              \/ p \in Chunks /\ p = Chunk(p[1]) /\ p[1] \in parked /\ p[1] # 0
           /\ pc[p] \in {"open", "create", "await", "carry"}
           /\ pc'[p] \notin {"none", "patching", "release", "marking", "waiting"}
           /\ \A q \in Procs : q # p => pc'[q] = pc[q] /\ at'[q] = at[q]
           /\ UNCHANGED <<round, fleet, todo, matched, entry, marker, published>>
<1>1. pc[p] \in {"open", "create", "await", "carry"}
  BY DEF WriterStep, OpenThere, FindNone, Create, Rewrite, Confer, Overrule,
         RunOut
<1>2. /\ p[2] = round /\ round \in Turns
      /\ \/ p = Run(round)
         \/ p \in Chunks /\ p[1] \in parked /\ p = Chunk(p[1])
  BY <1>1, AtWork
<1>3. (p = Run(round) => p[1] = 0) /\ (p \in Chunks => p[1] # 0)
  BY <1>2, ProcIs DEF Run
<1>4. \E to \in PC : /\ Moves(p, to)
                     /\ to \notin {"none", "patching", "release", "marking",
                                   "waiting"}
  BY DEF WriterStep, OpenThere, FindNone, Create, Rewrite, Confer, Overrule,
         RunOut, Begun, PC
<1>5. pc'[p] \notin {"none", "patching", "release", "marking", "waiting"}
      /\ \A q \in Procs : q # p => pc'[q] = pc[q]
  BY <1>4 DEF Moves, TypeOK
<1>6. \A q \in Procs : q # p => at'[q] = at[q]
  BY DEF TypeOK, WriterStep, OpenThere, FindNone, Create, Rewrite, Confer,
         Overrule, RunOut
<1>7. UNCHANGED <<round, fleet, todo, matched, entry, marker, published>>
  BY DEF WriterStep, OpenThere, FindNone, Create, Rewrite, Confer, Overrule,
         RunOut, output, files
<1> QED
  BY <1>1, <1>2, <1>3, <1>5, <1>6, <1>7

\* A run's own step between its pages, and its end.
LEMMA RunMoves ==
    ASSUME TypeOK, RoundInv, AllReleased \/ Finalize \/ Abandon
    PROVE  /\ round \in Turns /\ Run(round) \in Procs
           /\ pc[Run(round)] \in RunPC \ {"none", "gone"}
           /\ pc'[Run(round)] \in {"open", "gone"}
           /\ \A q \in Procs : q # Run(round) => pc'[q] = pc[q]
           /\ UNCHANGED <<round, fleet, at, matched, files, handedOff, disk>>
<1>1. pc[Run(round)] \in RunPC \ {"none", "gone"}
  BY DEF AllReleased, Finalize, Abandon, RunPC
<1>2. Run(round) \in Procs
  BY ProcIs DEF TypeOK
<1>3. round \in Turns
  BY <1>1, <1>2, AtWork DEF RunPC
<1>4. Moves(Run(round), "open") \/ Moves(Run(round), "gone")
  BY DEF AllReleased, Finalize, Abandon
<1>5. /\ pc'[Run(round)] \in {"open", "gone"}
      /\ \A q \in Procs : q # Run(round) => pc'[q] = pc[q]
  BY <1>2, <1>4 DEF Moves, TypeOK
<1>6. UNCHANGED <<round, fleet, at, matched, files, handedOff, disk>>
  BY DEF AllReleased, Finalize, Abandon, output
<1> QED
  BY <1>1, <1>2, <1>3, <1>5, <1>6

\* Before the first round only run 0 moves, and no file is there.
LEMMA ParkingMoves ==
    ASSUME FleetInv, Park \/ OpenTheGates \/ AllReported
    PROVE  /\ round = 0 /\ todo = {} /\ \A k \in Boundaries : pipe[k] = <<>>
           /\ \A q \in Procs : q # Run(0) => pc'[q] = pc[q] /\ at'[q] = at[q]
           /\ \A t \in Turns : Run(t) \in Procs /\ Run(t) # Run(0)
                               /\ pc[Run(t)] = "none"
           /\ \A c \in Chunks : c \in Procs /\ c # Run(0) /\ pc[c] = "none"
           /\ pc'[Run(0)] \in {"park", "gates", "gone"}
           /\ UNCHANGED <<round, pipe, todo, matched, files, handedOff, disk,
                          published>>
<1>1. pc[Run(0)] # "gone" /\ Run(0) \in Procs /\ Run(0)[2] = 0
  BY ProcIs, RoundsAssumption DEF Park, OpenTheGates, AllReported
<1>2. round = 0
  BY <1>1, RoundsAssumption DEF FleetInv, RoundInv, TypeOK
<1>3. todo = {} /\ \A k \in Boundaries : pipe[k] = <<>>
  BY <1>2 DEF FleetInv, PipeInv, RoundInv
<1>4. /\ \A q \in Procs : q # Run(0) => pc'[q] = pc[q] /\ at'[q] = at[q]
      /\ pc'[Run(0)] \in {"park", "gates", "gone"}
  BY <1>1 DEF Park, OpenTheGates, AllReported, Moves, FleetInv, TypeOK, RoundInv
<1>5. UNCHANGED <<round, pipe, todo, matched, files, handedOff, disk, published>>
  BY DEF Park, OpenTheGates, AllReported, fleet, output
<1>6. \A t \in Turns : /\ Run(t) \in Procs /\ Run(t) # Run(0)
                       /\ pc[Run(t)] = "none"
  <2>1. \A t \in Turns : Run(t) \in Procs /\ Run(t)[2] = t /\ t > 0
    BY ProcIs DEF Turns
  <2> QED
    BY <1>1, <1>2, <2>1 DEF FleetInv, RoundInv
<1>7. \A c \in Chunks : c \in Procs /\ c # Run(0) /\ pc[c] = "none"
  <2>1. \A c \in Chunks : c \in Procs /\ c[2] > 0
    BY ProcIs DEF Turns
  <2> QED
    BY <1>1, <1>2, <2>1 DEF FleetInv, RoundInv
<1> QED
  BY <1>2, <1>3, <1>4, <1>5, <1>6, <1>7

\* A round begins when nobody of the last is left.
LEMMA BeginMoves ==
    ASSUME TypeOK, RoundInv, PipeInv, BeginRound, "linger" \notin Faults
    PROVE  /\ round' = round + 1 /\ round' \in Turns
           /\ parked' = parked /\ pipe' = pipe /\ at' = at
           /\ \A k \in Boundaries : pipe[k] = <<>>
           /\ Run(round') \in Procs /\ pc'[Run(round')] = "release"
           /\ \A q \in Procs : q # Run(round') =>
                 pc'[q] = pc[q] /\ pc[q] \in {"none", "gone"}
           /\ \A k \in Boundaries : /\ <<k, round'>> \in Chunks
                                    /\ pc'[<<k, round'>>] = "none"
           /\ \A c \in Chunks : c \in Procs /\ c # Run(round')
<1>1. /\ round' = round + 1 /\ round' \in Turns
      /\ pc' = [pc EXCEPT ![Run(round')] = "release"]
      /\ pc[Run(round)] = "gone" /\ ~Lingering
      /\ parked' = parked /\ pipe' = pipe /\ at' = at
  BY RoundsAssumption DEF BeginRound, Moves, fleet, Turns, TypeOK
<1>2. Run(round') \in Procs /\ \A c \in Chunks : c \in Procs /\ c # Run(round')
  BY <1>1, ProcIs DEF Turns
<1>3. pc'[Run(round')] = "release"
      /\ \A q \in Procs : q # Run(round') => pc'[q] = pc[q]
  BY <1>1, <1>2 DEF TypeOK
<1>4. \A k \in Boundaries : pipe[k] = <<>>
  BY <1>1 DEF Lingering, PipeInv
<1>5. ASSUME NEW q \in Procs, q # Run(round') PROVE pc[q] \in {"none", "gone"}
  <2>1. SUFFICES ASSUME pc[q] \notin {"none", "gone"} PROVE FALSE
    OBVIOUS
  <2>2. q \notin Chunks
    BY <1>1, <2>1 DEF Lingering
  <2>3. q = Run(0) \/ pc[q] \notin {"park", "gates"}
    <3>1. q[1] = 0 \/ q[2] = 0
      BY <2>2, ProcIs DEF Chunks, Turns, Boundaries
    <3>2. CASE q[1] = 0
      <4>1. q = Run(q[2])
        BY <3>2, ProcIs DEF Run
      <4>2. q[2] = 0 \/ q[2] \in Turns
        BY ProcIs DEF Turns
      <4> QED
        BY <4>1, <4>2 DEF RoundInv, RunPC
    <3>3. CASE q[1] # 0 /\ q[2] = 0
      <4>1. q[1] \in Boundaries /\ q = <<q[1], 0>>
        BY <3>3, ProcIs DEF Boundaries
      <4> QED
        BY <4>1, <2>1 DEF RoundInv
    <3> QED
      BY <3>1, <3>2, <3>3
  <2>4. pc[Run(0)] = "gone"
    BY <1>1 DEF RoundInv, TypeOK
  <2>5. q = Run(round)
    BY <2>1, <2>2, <2>3, <2>4, AtWork
  <2> QED
    BY <1>1, <2>1, <2>5
<1>6. \A k \in Boundaries : /\ <<k, round'>> \in Chunks
                            /\ pc'[<<k, round'>>] = "none"
  <2>1. \A k \in Boundaries : /\ <<k, round'>> \in Chunks
                              /\ <<k, round'>>[2] > round
    BY <1>1, RoundsAssumption DEF Chunks, TypeOK
  <2> QED
    BY <1>2, <1>3, <2>1 DEF RoundInv
<1> QED
  BY <1>1, <1>2, <1>3, <1>4, <1>5, <1>6

\* A sleeper is roused once in a round.
LEMMA RouseMoves ==
    ASSUME FleetInv, NEW k \in Boundaries, Rouse(k)
    PROVE  /\ round \in Turns /\ Chunk(k) \in Chunks /\ Chunk(k) \in Procs
           /\ Chunk(k) # Run(round) /\ k \in parked /\ k \notin todo
           /\ pc[Chunk(k)] = "none" /\ pc'[Chunk(k)] = "patching"
           /\ \A q \in Procs : q # Chunk(k) => pc'[q] = pc[q]
           /\ pipe'[k] = <<>>
           /\ \A j \in Boundaries : j # k => pipe'[j] = pipe[j]
           /\ UNCHANGED <<round, parked, todo, at, matched, files, handedOff,
                          output, mishaps>>
<1>1. /\ k \in parked /\ round > 0 /\ pipe[k] = <<round>> /\ k \notin todo
      /\ pc[Chunk(k)] = "none"
  BY DEF Rouse, FleetInv, PipeInv
<1>2. round \in Turns /\ Chunk(k) \in Chunks
  BY <1>1, RoundsAssumption DEF Turns, Chunks, Chunk, FleetInv, TypeOK
<1>3. Chunk(k) \in Procs /\ Chunk(k) # Run(round)
  BY <1>2, ProcIs DEF Turns
<1>4. Moves(Chunk(k), "patching")
  BY <1>1 DEF Rouse, Chunk
<1>5. /\ pc'[Chunk(k)] = "patching"
      /\ \A q \in Procs : q # Chunk(k) => pc'[q] = pc[q]
  BY <1>3, <1>4 DEF Moves, FleetInv, TypeOK
<1>6. /\ pipe'[k] = <<>>
      /\ \A j \in Boundaries : j # k => pipe'[j] = pipe[j]
  <2>1. Tail(pipe[k]) = <<>>
    BY <1>1
  <2> QED
    BY <2>1 DEF Rouse, FleetInv, TypeOK
<1>7. UNCHANGED <<round, parked, todo, at, matched, files, handedOff, output,
                  mishaps>>
  BY DEF Rouse
<1> QED
  BY <1>1, <1>2, <1>3, <1>5, <1>6, <1>7

-----------------------------------------------------------------------------
(* Only this round's processes move. *)

\* A process of this round moves on to where such a process can be.
LEMMA MoveKeepsRounds ==
    ASSUME TypeOK, RoundInv, NEW p \in Procs, NEW to, Moves(p, to),
           round \in Turns, UNCHANGED <<round, parked>>,
           \/ p = Run(round) /\ to \in RunPC \ {"none"}
           \/ p \in Chunks /\ p[2] = round /\ p[1] \in parked /\ to \in ChunkPC
    PROVE  RoundInv'
<1>1. pc' = [pc EXCEPT ![p] = to] /\ pc \in [Procs -> PC]
  BY DEF Moves, TypeOK
<1>2. /\ p[2] = round /\ p # Run(0) /\ \A k \in Boundaries : p # <<k, 0>>
      /\ round \in Nat /\ round > 0 /\ round \in 0 .. Rounds
  BY ProcIs, RoundsAssumption DEF Turns
<1>3. \A q \in Procs : q # p => pc'[q] = pc[q]
  BY <1>1
<1>4. \A t \in Turns : Run(t) \in Procs /\ Run(t) \notin Chunks /\ Run(t)[2] = t
  BY ProcIs DEF Turns
<1>5. pc'[p] = to
  BY <1>1
<1>6. \A t \in Turns : pc'[Run(t)] \in RunPC
  BY <1>3, <1>4, <1>5 DEF RoundInv
<1>7. \A c \in Chunks : /\ pc'[c] \in ChunkPC
                        /\ pc'[c] # "none" => c[1] \in parked
  BY <1>3, <1>4, <1>5, ProcIs DEF RoundInv
<1>8. \A q \in Procs : /\ q[2] > round => pc'[q] = "none"
                       /\ q[2] < round => pc'[q] \in {"none", "gone"}
  BY <1>2, <1>3 DEF RoundInv
<1>9. pc'[Run(round)] # "none"
  BY <1>2, <1>3, <1>4, <1>5 DEF RoundInv
<1>10. /\ pc'[Run(0)] = "gone"
       /\ \A k \in Boundaries : pc'[<<k, 0>>] = "none"
  <2>1. Run(0) \in Procs /\ \A k \in Boundaries : <<k, 0>> \in Procs
    BY ProcIs, RoundsAssumption, NAssumption DEF Procs, Boundaries
  <2> QED
    BY <1>2, <1>3, <2>1 DEF RoundInv
<1> QED
  BY <1>2, <1>6, <1>7, <1>8, <1>9, <1>10 DEF RoundInv

\* Every step leaves only this round's processes at work.
LEMMA NextRounds ==
    ASSUME FleetInv, [Next]_vars, "linger" \notin Faults
    PROVE  RoundInv'
<1>t. TypeOK /\ RoundInv /\ Run(0) \in Procs /\ round \in 0 .. Rounds
  BY ProcIs, RoundsAssumption DEF FleetInv, TypeOK
<1>0. ASSUME pc[Run(0)] # "gone"
      PROVE  /\ round = 0 /\ \A q \in Procs : q[2] > 0 => pc[q] = "none"
             /\ \A t \in Turns : Run(t) \in Procs /\ Run(t)[2] = t /\ t > 0
             /\ \A c \in Chunks : c \in Procs /\ c[2] > 0
             /\ \A q \in Procs : ~(q[2] < 0)
             /\ \A k \in Boundaries : <<k, 0>> \in Procs /\ <<k, 0>> # Run(0)
  <2>1. round = 0
    BY <1>0, <1>t, RoundsAssumption DEF RoundInv
  <2>2. /\ \A t \in Turns : Run(t) \in Procs /\ Run(t)[2] = t /\ t > 0
        /\ \A c \in Chunks : c \in Procs /\ c[2] > 0
        /\ \A q \in Procs : ~(q[2] < 0)
    BY ProcIs DEF Turns
  <2>3. \A k \in Boundaries : <<k, 0>> \in Procs /\ <<k, 0>> # Run(0)
    BY RoundsAssumption, NAssumption DEF Procs, Boundaries, Run
  <2> QED
    BY <1>t, <2>1, <2>2, <2>3 DEF RoundInv
<1>1. ASSUME Park \/ OpenTheGates \/ AllReported PROVE RoundInv'
  <2>1. /\ pc[Run(0)] # "gone" /\ round' = round
        /\ pc' = [pc EXCEPT ![Run(0)] = pc'[Run(0)]]
        /\ pc'[Run(0)] \in {"park", "gates", "gone"}
    BY <1>1, <1>t DEF Park, OpenTheGates, AllReported, Moves, TypeOK
  <2>2. \A q \in Procs : q # Run(0) => pc'[q] = pc[q]
    BY <1>t, <2>1 DEF TypeOK
  <2>3. \A q \in Procs : q[2] > 0 => q # Run(0)
    BY ProcIs, RoundsAssumption
  <2> QED
    BY <1>0, <1>t, <2>1, <2>2, <2>3 DEF RoundInv, RunPC, ChunkPC
<1>2. ASSUME AllReleased \/ Finalize \/ Abandon PROVE RoundInv'
  <2>1. pc[Run(round)] \notin {"none", "gone", "park", "gates"}
    BY <1>2 DEF AllReleased, Finalize, Abandon
  <2>2. Run(round) \in Procs
    BY <1>t, ProcIs
  <2>3. round \in Turns
    BY <1>t, <2>1, <2>2, AtWork
  <2>4. \E to \in RunPC \ {"none"} : Moves(Run(round), to)
    BY <1>2 DEF AllReleased, Finalize, Abandon, RunPC
  <2>5. UNCHANGED <<round, parked>>
    BY <1>2 DEF AllReleased, Finalize, Abandon, fleet
  <2> QED
    BY <1>t, <2>2, <2>3, <2>4, <2>5, MoveKeepsRounds
<1>3. ASSUME NEW k \in Boundaries, Rouse(k) PROVE RoundInv'
  <2>1. k \in parked /\ round > 0 /\ Head(pipe[k]) = round
    BY <1>3 DEF Rouse, FleetInv, PipeInv
  <2>2. round \in Turns /\ Chunk(k) \in Chunks /\ Chunk(k) \in Procs
    BY <1>t, <2>1, RoundsAssumption, ProcIs DEF Turns, Chunks, Chunk
  <2>3. Moves(Chunk(k), "patching") /\ UNCHANGED <<round, parked>>
    BY <1>3, <2>1 DEF Rouse, Chunk
  <2>4. Chunk(k)[1] = k /\ Chunk(k)[2] = round
    BY DEF Chunk
  <2> QED
    BY <1>t, <2>1, <2>2, <2>3, <2>4, MoveKeepsRounds DEF ChunkPC
<1>4. ASSUME NEW c \in Chunks, ChunkStep(c) \/ PatchFails(c) PROVE RoundInv'
  <2>1. c \in Procs /\ pc[c] \notin {"none", "gone", "park", "gates"}
    BY <1>4, ProcIs DEF ChunkStep, PatchFails, Enter, ReachStop, WriteMarker,
                        PassOn, Disown, TakeBaton, Retire
  <2>2. round \in Turns /\ c[2] = round /\ c[1] \in parked
    BY <1>t, <2>1, AtWork, ProcIs
  <2>3. \E to \in ChunkPC : Moves(c, to)
    BY <1>4 DEF ChunkStep, PatchFails, Enter, ReachStop, WriteMarker,
                PassOn, Disown, TakeBaton, Retire, ChunkPC
  <2>4. UNCHANGED <<round, parked>>
    BY <1>4 DEF ChunkStep, PatchFails, Enter, ReachStop, WriteMarker,
                PassOn, Disown, TakeBaton, Retire, fleet
  <2> QED
    BY <1>t, <2>1, <2>2, <2>3, <2>4, MoveKeepsRounds
<1>5. ASSUME NEW p \in Procs, WriterStep(p) PROVE RoundInv'
  <2>1. pc[p] \in {"open", "create", "await", "carry"}
    BY <1>5 DEF WriterStep, OpenThere, FindNone, Create, Rewrite, Confer,
                Overrule, RunOut
  <2>2. /\ round \in Turns /\ p[2] = round
        /\ p = Run(round) \/ (p \in Chunks /\ p[1] \in parked)
    BY <1>t, <2>1, AtWork
  <2>3. UNCHANGED <<round, parked>>
    BY <1>5 DEF WriterStep, OpenThere, FindNone, Create, Rewrite, Confer,
                Overrule, RunOut, fleet
  <2>4. CASE p = Run(round)
    <3>1. p[1] = 0
      BY <1>t, <2>4, ProcIs
    <3>2. \E to \in RunPC \ {"none"} : Moves(p, to)
      BY <1>5, <3>1 DEF WriterStep, OpenThere, FindNone, Create, Rewrite,
                        Confer, Overrule, RunOut, Begun, RunPC
    <3> QED
      BY <1>t, <2>2, <2>3, <2>4, <3>2, MoveKeepsRounds
  <2>5. CASE p \in Chunks /\ p[1] \in parked
    <3>1. p[1] # 0
      BY <2>5, ProcIs
    <3>2. \E to \in ChunkPC : Moves(p, to)
      BY <1>5, <3>1 DEF WriterStep, OpenThere, FindNone, Create, Rewrite,
                        Confer, Overrule, RunOut, Begun, ChunkPC
    <3> QED
      BY <1>t, <2>2, <2>3, <2>5, <3>2, MoveKeepsRounds
  <2> QED
    BY <2>2, <2>4, <2>5
<1>6. ASSUME BeginRound PROVE RoundInv'
  <2>1. /\ round' = round + 1 /\ round' \in Turns /\ parked' = parked
        /\ Run(round') \in Procs /\ Run(round')[2] = round'
        /\ pc'[Run(round')] = "release"
        /\ \A q \in Procs : q # Run(round') =>
              pc'[q] = pc[q] /\ pc[q] \in {"none", "gone"}
        /\ \A c \in Chunks : c \in Procs /\ c # Run(round')
    BY <1>6, <1>t, BeginMoves, ProcIs DEF FleetInv, Turns
  <2>2. /\ Run(0) \in Procs /\ Run(0) # Run(round') /\ pc[Run(0)] # "none"
        /\ \A k \in Boundaries : <<k, 0>> \in Procs /\ <<k, 0>> # Run(round')
    BY <1>t, <2>1, RoundsAssumption, NAssumption
       DEF Procs, Boundaries, Run, Turns, RoundInv
  <2>3. ASSUME NEW q \in Procs
        PROVE  /\ q[2] > round' => pc'[q] = "none"
               /\ q[2] < round' => pc'[q] \in {"none", "gone"}
    <3>1. q[2] > round' => q[2] > round
      BY <1>t, <2>1, ProcIs
    <3>2. q[2] > round' \/ q[2] < round' => q # Run(round')
      BY <1>t, <2>1, ProcIs
    <3> QED
      BY <1>t, <2>1, <3>1, <3>2 DEF RoundInv
  <2>4. \A t \in Turns : pc'[Run(t)] \in RunPC
    <3>1. \A t \in Turns : Run(t) \in Procs
      BY ProcIs DEF Turns
    <3> QED
      BY <1>t, <2>1, <3>1 DEF RoundInv, RunPC
  <2> QED
    BY <1>t, <2>1, <2>2, <2>3, <2>4 DEF RoundInv
<1>7. ASSUME UNCHANGED <<round, pc, parked>> PROVE RoundInv'
  BY <1>t, <1>7 DEF RoundInv
<1>8. Release \/ (\E k \in Boundaries : ReportIn(k) \/ Listen(k))
        \/ UNCHANGED vars => UNCHANGED <<round, pc, parked>>
  BY DEF Release, ReportIn, Listen, vars, fleet
<1> QED
  BY <1>1, <1>2, <1>3, <1>4, <1>5, <1>6, <1>7, <1>8
     DEF Next, RunStep, SleeperStep

-----------------------------------------------------------------------------
(* Each page is released once in a round. *)

LEMMA NextPipes ==
    ASSUME FleetInv, [Next]_vars, "linger" \notin Faults
    PROVE  PipeInv'
<1>t. /\ TypeOK /\ RoundInv /\ PipeInv /\ todo \subseteq parked
      /\ parked \subseteq Boundaries
  BY DEF FleetInv, TypeOK
<1>1. CASE Park \/ OpenTheGates \/ AllReported
  BY <1>t, <1>1, ParkingMoves DEF PipeInv
<1>2. ASSUME AllReleased \/ Finalize \/ Abandon PROVE PipeInv'
  <2>1. todo' = {}
    BY <1>t, <1>2 DEF AllReleased, Finalize, Abandon, PipeInv
  <2>2. \A k \in Boundaries : pipe[k] # <<>> =>
           Chunk(k) \in Procs /\ Chunk(k) # Run(round)
    BY <1>t, <1>2, RunMoves, ProcIs
       DEF PipeInv, Chunk, Chunks, Turns, Boundaries, Run
  <2>3. \A k \in Boundaries : pipe[k] # <<>> => pc'[Chunk(k)] = "none"
    BY <1>t, <1>2, <2>2, RunMoves DEF PipeInv
  <2> QED
    BY <1>t, <1>2, <2>1, <2>3, RunMoves DEF PipeInv, Chunk, fleet
<1>3. CASE Release
  <2> DEFINE k == Least(todo)
  <2>1. /\ pc' = pc /\ round' = round /\ parked' = parked
        /\ todo' = todo \ {k} /\ todo # {}
        /\ pipe' = pipe \/ pipe' = [pipe EXCEPT ![k] = Append(@, round)]
    BY <1>3 DEF Release
  <2>2. k \in todo
    <3>1. todo \subseteq Nat
      BY <1>t DEF Boundaries
    <3> QED
      BY <2>1, <3>1, LeastIs
  <2>3. round > 0
    BY <1>t, <1>3 DEF Release, RoundInv, TypeOK
  <2> HIDE DEF k
  <2>4. /\ pipe'[k] \in {<<>>, <<round>>}
        /\ \A j \in Boundaries : j # k => pipe'[j] = pipe[j]
    <3>1. pipe[k] = <<>> /\ Append(<<>>, round) = <<round>>
      BY <1>t, <2>2 DEF PipeInv
    <3> QED
      BY <1>t, <2>1, <2>2, <3>1 DEF TypeOK
  <2> QED
    BY <1>t, <2>1, <2>2, <2>3, <2>4 DEF PipeInv, Chunk
<1>4. ASSUME NEW k \in Boundaries, Rouse(k) PROVE PipeInv'
  <2>1. \A j \in Boundaries : j # k /\ round \in Turns =>
           Chunk(j) \in Procs /\ Chunk(j) # Chunk(k)
    BY ProcIs DEF Chunk, Chunks
  <2>2. pc'[Run(round)] = pc[Run(round)]
    BY <1>4, <1>t, RouseMoves, ProcIs DEF TypeOK
  <2>3. \A j \in Boundaries : j # k => pc'[Chunk(j)] = pc[Chunk(j)]
    BY <1>4, <2>1, RouseMoves
  <2>4. /\ k \notin todo /\ pipe'[k] = <<>>
        /\ \A j \in Boundaries : j # k => pipe'[j] = pipe[j]
        /\ round' = round /\ parked' = parked /\ todo' = todo
    BY <1>4, RouseMoves
  <2> QED
    BY <1>t, <2>2, <2>3, <2>4 DEF PipeInv, Chunk
<1>5. ASSUME NEW k \in Boundaries, ReportIn(k) \/ Listen(k) PROVE PipeInv'
  BY <1>t, <1>5 DEF ReportIn, Listen, PipeInv, Chunk
<1>6. ASSUME NEW c \in Procs, round \in Turns,
             \A q \in Procs : q # c => pc'[q] = pc[q],
             pc[c] # "none", UNCHANGED <<round, fleet, todo>>,
             c = Run(round) => pc[c] # "release"
      PROVE  PipeInv'
  <2>1. Run(round) \in Procs /\ \A k \in Boundaries : Chunk(k) \in Procs
    BY <1>t, <1>6, ProcIs DEF TypeOK, Chunk, Chunks
  <2>2. todo # {} => pc'[Run(round)] = "release"
    BY <1>t, <1>6, <2>1 DEF PipeInv
  <2>3. \A k \in Boundaries : pc[Chunk(k)] = "none" => pc'[Chunk(k)] = "none"
    BY <1>6, <2>1
  <2> QED
    BY <1>t, <1>6, <2>2, <2>3 DEF PipeInv, Chunk, fleet
<1>7. ASSUME NEW c \in Chunks, ChunkStep(c) \/ PatchFails(c) PROVE PipeInv'
  BY <1>t, <1>6, <1>7, ChunkMoves
<1>8. ASSUME NEW p \in Procs, WriterStep(p) PROVE PipeInv'
  BY <1>t, <1>6, <1>8, WriterMoves
<1>9. CASE BeginRound
  <2>1. todo' = parked
    BY <1>9 DEF BeginRound
  <2> QED
    BY <1>t, <1>9, <2>1, BeginMoves DEF PipeInv, Chunk
<1>10. CASE UNCHANGED vars
  BY <1>t, <1>10 DEF PipeInv, Chunk, vars, fleet
<1> QED
  BY <1>1, <1>2, <1>3, <1>4, <1>5, <1>7, <1>8, <1>9, <1>10
     DEF Next, RunStep, SleeperStep

-----------------------------------------------------------------------------
(* Where each process is. *)

LEMMA NextPlaces ==
    ASSUME FleetInv, [Next]_vars, "linger" \notin Faults
    PROVE  PlaceInv'
<1>t. /\ TypeOK /\ RoundInv /\ PipeInv /\ PlaceInv /\ FilesInv
      /\ parked \subseteq Boundaries
  BY DEF FleetInv, TypeOK
<1>f. parked' = parked => \A k : NextStop(k)' = NextStop(k)
  BY DEF NextStop
<1>n. \A k \in parked \cup {0} : k \in 0 .. N
  BY <1>t, NAssumption DEF Boundaries
<1>1. CASE Park \/ OpenTheGates \/ AllReported
  <2>1. /\ \A c \in Chunks : pc'[c] = "none" /\ at'[c] = at[c] /\ pc[c] = "none"
        /\ \A t \in Turns : /\ pc'[Run(t)] = "none" /\ pc[Run(t)] = "none"
                            /\ at'[Run(t)] = at[Run(t)]
    BY <1>1, ParkingMoves
  <2> QED
    BY <1>t, <2>1 DEF PlaceInv
<1>2. ASSUME parked' = parked, at' = at,
             NEW p \in Procs, \A q \in Procs : q # p => pc'[q] = pc[q],
             \/ pc'[p] \in {"gone", "finalize"}
             \/ /\ pc[p] \in {"none", "release", "patching", "open", "create"}
                /\ pc'[p] \in {"release", "patching", "open", "create"}
             \/ pc[p] = "create" /\ pc'[p] = "create"
             \/ pc[p] = "await" /\ pc'[p] = "carry"
             \/ pc[p] = "marking" /\ pc'[p] = "waiting"
             \/ pc[p] \in {"open", "create"} /\ pc'[p] = Begun(p)
      PROVE  PlaceInv'
  <2>1. ASSUME NEW c \in Chunks
        PROVE  /\ pc'[c] \in {"none", "patching", "open", "create", "write"} =>
                     at[c] = c[1]
               /\ pc'[c] \in {"marking", "waiting"} => at[c] = NextStop(c[1])
               /\ pc'[c] \in {"await", "carry"} => at[c] \in parked /\ at[c] > c[1]
    <3>1. c \in Procs /\ c[1] # 0 /\ pc[c] \in ChunkPC
      BY ProcIs, <1>t DEF RoundInv
    <3>2. CASE c # p
      BY <1>t, <1>2, <3>1, <3>2 DEF PlaceInv
    <3>3. CASE c = p
      BY <1>t, <1>2, <3>1, <3>3 DEF PlaceInv, Begun, ChunkPC
    <3> QED
      BY <3>2, <3>3
  <2>2. ASSUME NEW t \in Turns
        PROVE  /\ pc'[Run(t)] \in {"none", "release", "open", "create"} =>
                    at[Run(t)] = 0
               /\ pc'[Run(t)] = "carry" => at[Run(t)] \in parked \cup {0}
               /\ pc'[Run(t)] = "await" => at[Run(t)] \in parked
    <3>1. Run(t) \in Procs /\ Run(t)[1] = 0 /\ pc[Run(t)] \in RunPC
      BY ProcIs, <1>t DEF RoundInv, Turns
    <3>2. CASE Run(t) # p
      BY <1>t, <1>2, <3>1, <3>2 DEF PlaceInv
    <3>3. CASE Run(t) = p
      BY <1>t, <1>2, <3>1, <3>3 DEF PlaceInv, Begun, RunPC
    <3> QED
      BY <3>2, <3>3
  <2> QED
    BY <1>2, <1>f, <2>1, <2>2 DEF PlaceInv
<1>3. CASE AllReleased \/ Finalize \/ Abandon
  <2>1. pc'[Run(round)] = "open" => pc[Run(round)] = "release"
    <3>1. Run(round) \in Procs
      BY <1>t, <1>3, RunMoves
    <3>2. AllReleased \/ Moves(Run(round), "gone")
      BY <1>3 DEF Finalize, Abandon
    <3> QED
      BY <1>t, <3>1, <3>2 DEF AllReleased, Moves, TypeOK
  <2> QED
    BY <1>t, <1>2, <1>3, <2>1, RunMoves DEF fleet
<1>4. ASSUME NEW k \in Boundaries, Rouse(k) PROVE PlaceInv'
  BY <1>2, <1>4, RouseMoves
<1>5. CASE BeginRound
  <2>1. pc[Run(round')] = "none"
    <3>1. Run(round') \in Procs /\ Run(round')[2] > round
      <4>1. /\ Run(round') \in Procs /\ round' \in Turns
            /\ round' = round + 1 /\ round \in Nat
        BY <1>t, <1>5, BeginMoves DEF TypeOK
      <4>2. Run(round')[2] = round'
        BY <4>1, ProcIs DEF Turns
      <4> QED
        BY <4>1, <4>2
    <3> QED
      BY <1>t, <3>1 DEF RoundInv
  <2> QED
    BY <1>2, <1>5, <1>t, <2>1, BeginMoves
<1>6. CASE UNCHANGED <<pc, at, parked>>
  BY <1>t, <1>6, <1>f DEF PlaceInv
<1>7. ASSUME NEW c \in Chunks, ChunkStep(c) \/ PatchFails(c) PROVE PlaceInv'
  <2>1. parked' = parked /\ c \in Procs /\ c[1] \in 0 .. N
        /\ \A q \in Procs : q # c => pc'[q] = pc[q] /\ at'[q] = at[q]
    BY <1>t, <1>7, ChunkMoves, ProcIs DEF fleet
  <2>2. CASE PatchFails(c) \/ Enter(c) \/ WriteMarker(c) \/ PassOn(c) \/ Retire(c)
    BY <1>2, <1>t, <2>1, <2>2
       DEF PatchFails, Enter, WriteMarker, PassOn, Retire, Moves, TypeOK
  <2>3. ASSUME at'[c] = NextStop(c[1]) \/ pc'[c] \in {"gone", "await", "carry"},
               \/ at'[c] \in parked /\ at'[c] > c[1]
               \/ pc'[c] \in {"marking", "gone"},
               pc'[c] \in {"marking", "await", "carry", "gone"}
        PROVE  PlaceInv'
    <3>1. ASSUME NEW d \in Chunks
          PROVE  /\ pc'[d] \in {"none", "patching", "open", "create", "write"} =>
                       at'[d] = d[1]
                 /\ pc'[d] \in {"marking", "waiting"} => at'[d] = NextStop(d[1])
                 /\ pc'[d] \in {"await", "carry"} =>
                       at'[d] \in parked /\ at'[d] > d[1]
      <4>1. CASE d = c
        BY <2>3, <4>1
      <4>2. CASE d # c
        BY <1>t, <2>1, <4>2, ProcIs DEF PlaceInv
      <4> QED
        BY <4>1, <4>2
    <3>2. \A t \in Turns : /\ pc'[Run(t)] = pc[Run(t)]
                           /\ at'[Run(t)] = at[Run(t)]
      BY <2>1, ProcIs DEF Turns
    <3> QED
      BY <1>t, <1>f, <2>1, <3>1, <3>2 DEF PlaceInv
  <2>4. CASE ReachStop(c)
    <3>1. at'[c] = NextStop(c[1]) /\ pc'[c] = "marking"
      BY <1>t, <2>1, <2>4 DEF ReachStop, Moves, TypeOK
    <3> QED
      BY <2>3, <3>1
  <2>5. CASE Disown(c) \/ TakeBaton(c)
    <3>1. pc[c] = "waiting" /\ at'[c] = at[c] /\ pc'[c] \in {"await", "carry", "gone"}
          /\ (pc'[c] # "gone" => at[c] # End)
      BY <1>t, <2>1, <2>5, NAssumption
         DEF Disown, TakeBaton, Moves, TypeOK, Exists, End, Boundaries
    <3>2. at[c] = NextStop(c[1])
      BY <1>t, <3>1 DEF PlaceInv
    <3>3. NextStop(c[1]) \in parked \cup {End} /\ NextStop(c[1]) > c[1]
      BY <1>t, <2>1, NextStopIs
    <3> QED
      BY <2>3, <3>1, <3>2, <3>3
  <2> QED
    BY <1>7, <2>2, <2>4, <2>5 DEF ChunkStep
<1>8. ASSUME NEW p \in Procs, WriterStep(p) PROVE PlaceInv'
  <2>1. parked' = parked
        /\ \A q \in Procs : q # p => pc'[q] = pc[q] /\ at'[q] = at[q]
    BY <1>t, <1>8, WriterMoves DEF fleet
  <2>2. CASE OpenThere(p) \/ FindNone(p) \/ Create(p) \/ Rewrite(p)
    BY <1>2, <1>t, <2>1, <2>2
       DEF OpenThere, FindNone, Create, Rewrite, Moves, TypeOK
  <2>3. CASE Confer(p) \/ Overrule(p) \/ RunOut(p)
    <3>1. pc'[p] \in {"gone", "finalize"}
             \/ /\ pc'[p] = "await" /\ pc[p] = "carry"
                /\ at'[p] \in parked /\ at'[p] = NextStop(at[p])
      BY <1>t, <2>3 DEF Confer, Overrule, RunOut, Moves, TypeOK
    <3>2. ASSUME pc[p] = "carry"
          PROVE  NextStop(at[p]) > at[p] /\ at[p] \in 0 .. N
                 /\ (p \in Chunks => at[p] > p[1])
      <4>1. at[p] \in parked \cup {0} /\ (p \in Chunks => at[p] > p[1])
        BY <1>t, <1>8, <3>2, WriterMoves DEF PlaceInv
      <4>2. at[p] \in 0 .. N
        BY <1>n, <4>1
      <4> QED
        BY <1>t, <4>1, <4>2, NextStopIs
    <3>3. ASSUME NEW d \in Chunks
          PROVE  /\ pc'[d] \in {"none", "patching", "open", "create", "write"} =>
                       at'[d] = d[1]
                 /\ pc'[d] \in {"marking", "waiting"} => at'[d] = NextStop(d[1])
                 /\ pc'[d] \in {"await", "carry"} =>
                       at'[d] \in parked /\ at'[d] > d[1]
      <4>1. d \in Procs /\ d[1] \in Int
        BY ProcIs DEF Boundaries
      <4>2. CASE d = p
        <5>1. pc'[d] = "await" => at'[d] \in Int /\ at[d] \in Int
          BY <1>t, <3>1, <3>2, <4>2 DEF Boundaries
        <5> QED
          BY <3>1, <3>2, <4>1, <4>2, <5>1
      <4>3. CASE d # p
        BY <1>t, <2>1, <4>1, <4>3 DEF PlaceInv
      <4> QED
        BY <4>2, <4>3
    <3>4. ASSUME NEW t \in Turns
          PROVE  /\ pc'[Run(t)] \in {"none", "release", "open", "create"} =>
                      at'[Run(t)] = 0
                 /\ pc'[Run(t)] = "carry" => at'[Run(t)] \in parked \cup {0}
                 /\ pc'[Run(t)] = "await" => at'[Run(t)] \in parked
      <4>1. Run(t) \in Procs
        BY ProcIs DEF Turns
      <4> QED
        BY <1>t, <2>1, <3>1, <4>1 DEF PlaceInv
    <3> QED
      BY <1>f, <2>1, <3>3, <3>4 DEF PlaceInv
  <2> QED
    BY <1>8, <2>2, <2>3 DEF WriterStep
<1>9. Release \/ (\E k \in Boundaries : ReportIn(k) \/ Listen(k))
        \/ UNCHANGED vars => UNCHANGED <<pc, at, parked>>
  BY DEF Release, ReportIn, Listen, vars, fleet
<1> QED
  BY <1>1, <1>3, <1>4, <1>5, <1>6, <1>7, <1>8, <1>9
     DEF Next, RunStep, SleeperStep

-----------------------------------------------------------------------------
(* What the files say. *)

LEMMA NextFiles ==
    ASSUME FleetInv, [Next]_vars, "linger" \notin Faults
    PROVE  FilesInv'
<1>t. /\ TypeOK /\ RoundInv /\ PipeInv /\ PlaceInv /\ FilesInv
      /\ parked \subseteq Boundaries
  BY DEF FleetInv, TypeOK
<1>a. \A k \in Boundaries : k \in parked =>
         {entry[k], marker[k], valid[k], stale[k], endDone} \subseteq {Absent, round}
  BY <1>t DEF FilesInv, ThisRoundsFiles
<1>b. \A k \in Boundaries : round \in Turns => Chunk(k) \in Chunks
  BY DEF Chunk, Chunks
\* The files of a page are this round's when those written are.
<1>c. ASSUME UNCHANGED <<round, parked>>, endDone' \in {endDone, round},
             \A k \in parked : /\ entry'[k] \in {entry[k], round}
                               /\ marker'[k] \in {marker[k], round}
                               /\ valid'[k] \in {valid[k], round}
                               /\ stale'[k] \in {stale[k], round},
             \A k \in Boundaries \ parked :
                /\ entry'[k] = entry[k] /\ marker'[k] = marker[k]
                /\ valid'[k] = valid[k] /\ stale'[k] = stale[k]
      PROVE  /\ ThisRoundsFiles' /\ endDone' \in {Absent, round'}
             /\ \A k \in Boundaries \ parked' :
                   {entry'[k], marker'[k], valid'[k], stale'[k]} = {Absent}
  <2>1. ThisRoundsFiles'
    BY <1>a, <1>c, <1>t DEF ThisRoundsFiles
  <2>2. endDone' \in {Absent, round'}
    BY <1>c, <1>t DEF FilesInv
  <2>3. \A k \in Boundaries \ parked' :
           {entry'[k], marker'[k], valid'[k], stale'[k]} = {Absent}
    BY <1>c, <1>t DEF FilesInv
  <2> QED
    BY <2>1, <2>2, <2>3
\* A process moves; an entry and a marker are its own page's, and who is told
\* it is valid has begun.
<1>d. ASSUME NEW p \in Procs, round \in Turns, UNCHANGED <<round, parked>>,
             \A q \in Procs : q # p => pc'[q] = pc[q] /\ at'[q] = at[q],
             \A d \in Chunks : d # p => matched'[d] = matched[d],
             pc'[p] \notin {"none", "patching"} \/ pc[p] = "none",
             handedOff => handedOff', endDone' \in {endDone, round},
             \A k \in parked : /\ entry'[k] \in {entry[k], round}
                               /\ marker'[k] \in {marker[k], round}
                               /\ valid'[k] \in {valid[k], round}
                               /\ stale'[k] \in {stale[k], round},
             \A k \in Boundaries \ parked :
                /\ entry'[k] = entry[k] /\ marker'[k] = marker[k]
                /\ valid'[k] = valid[k] /\ stale'[k] = stale[k],
             \A k \in parked : p # Chunk(k) =>
                entry'[k] = entry[k] /\ marker'[k] = marker[k],
             \A k \in parked : p = Chunk(k) /\ entry'[k] # entry[k] =>
                pc'[p] \notin {"none", "patching"},
             \A k \in parked : p = Chunk(k) /\ marker'[k] # Absent =>
                pc'[p] \in {"waiting", "await", "carry", "gone"},
             \A k \in parked : valid'[k] # valid[k] =>
                Exists(entry, k) /\ handedOff',
             p \in Chunks /\ pc'[p] \in {"marking", "waiting"} /\ matched'[p] =>
                at'[p] \in parked /\ Exists(entry, at'[p]),
             p \in Chunks /\ pc'[p] \in {"await", "carry"} => Exists(valid, p[1])
      PROVE  FilesInv'
  <2>1. ThisRoundsFiles' /\ endDone' \in {Absent, round'}
        /\ \A k \in Boundaries \ parked' :
              {entry'[k], marker'[k], valid'[k], stale'[k]} = {Absent}
    BY <1>c, <1>d
  <2>0. round # Absent
    BY <1>d DEF Absent, Turns
  <2>2. ASSUME NEW k \in parked
        PROVE  /\ Exists(entry, k)' => pc'[Chunk(k)] \notin {"none", "patching"}
               /\ Exists(valid, k)' => Exists(entry, k)' /\ handedOff'
               /\ Exists(marker, k)' =>
                    pc'[Chunk(k)] \in {"waiting", "await", "carry", "gone"}
    <3>1. Chunk(k) \in Procs
      BY <1>b, <1>d, <1>t, ProcIs
    <3>2. Exists(valid, k)' => Exists(entry, k)' /\ handedOff'
      <4>1. Exists(entry, k) => Exists(entry, k)'
        BY <1>d, <2>0 DEF Exists
      <4>2. Exists(valid, k)' => Exists(valid, k) \/ valid'[k] # valid[k]
        BY <1>d DEF Exists
      <4> QED
        BY <1>d, <1>t, <4>1, <4>2 DEF FilesInv
    <3>3. CASE Chunk(k) # p
      <4>1. /\ pc'[Chunk(k)] = pc[Chunk(k)]
            /\ Exists(entry, k)' = Exists(entry, k)
            /\ Exists(marker, k)' = Exists(marker, k)
        BY <1>d, <3>1, <3>3 DEF Exists
      <4> QED
        BY <1>t, <3>2, <4>1 DEF FilesInv
    <3>4. CASE Chunk(k) = p
      <4>1. Exists(marker, k)' => pc'[p] \in {"waiting", "await", "carry", "gone"}
        BY <1>d, <3>4 DEF Exists
      <4>2. Exists(entry, k)' => Exists(entry, k) \/ entry'[k] # entry[k]
        BY <1>d DEF Exists
      <4>3. Exists(entry, k) => pc'[p] \notin {"none", "patching"}
        BY <1>d, <1>t, <3>4 DEF FilesInv
      <4> QED
        BY <1>d, <3>2, <3>4, <4>1, <4>2, <4>3
    <3> QED
      BY <3>3, <3>4
  <2>3. ASSUME NEW c \in Chunks, c[2] = round
        PROVE  /\ pc'[c] \in {"marking", "waiting"} /\ matched'[c] =>
                     Exists(entry, at[c])'
               /\ pc'[c] \in {"await", "carry"} => Exists(valid, c[1])'
    <3>1. c \in Procs
      BY ProcIs
    <3>2. \A k \in parked : /\ Exists(entry, k) => Exists(entry, k)'
                            /\ Exists(valid, k) => Exists(valid, k)'
      BY <1>d, <2>0 DEF Exists
    <3>3. CASE c # p
      <4>1. /\ pc'[c] \in {"marking", "waiting"} /\ matched'[c] =>
                  Exists(entry, at'[c])
            /\ pc'[c] \in {"await", "carry"} => Exists(valid, c[1])
        BY <1>d, <1>t, <2>3, <3>1, <3>3 DEF FilesInv
      <4> QED
        BY <3>2, <4>1 DEF Exists
    <3>4. CASE c = p
      BY <1>d, <3>2, <3>4 DEF Exists
    <3> QED
      BY <3>3, <3>4
  <2>4. UNCHANGED <<round, parked>>
    BY <1>d
  <2> QED
    BY <2>1, <2>2, <2>3, <2>4 DEF FilesInv, Chunk
\* A process moves and no file is written.
<1>e. ASSUME UNCHANGED <<round, parked, at, matched, files, handedOff>>,
             round \in Turns,
             NEW p \in Procs, \A q \in Procs : q # p => pc'[q] = pc[q],
             pc[p] = "none" \/ pc'[p] \notin {"none", "patching"},
             pc[p] \in {"waiting", "await", "carry", "gone"} =>
                pc'[p] \in {"waiting", "await", "carry", "gone"},
             pc'[p] \notin {"marking", "waiting"},
             p \in Chunks => p[2] = round,
             p \in Chunks /\ pc'[p] \in {"await", "carry"} => pc[p] = "await"
      PROVE  FilesInv'
  <2>1. UNCHANGED <<round, parked, at, matched, entry, marker, valid, stale,
                    endDone, handedOff>>
    BY <1>e DEF files
  <2>2. \A k \in parked : p = Chunk(k) /\ marker'[k] # Absent =>
           pc'[p] \in {"waiting", "await", "carry", "gone"}
    BY <1>e, <1>t, <2>1 DEF FilesInv, Exists
  <2>3. p \in Chunks /\ pc'[p] \in {"await", "carry"} => Exists(valid, p[1])
    BY <1>e, <1>t DEF FilesInv
  <2> QED
    BY <1>d, <1>e, <2>1, <2>2, <2>3
<1>1. CASE Park \/ OpenTheGates \/ AllReported
  <2>1. round = 0 /\ UNCHANGED <<round, files, handedOff>>
        /\ \A c \in Chunks : c[2] # round'
    BY <1>1, ParkingMoves, ProcIs
  <2>2. \A k \in Boundaries : /\ entry[k] = 0 /\ marker[k] = 0
                              /\ valid[k] = 0 /\ stale[k] = 0
    BY <1>a, <1>t, <2>1 DEF FilesInv, Absent
  <2>3. parked' \subseteq Boundaries
    BY NextType DEF TypeOK
  <2> QED
    BY <1>t, <2>1, <2>2, <2>3
       DEF FilesInv, ThisRoundsFiles, Exists, files, Absent
<1>2. CASE AllReleased \/ Finalize \/ Abandon
  <2>1. pc[Run(round)] \in {"waiting", "await", "carry", "gone"} =>
           pc'[Run(round)] = "gone"
    <3>1. AllReleased \/ Moves(Run(round), "gone")
      BY <1>2 DEF Finalize, Abandon
    <3>2. AllReleased => pc[Run(round)] = "release"
      BY DEF AllReleased
    <3>3. Run(round) \in Procs
      BY <1>t, <1>2, RunMoves
    <3> QED
      BY <1>t, <3>1, <3>2, <3>3 DEF Moves, TypeOK
  <2>2. Run(round) \notin Chunks
    BY <1>t, ProcIs DEF TypeOK
  <2> QED
    BY <1>e, <1>t, <1>2, <2>1, <2>2, RunMoves DEF fleet, RunPC
<1>3. ASSUME NEW k \in Boundaries, Rouse(k) PROVE FilesInv'
  <2>1. Chunk(k)[2] = round
    BY DEF Chunk
  <2> QED
    BY <1>e, <1>3, <2>1, RouseMoves
<1>4. CASE BeginRound
  <2>1. /\ parked' = parked
        /\ \A k \in parked : entry'[k] = Absent /\ marker'[k] = Absent
                             /\ valid'[k] = Absent /\ stale'[k] = Absent
        /\ \A k \in Boundaries \ parked :
              /\ entry'[k] = entry[k] /\ marker'[k] = marker[k]
              /\ valid'[k] = valid[k] /\ stale'[k] = stale[k]
        /\ endDone' = Absent
    BY <1>4, <1>t DEF BeginRound, Unlinked, fleet
  <2>2. \A c \in Chunks : c[2] = round' => pc'[c] = "none"
    <3>1. \A c \in Chunks : c = <<c[1], c[2]>> /\ c[1] \in Boundaries
      BY DEF Chunks
    <3> QED
      BY <1>4, <1>t, <3>1, BeginMoves
  <2> QED
    BY <1>t, <2>1, <2>2 DEF FilesInv, ThisRoundsFiles, Exists
<1>5. CASE UNCHANGED <<round, parked, pc, at, matched, files, handedOff>>
  BY <1>t, <1>5 DEF FilesInv, ThisRoundsFiles, Exists, files, Chunk
<1>6. Release \/ (\E k \in Boundaries : ReportIn(k) \/ Listen(k))
        \/ UNCHANGED vars =>
           UNCHANGED <<round, parked, pc, at, matched, files, handedOff>>
  BY DEF Release, ReportIn, Listen, vars, fleet
<1>7. ASSUME NEW c \in Chunks, ChunkStep(c) \/ PatchFails(c) PROVE FilesInv'
  <2>1. /\ c \in Procs /\ c[1] # 0 /\ c = Chunk(c[1]) /\ c[1] \in parked
        /\ c[1] \in Boundaries /\ c[2] = round /\ round \in Turns
        /\ pc'[c] \notin {"none", "patching"}
        /\ \A q \in Procs : q # c => pc'[q] = pc[q] /\ at'[q] = at[q]
        /\ \A d \in Chunks : d # c => matched'[d] = matched[d]
        /\ UNCHANGED <<round, parked, handedOff>>
    BY <1>t, <1>7, ChunkMoves DEF fleet
  <2>2. \A k \in parked : c = Chunk(k) <=> k = c[1]
    BY <2>1 DEF Chunk
  <2>3. CASE PatchFails(c) \/ Retire(c)
    <3>1. pc'[c] = "gone" /\ UNCHANGED <<at, matched, files>>
      BY <1>t, <2>1, <2>3 DEF PatchFails, Retire, Moves, TypeOK
    <3> QED
      BY <1>e, <2>1, <3>1
  <2>4. CASE Enter(c)
    <3>1. /\ pc[c] = "patching" /\ pc'[c] = "open"
          /\ entry' = [entry EXCEPT ![c[1]] = c[2]]
          /\ UNCHANGED <<at, matched, marker, valid, stale, endDone, handedOff>>
      BY <1>t, <2>1, <2>4 DEF Enter, Moves, TypeOK
    <3>2. marker[c[1]] = Absent
      BY <1>t, <2>1, <3>1 DEF FilesInv, Exists
    <3>3. \A k \in Boundaries : entry'[k] = IF k = c[1] THEN round ELSE entry[k]
      BY <1>t, <2>1, <3>1 DEF TypeOK
    <3> QED
      BY <1>d, <1>t, <2>1, <2>2, <3>1, <3>2, <3>3
  <2>5. CASE ReachStop(c)
    <3>1. /\ pc[c] = "write" /\ pc'[c] = "marking"
          /\ at'[c] = NextStop(c[1])
          /\ matched'[c] => Exists(entry, NextStop(c[1]))
          /\ UNCHANGED <<entry, marker, valid, stale, endDone, handedOff>>
      BY <1>t, <2>1, <2>5 DEF ReachStop, Moves, TypeOK, files
    <3>2. marker[c[1]] = Absent
      BY <1>t, <2>1, <3>1 DEF FilesInv, Exists
    <3> QED
      BY <1>d, <2>1, <2>2, <3>1, <3>2 DEF Exists
  <2>6. CASE WriteMarker(c)
    <3>1. /\ pc[c] = "marking" /\ pc'[c] = "waiting"
          /\ marker' = [marker EXCEPT ![c[1]] = c[2]]
          /\ UNCHANGED <<at, matched, entry, valid, stale, endDone, handedOff>>
      BY <1>t, <2>1, <2>6 DEF WriteMarker, Moves, TypeOK
    <3>2. matched[c] => at[c] \in parked /\ Exists(entry, at[c])
      BY <1>t, <2>1, <3>1 DEF FilesInv, Exists
    <3>3. \A k \in Boundaries : marker'[k] = IF k = c[1] THEN round ELSE marker[k]
      BY <1>t, <2>1, <3>1 DEF TypeOK
    <3> QED
      BY <1>d, <1>t, <2>1, <2>2, <3>1, <3>2, <3>3
  <2>7. CASE PassOn(c)
    <3>1. /\ pc[c] = "waiting" /\ pc'[c] = "gone" /\ Exists(valid, c[1])
          /\ matched[c] /\ valid' = [valid EXCEPT ![at[c]] = c[2]]
          /\ UNCHANGED <<at, matched, entry, marker, stale, endDone, handedOff>>
      BY <1>t, <2>1, <2>7 DEF PassOn, Moves, TypeOK
    <3>2. at[c] \in parked /\ Exists(entry, at[c]) /\ handedOff
      BY <1>t, <2>1, <3>1 DEF FilesInv, Exists
    <3>3. \A k \in Boundaries : valid'[k] = IF k = at[c] THEN round ELSE valid[k]
      BY <1>t, <2>1, <3>1, <3>2 DEF TypeOK
    <3> QED
      BY <1>d, <1>t, <2>1, <3>1, <3>2, <3>3
  <2>8. CASE Disown(c)
    <3>1. /\ pc[c] = "waiting" /\ pc'[c] = "await" /\ Exists(valid, c[1])
          /\ at[c] \in parked /\ stale' = [stale EXCEPT ![at[c]] = c[2]]
          /\ UNCHANGED <<at, matched, entry, marker, valid, endDone, handedOff>>
      BY <1>t, <2>1, <2>8 DEF Disown, Moves, TypeOK, Exists
    <3>2. \A k \in Boundaries : stale'[k] = IF k = at[c] THEN round ELSE stale[k]
      BY <1>t, <2>1, <3>1 DEF TypeOK
    <3> QED
      BY <1>d, <1>t, <2>1, <3>1, <3>2
  <2>9. CASE TakeBaton(c)
    <3>1. /\ pc[c] = "waiting" /\ pc'[c] \in {"carry", "gone"}
          /\ Exists(valid, c[1]) /\ endDone' \in {endDone, round}
          /\ UNCHANGED <<at, matched, entry, marker, valid, stale, handedOff>>
      BY <1>t, <2>1, <2>9 DEF TakeBaton, Moves, TypeOK
    <3> QED
      BY <1>d, <1>t, <2>1, <3>1
  <2> QED
    BY <1>7, <2>3, <2>4, <2>5, <2>6, <2>7, <2>8, <2>9 DEF ChunkStep
<1>8. ASSUME NEW p \in Procs, WriterStep(p) PROVE FilesInv'
  <2>1. /\ p[2] = round /\ round \in Turns
        /\ pc'[p] \notin {"none", "patching", "release", "marking", "waiting"}
        /\ \A q \in Procs : q # p => pc'[q] = pc[q] /\ at'[q] = at[q]
        /\ UNCHANGED <<round, parked, matched, entry, marker>>
    BY <1>t, <1>8, WriterMoves DEF fleet
  <2>2. CASE OpenThere(p) \/ FindNone(p) \/ Create(p) \/ Rewrite(p)
    <3>1. /\ pc[p] \in {"open", "create", "await"}
          /\ pc[p] = "await" => pc'[p] = "carry"
          /\ p[1] # 0 /\ pc'[p] \in {"await", "carry"} => pc[p] = "await"
      BY <1>t, <2>2
         DEF OpenThere, FindNone, Create, Rewrite, Moves, TypeOK, Begun
    <3>2. UNCHANGED <<at, matched, files, handedOff>>
      BY <2>2 DEF OpenThere, FindNone, Create, Rewrite
    <3> QED
      BY <1>e, <2>1, <3>1, <3>2, ProcIs
  <2>3. ASSUME Confer(p) \/ Overrule(p) \/ RunOut(p)
        PROVE  /\ pc[p] = "carry" /\ pc'[p] \in {"await", "gone", "finalize"}
               /\ p \in Chunks => /\ pc'[p] # "finalize" /\ p[1] \in parked
                                  /\ Exists(valid, p[1]) /\ handedOff
               /\ handedOff => handedOff'
               /\ \A k \in parked : p = Chunk(k) => p \in Chunks
    <3>1. /\ pc[p] = "carry" /\ pc'[p] \in {"await", "gone", "finalize"}
          /\ p[1] # 0 => pc'[p] # "finalize"
          /\ handedOff => handedOff'
      BY <1>t, <2>3 DEF Confer, Overrule, RunOut, Moves, TypeOK
    <3>2. p \in Chunks => /\ p[1] \in parked /\ p[1] # 0
                          /\ Exists(valid, p[1]) /\ handedOff
      BY <1>t, <2>1, <3>1, ProcIs DEF FilesInv, Exists
    <3>3. \A k \in parked : p = Chunk(k) => p \in Chunks
      BY <1>t, <1>b, <2>1
    <3> QED
      BY <3>1, <3>2, <3>3
  <2>4. CASE Confer(p)
    <3> DEFINE q == NextStop(at[p])
    <3>1. /\ Exists(entry, q) /\ q \in parked
          /\ valid' = [valid EXCEPT ![q] = round]
          /\ p[1] = 0 => handedOff'
          /\ UNCHANGED <<stale, endDone>>
      BY <2>1, <2>4 DEF Confer, Exists
    <3>2. handedOff'
      BY <1>t, <1>8, <2>3, <2>4, <3>1, WriterMoves
    <3> HIDE DEF q
    <3>3. \A k \in Boundaries : valid'[k] = IF k = q THEN round ELSE valid[k]
      BY <1>t, <3>1 DEF TypeOK
    <3> QED
      BY <1>d, <1>t, <2>1, <2>3, <2>4, <3>1, <3>2, <3>3
  <2>5. CASE Overrule(p)
    <3> DEFINE q == NextStop(at[p])
    <3>1. /\ q \in parked /\ stale' = [stale EXCEPT ![q] = round]
          /\ UNCHANGED <<valid, endDone, handedOff>>
      BY <2>1, <2>5 DEF Overrule
    <3> HIDE DEF q
    <3>3. \A k \in Boundaries : stale'[k] = IF k = q THEN round ELSE stale[k]
      BY <1>t, <3>1 DEF TypeOK
    <3> QED
      BY <1>d, <1>t, <2>1, <2>3, <2>5, <3>1, <3>3
  <2>6. CASE RunOut(p)
    <3>1. endDone' \in {endDone, round} /\ UNCHANGED <<valid, stale, handedOff>>
      BY <2>1, <2>6 DEF RunOut
    <3> QED
      BY <1>d, <1>t, <2>1, <2>3, <2>6, <3>1
  <2> QED
    BY <1>8, <2>2, <2>4, <2>5, <2>6 DEF WriterStep
<1> QED
  BY <1>1, <1>2, <1>3, <1>4, <1>5, <1>6, <1>7, <1>8
     DEF Next, RunStep, SleeperStep

-----------------------------------------------------------------------------
(* Who has the baton. *)

\* Who carries has the baton, and is not where a chunk was told it is valid.
LEMMA CarrierHolds ==
    ASSUME FleetInv, NEW p \in Procs, round \in Turns, p[2] = round,
           pc[p] \in {"await", "carry"}
    PROVE  Holds(p)
<1>1. CASE p[1] = 0
  BY <1>1 DEF Holds, Turns
<1>2. CASE p[1] # 0
  <2>1. p \in Chunks
    BY <1>2, ProcIs DEF Chunks, Boundaries
  <2>2. Exists(valid, p[1])
    BY <2>1 DEF FleetInv, FilesInv
  <2> QED
    BY <1>2, <2>2 DEF Holds, Turns, Exists
<1> QED
  BY <1>1, <1>2

\* Every step leaves one holder at most, and no verdict beyond it.
LEMMA NextBaton ==
    ASSUME FleetInv, [Next]_vars, "linger" \notin Faults
    PROVE  BatonInv'
<1>t. /\ TypeOK /\ RoundInv /\ PipeInv /\ PlaceInv /\ FilesInv /\ BatonInv
      /\ parked \subseteq Boundaries /\ 0 \notin parked
  BY DEF FleetInv, TypeOK, Boundaries
<1>b. \A k \in Boundaries : round \in Turns =>
         Chunk(k) \in Chunks /\ Chunk(k) \in Procs
  BY ProcIs DEF Chunk, Chunks
\* Nobody who did not hold it holds it, and nobody is told anything.
<1>d. ASSUME UNCHANGED <<round, parked, valid, stale, endDone>>,
             \A q \in Procs : Holds(q)' =>
                /\ Holds(q) /\ Front(q)' = Front(q)
                /\ pc'[q] \in {"await", "carry"} => ~Exists(valid, at'[q])
      PROVE  BatonInv'
  BY <1>d, <1>t DEF BatonInv, Verdict, Exists
\* A process moves on, its place and what it holds unchanged.
<1>e. ASSUME UNCHANGED <<round, parked, valid, stale, endDone>>, NEW p \in Procs,
             \A q \in Procs : q # p => pc'[q] = pc[q] /\ at'[q] = at[q],
             \/ pc'[p] = "gone"
             \/ /\ p[1] # 0 /\ pc'[p] \notin {"await", "carry"}
                /\ pc[p] \notin {"await", "carry", "gone"}
             \/ /\ p[1] = 0 /\ at'[p] = at[p]
                /\ pc[p] \in {"release", "open", "create", "await"}
                /\ (pc'[p] \in {"await", "carry"} => ~Exists(valid, at[p]))
             \/ pc[p] = "await" /\ pc'[p] = "carry" /\ at'[p] = at[p]
      PROVE  BatonInv'
  <2>1. ASSUME NEW q \in Procs, Holds(q)'
        PROVE  /\ Holds(q) /\ Front(q)' = Front(q)
               /\ pc'[q] \in {"await", "carry"} => ~Exists(valid, at'[q])
    <3>1. CASE q # p
      <4>1. pc'[q] = pc[q] /\ at'[q] = at[q]
        BY <1>e, <3>1
      <4>2. Holds(q) /\ Front(q)' = Front(q)
        BY <1>e, <2>1, <4>1 DEF Holds, Front, Exists
      <4> QED
        BY <1>t, <4>1, <4>2 DEF BatonInv
    <3>2. CASE q = p
      <4>1. Holds(p) /\ Front(p)' = Front(p)
        BY <1>e, <1>t, <2>1, <3>2 DEF Holds, Front, Exists
      <4> QED
        BY <1>e, <1>t, <2>1, <3>2, <4>1 DEF BatonInv, Holds
    <3> QED
      BY <3>1, <3>2
  <2> QED
    BY <1>d, <1>e, <2>1
\* The baton changes hands: only the new holder has it, ahead of the old.
<1>f. ASSUME UNCHANGED <<round, parked, endDone>>, NEW p \in Procs, Holds(p),
             NEW h \in Procs, NEW f \in Nat, Front(p) \in Nat, Front(p) <= f,
             \A q \in Procs : Holds(q)' => q = h,
             Front(h)' = f,
             pc'[h] \in {"await", "carry"} => ~Exists(valid, at[h])',
             \A k \in parked : Verdict(k)' => Verdict(k) \/ k = f
      PROVE  BatonInv'
  <2>1. \A k \in parked : Verdict(k) => k <= Front(p)
    BY <1>f, <1>t DEF BatonInv
  <2>2. \A k \in parked : k \in Nat
    BY <1>t DEF Boundaries
  <2>3. \A k \in parked : Verdict(k)' => k <= f
    BY <1>f, <2>1, <2>2
  <2>4. endDone' = Absent
    BY <1>f, <1>t DEF BatonInv
  <2>5. \A q \in Procs : Holds(q)' => /\ q = h
                                      /\ \A k \in parked' : Verdict(k)' => k <= Front(q)'
    BY <1>f, <2>3
  <2> QED
    BY <1>f, <2>4, <2>5 DEF BatonInv
<1>1. CASE Park \/ OpenTheGates \/ AllReported
  <2>1. round' = 0
    BY <1>1, ParkingMoves
  <2>2. \A q \in Procs : ~Holds(q)'
    BY <2>1 DEF Holds
  <2> QED
    BY <2>2 DEF BatonInv
<1>2. CASE AllReleased \/ Finalize \/ Abandon
  <2>1. pc'[Run(round)] = "gone" \/ pc[Run(round)] = "release"
    <3>1. AllReleased \/ Moves(Run(round), "gone")
      BY <1>2 DEF Finalize, Abandon
    <3>2. AllReleased => pc[Run(round)] = "release"
      BY DEF AllReleased
    <3>3. Run(round) \in Procs
      BY <1>t, <1>2, RunMoves
    <3> QED
      BY <1>t, <3>1, <3>2, <3>3 DEF Moves, TypeOK
  <2>2. Run(round)[1] = 0
    BY <1>t, ProcIs DEF TypeOK
  <2> QED
    BY <1>e, <1>t, <1>2, <2>1, <2>2, RunMoves DEF fleet, files
<1>3. ASSUME NEW k \in Boundaries, Rouse(k) PROVE BatonInv'
  <2>1. Chunk(k)[1] # 0
    BY DEF Chunk, Boundaries
  <2> QED
    BY <1>e, <1>3, <2>1, RouseMoves DEF files
<1>4. CASE BeginRound
  <2>1. /\ parked' = parked /\ endDone' = Absent
        /\ \A k \in parked : valid'[k] = Absent /\ stale'[k] = Absent
    BY <1>4, <1>t DEF BeginRound, Unlinked, fleet
  <2>2. \A k \in parked : ~Verdict(k)'
    BY <2>1 DEF Verdict, Exists
  <2>3. ASSUME NEW q \in Procs, Holds(q)' PROVE q = Run(round')
    <3>1. q[2] = round' /\ q[1] = 0
      BY <2>1, <2>2, <2>3 DEF Holds, Verdict
    <3> QED
      BY <3>1, ProcIs DEF Run
  <2>4. pc'[Run(round')] = "release"
    BY <1>4, <1>t, BeginMoves
  <2> QED
    BY <2>1, <2>2, <2>3, <2>4 DEF BatonInv
<1>5. CASE UNCHANGED <<round, parked, pc, at, files>>
  BY <1>d, <1>t, <1>5 DEF files, Holds, Front, Exists, BatonInv
<1>6. Release \/ (\E k \in Boundaries : ReportIn(k) \/ Listen(k))
        \/ UNCHANGED vars => UNCHANGED <<round, parked, pc, at, files>>
  BY DEF Release, ReportIn, Listen, vars, fleet
\* The holder tells the chunk of the page it has come to that it is valid.
<1>g. ASSUME NEW p \in Procs, Holds(p), NEW q \in parked, round \in Turns,
             NEW h, h = Chunk(q), Front(p) \in Nat, Front(p) < q, p # h,
             UNCHANGED <<round, parked, endDone, stale>>,
             \A r \in Procs : r # p => pc'[r] = pc[r] /\ at'[r] = at[r],
             pc'[p] \in {"gone", "finalize"}, pc'[p] = "gone" \/ p[1] = 0,
             \A k \in Boundaries : valid'[k] = IF k = q THEN round ELSE valid[k]
      PROVE  BatonInv'
  <2>1. h \in Chunks /\ h \in Procs /\ h[1] = q /\ h[1] # 0 /\ q \in Nat
    BY <1>b, <1>g, <1>t DEF Chunk, Boundaries
  <2>2. ~Verdict(q)
    BY <1>g, <1>t, <2>1 DEF BatonInv
  <2>3. /\ pc'[h] = pc[h] /\ pc[h] \notin {"await", "carry"}
    <3>1. pc'[h] = pc[h]
      BY <1>g, <2>1
    <3>2. h[2] = round
      BY <1>g DEF Chunk
    <3> QED
      BY <1>t, <2>1, <2>2, <3>1, <3>2 DEF FilesInv, Verdict
  <2>4. ASSUME NEW r \in Procs, Holds(r)' PROVE r = h
    <3>1. r # p /\ r[2] = round
      BY <1>g, <1>t, <2>4 DEF Holds
    <3>2. ~Holds(r)
      BY <1>g, <1>t, <3>1 DEF BatonInv
    <3>3. r[1] \in parked /\ Exists(valid, r[1])' /\ ~Exists(valid, r[1])
      BY <1>g, <2>4, <3>1, <3>2 DEF Holds
    <3>4. r[1] = q
      BY <1>g, <1>t, <3>3 DEF Exists
    <3> QED
      BY <1>g, <3>1, <3>4, ProcIs DEF Chunk
  <2>5. Front(h)' = q
    BY <2>1, <2>3 DEF Front
  <2>6. \A k \in parked : Verdict(k)' => Verdict(k) \/ k = q
    BY <1>g, <1>t DEF Verdict, Exists
  <2>7. h \in Procs /\ q \in Nat /\ Front(p) <= q
    BY <1>g, <2>1
  <2> QED
    BY <1>f, <1>g, <2>3, <2>4, <2>5, <2>6, <2>7
\* The holder goes on itself, from the page it has come to.
<1>h. ASSUME NEW p \in Procs, Holds(p), NEW f \in Nat, Front(p) \in Nat,
             Front(p) < f, UNCHANGED <<round, parked, endDone, valid>>,
             \A r \in Procs : r # p => pc'[r] = pc[r] /\ at'[r] = at[r],
             pc'[p] \in {"await", "carry"}, at'[p] = f,
             \A k \in parked : stale'[k] = stale[k] \/ k = f
      PROVE  BatonInv'
  <2>1. ASSUME NEW r \in Procs, Holds(r)' PROVE r = p
    <3>1. r # p => Holds(r)
      BY <1>h, <2>1 DEF Holds, Exists
    <3> QED
      BY <1>h, <1>t, <3>1 DEF BatonInv
  <2>2. Front(p)' = f
    BY <1>h DEF Front
  <2>3. \A k \in parked : Verdict(k)' => Verdict(k) \/ k = f
    BY <1>h DEF Verdict, Exists
  <2>4. ~Exists(valid, f)'
    <3>1. \A k \in parked : Verdict(k) => k <= Front(p)
      BY <1>h, <1>t DEF BatonInv
    <3> QED
      BY <1>h, <3>1 DEF Verdict, Exists
  <2> QED
    BY <1>f, <1>h, <2>1, <2>2, <2>3, <2>4
\* The holder is done.
<1>i. ASSUME NEW p \in Procs, Holds(p), UNCHANGED <<round, parked, valid>>,
             \A r \in Procs : r # p => pc'[r] = pc[r] /\ at'[r] = at[r],
             pc'[p] \in {"gone", "finalize"}, pc'[p] = "gone" \/ p[1] = 0
      PROVE  BatonInv'
  <2>1. ASSUME NEW r \in Procs PROVE ~Holds(r)'
    <3>1. CASE r # p
      BY <1>i, <1>t, <3>1 DEF BatonInv, Holds, Exists
    <3>2. CASE r = p
      BY <1>i, <1>t, <3>2 DEF Holds
    <3> QED
      BY <3>1, <3>2
  <2> QED
    BY <2>1 DEF BatonInv
<1>7. ASSUME NEW c \in Chunks, ChunkStep(c) \/ PatchFails(c) PROVE BatonInv'
  <2>1. /\ c \in Procs /\ c[1] # 0 /\ c = Chunk(c[1]) /\ c[1] \in parked
        /\ c[1] \in 0 .. N /\ c[2] = round /\ round \in Turns /\ round > 0
        /\ \A q \in Procs : q # c => pc'[q] = pc[q] /\ at'[q] = at[q]
        /\ UNCHANGED <<round, parked>>
    BY <1>t, <1>7, ChunkMoves, ProcIs DEF fleet, Turns
  <2>2. CASE PatchFails(c) \/ Retire(c)
    <3>1. pc'[c] = "gone" /\ UNCHANGED <<valid, stale, endDone>>
      BY <1>t, <2>1, <2>2 DEF PatchFails, Retire, Moves, TypeOK, files
    <3> QED
      BY <1>e, <2>1, <3>1
  <2>3. CASE Enter(c) \/ ReachStop(c) \/ WriteMarker(c)
    <3>1. /\ pc'[c] \notin {"await", "carry"}
          /\ pc[c] \notin {"await", "carry", "gone"}
          /\ UNCHANGED <<valid, stale, endDone>>
      BY <1>t, <2>1, <2>3 DEF Enter, ReachStop, WriteMarker, Moves, TypeOK, files
    <3> QED
      BY <1>e, <2>1, <3>1
  <2>4. ASSUME pc[c] = "waiting", Exists(valid, c[1])
        PROVE  /\ Holds(c) /\ Front(c) = c[1] /\ Front(c) \in Nat
               /\ at[c] \in Nat /\ at[c] > c[1] /\ at[c] \in parked \cup {End}
    <3>1. at[c] = NextStop(c[1])
      BY <1>t, <2>4 DEF PlaceInv
    <3>2. /\ NextStop(c[1]) \in 0 .. End /\ NextStop(c[1]) > c[1]
          /\ NextStop(c[1]) \in parked \cup {End}
      BY <1>t, <2>1, NextStopIs
    <3>3. Holds(c)
      BY <2>1, <2>4 DEF Holds
    <3>4. Front(c) = c[1]
      BY <2>1, <2>4 DEF Front
    <3> QED
      BY <2>1, <3>1, <3>2, <3>3, <3>4
  <2>5. CASE PassOn(c)
    <3>1. /\ pc[c] = "waiting" /\ pc'[c] = "gone" /\ Exists(valid, c[1])
          /\ matched[c] /\ valid' = [valid EXCEPT ![at[c]] = round]
          /\ UNCHANGED <<stale, endDone>>
      BY <1>t, <2>1, <2>5 DEF PassOn, Moves, TypeOK
    <3>2. at[c] \in parked
      BY <1>t, <2>1, <3>1 DEF FilesInv, Exists
    <3>3. \A k \in Boundaries : valid'[k] = IF k = at[c] THEN round ELSE valid[k]
      BY <1>t, <3>1 DEF TypeOK
    <3>4. c # Chunk(at[c])
      BY <2>1, <2>4, <3>1 DEF Chunk
    <3> QED
      BY <1>g, <2>1, <2>4, <3>1, <3>2, <3>3, <3>4
  <2>6. CASE Disown(c)
    <3>1. /\ pc[c] = "waiting" /\ pc'[c] = "await" /\ Exists(valid, c[1])
          /\ stale' = [stale EXCEPT ![at[c]] = c[2]] /\ at' = at
          /\ UNCHANGED <<valid, endDone>>
      BY <1>t, <2>1, <2>6 DEF Disown, Moves, TypeOK
    <3>2. \A k \in parked : stale'[k] = stale[k] \/ k = at[c]
      BY <1>t, <3>1 DEF TypeOK
    <3> QED
      BY <1>h, <2>1, <2>4, <3>1, <3>2
  <2>7. CASE TakeBaton(c)
    <3>1. /\ pc[c] = "waiting" /\ pc'[c] \in {"carry", "gone"}
          /\ Exists(valid, c[1]) /\ at' = at /\ UNCHANGED <<valid, stale>>
          /\ pc'[c] = "carry" => endDone' = endDone
      BY <1>t, <2>1, <2>7 DEF TakeBaton, Moves, TypeOK
    <3>2. CASE pc'[c] = "carry"
      BY <1>h, <2>1, <2>4, <3>1, <3>2
    <3>3. CASE pc'[c] = "gone"
      BY <1>i, <2>1, <2>4, <3>1, <3>3
    <3> QED
      BY <3>1, <3>2, <3>3
  <2> QED
    BY <1>7, <2>2, <2>3, <2>5, <2>6, <2>7 DEF ChunkStep
<1>8. ASSUME NEW p \in Procs, WriterStep(p) PROVE BatonInv'
  <2>1. /\ p[2] = round /\ round \in Turns /\ UNCHANGED <<round, parked>>
        /\ \/ p = Run(round) /\ p[1] = 0
           \/ p \in Chunks /\ p = Chunk(p[1]) /\ p[1] # 0
        /\ \A q \in Procs : q # p => pc'[q] = pc[q] /\ at'[q] = at[q]
    BY <1>t, <1>8, WriterMoves DEF fleet
  <2>2. CASE OpenThere(p) \/ FindNone(p) \/ Create(p) \/ Rewrite(p)
    <3>1. /\ pc[p] \in {"open", "create", "await"} /\ at' = at
          /\ pc[p] = "await" => pc'[p] = "carry"
          /\ pc'[p] \in {"create", "write", "carry"}
          /\ p[1] # 0 /\ pc'[p] = "carry" => pc[p] = "await"
          /\ UNCHANGED <<valid, stale, endDone>>
      BY <1>t, <2>2
         DEF OpenThere, FindNone, Create, Rewrite, Moves, TypeOK, Begun, files
    <3>2. p[1] = 0 /\ pc[p] # "await" => at[p] = 0
      BY <1>t, <2>1, <3>1 DEF PlaceInv
    <3>3. ~Exists(valid, 0)
      BY <1>t DEF Exists
    <3> QED
      BY <1>e, <2>1, <3>1, <3>2, <3>3
  <2>3. ASSUME pc[p] = "carry"
        PROVE  /\ Holds(p) /\ Front(p) = at[p] /\ Front(p) \in Nat
               /\ NextStop(at[p]) \in Nat /\ NextStop(at[p]) > at[p]
               /\ NextStop(at[p]) \in parked => p # Chunk(NextStop(at[p]))
    <3>1. Holds(p)
      BY <2>1, <2>3, CarrierHolds
    <3>2. at[p] \in parked \cup {0} /\ (p[1] # 0 => at[p] > p[1])
      BY <1>t, <2>1, <2>3 DEF PlaceInv
    <3>3. at[p] \in 0 .. N /\ p[1] \in 0 .. N
      BY <1>t, <3>2, NAssumption, ProcIs DEF Boundaries
    <3>4. /\ NextStop(at[p]) \in 0 .. End /\ NextStop(at[p]) > at[p]
      BY <1>t, <3>3, NextStopIs
    <3>5. p[1] < NextStop(at[p])
      BY <2>1, <3>2, <3>3, <3>4
    <3>6. p # Chunk(NextStop(at[p]))
      BY <3>5, <3>3 DEF Chunk
    <3>7. Front(p) = at[p]
      BY <2>3 DEF Front
    <3> QED
      BY <3>1, <3>3, <3>4, <3>6, <3>7
  <2>4. CASE Confer(p)
    <3> DEFINE q == NextStop(at[p])
    <3>1. /\ pc[p] = "carry" /\ q \in parked
          /\ valid' = [valid EXCEPT ![q] = round]
          /\ UNCHANGED <<stale, endDone>>
          /\ pc'[p] \in {"gone", "finalize"} /\ (pc'[p] = "gone" \/ p[1] = 0)
      BY <1>t, <2>1, <2>4 DEF Confer, Exists, Moves, TypeOK
    <3>2. Front(p) < q /\ p # Chunk(q)
      BY <2>3, <3>1
    <3> HIDE DEF q
    <3>3. \A k \in Boundaries : valid'[k] = IF k = q THEN round ELSE valid[k]
      BY <1>t, <3>1 DEF TypeOK
    <3> QED
      BY <1>g, <2>1, <2>3, <3>1, <3>2, <3>3
  <2>5. CASE Overrule(p)
    <3> DEFINE q == NextStop(at[p])
    <3>1. /\ pc[p] = "carry" /\ stale' = [stale EXCEPT ![q] = p[2]]
          /\ UNCHANGED <<valid, endDone>>
          /\ pc'[p] = "await" /\ at'[p] = q
      BY <1>t, <2>1, <2>5 DEF Overrule, Moves, TypeOK
    <3>2. Front(p) < q /\ q \in Nat
      BY <2>3, <3>1
    <3> HIDE DEF q
    <3>3. \A k \in parked : stale'[k] = stale[k] \/ k = q
      BY <1>t, <3>1 DEF TypeOK
    <3> QED
      BY <1>h, <2>1, <2>3, <3>1, <3>2, <3>3
  <2>6. CASE RunOut(p)
    <3>1. /\ pc[p] = "carry" /\ UNCHANGED <<valid, stale>>
          /\ pc'[p] \in {"gone", "finalize"} /\ (pc'[p] = "gone" \/ p[1] = 0)
      BY <1>t, <2>1, <2>6 DEF RunOut, Moves, TypeOK
    <3> QED
      BY <1>i, <2>1, <2>3, <3>1
  <2> QED
    BY <1>8, <2>2, <2>4, <2>5, <2>6 DEF WriterStep
<1> QED
  BY <1>1, <1>2, <1>3, <1>4, <1>5, <1>6, <1>7, <1>8
     DEF Next, RunStep, SleeperStep

-----------------------------------------------------------------------------
(* What has been published. *)

LEMMA NextPublished ==
    ASSUME FleetInv, [Next]_vars, "linger" \notin Faults
    PROVE  PublishedInv'
<1>t. /\ TypeOK /\ RoundInv /\ PipeInv /\ PlaceInv /\ FilesInv /\ BatonInv
      /\ PublishedInv /\ parked \subseteq Boundaries
  BY DEF FleetInv, TypeOK
<1>b. \A k \in Boundaries : round \in Turns =>
         Chunk(k) \in Chunks /\ Chunk(k) \in Procs /\ Chunk(k)[1] # 0
  BY ProcIs DEF Chunk, Chunks, Boundaries
\* A round that is not published stays so.
<1>d. ASSUME round \notin published, UNCHANGED <<round, published>>
      PROVE  PublishedInv'
  BY <1>d, <1>t DEF PublishedInv
<1>1. CASE Park \/ OpenTheGates \/ AllReported
  <2>1. round \notin published
    BY <1>1, <1>t, ParkingMoves DEF TypeOK, Turns
  <2> QED
    BY <1>1, <1>d, <2>1, ParkingMoves
<1>2. CASE AllReleased \/ Abandon
  <2>1. round \notin published
    BY <1>2, <1>t, RunMoves DEF PublishedInv
  <2> QED
    BY <1>2, <1>d, <2>1 DEF AllReleased, Abandon, output
<1>3. CASE Finalize
  <2>1. /\ round \in Turns /\ Run(round) \in Procs
        /\ pc' = [pc EXCEPT ![Run(round)] = "gone"]
        /\ \A q \in Procs : q # Run(round) => pc'[q] = pc[q]
        /\ published' = published \cup {round}
        /\ UNCHANGED <<round, parked, valid, stale>>
    BY <1>3, <1>t, RunMoves DEF Finalize, files, fleet, Moves
  <2>2. \A k \in parked : Verdict(k) /\ Exists(marker, k)
    BY <1>3 DEF Finalize, Verdict
  <2>3. ASSUME NEW k \in parked PROVE pc[Chunk(k)] \in {"waiting", "gone"}
    <3> DEFINE c == Chunk(k)
    <3>1. /\ c \in Chunks /\ c \in Procs /\ c[1] = k /\ c[1] # 0 /\ c[2] = round
          /\ pc[c] \in {"waiting", "await", "carry", "gone"}
      BY <1>b, <1>t, <2>1, <2>2, <2>3 DEF FilesInv, Chunk
    <3> HIDE DEF c
    <3>2. ASSUME pc[c] \in {"await", "carry"} PROVE FALSE
      <4>1. /\ Exists(valid, k) /\ handedOff /\ at[c] \in parked
        BY <1>t, <2>3, <3>1, <3>2 DEF FilesInv, PlaceInv
      <4>2. Holds(c) /\ Front(c) = at[c]
        BY <2>1, <3>1, <3>2, CarrierHolds DEF Front
      <4>3. /\ \A j \in parked : j <= at[c]
            /\ ~Exists(valid, at[c]) /\ endDone = Absent
        BY <1>t, <2>2, <3>1, <3>2, <4>2 DEF BatonInv
      <4>4. Exists(stale, at[c])
        BY <2>2, <4>1, <4>3 DEF Verdict
      <4>5. NextStop(at[c]) = End
        <5>0. \A j \in parked : j \in 0 .. N /\ j \in Nat
          BY <1>t, NAssumption DEF Boundaries
        <5>1. at[c] \in 0 .. N /\ \A j \in parked : j \in Nat
          BY <4>1, <5>0
        <5>2. /\ NextStop(at[c]) \in parked \cup {End}
              /\ NextStop(at[c]) > at[c]
          BY <1>t, <5>1, NextStopIs
        <5> QED
          BY <4>3, <5>1, <5>2
      <4> QED
        BY <1>3, <4>1, <4>3, <4>4, <4>5 DEF Finalize
    <3> QED
      BY <3>1, <3>2 DEF c
  <2>4. \A k \in parked : pc'[Chunk(k)] \in {"waiting", "gone"}
    <3>1. \A k \in parked : Chunk(k) \in Procs /\ Chunk(k) # Run(round)
      BY <1>b, <1>t, <2>1 DEF Run
    <3> QED
      BY <2>1, <2>3, <3>1
  <2>5. pc'[Run(round)] = "gone"
    BY <1>t, <2>1 DEF TypeOK
  <2>6. \A k \in parked : Verdict(k)'
    BY <2>1, <2>2 DEF Verdict, Exists
  <2>7. \A t \in published' : t <= round
    BY <1>t, <2>1 DEF PublishedInv, TypeOK
  <2> QED
    BY <2>1, <2>4, <2>5, <2>6, <2>7 DEF PublishedInv, Chunk
<1>4. ASSUME NEW k \in Boundaries, Rouse(k) PROVE PublishedInv'
  <2>1. round \notin published
    BY <1>4, <1>t, RouseMoves DEF PublishedInv
  <2> QED
    BY <1>4, <1>d, <2>1, RouseMoves DEF output
<1>5. CASE BeginRound
  <2>1. /\ round' = round + 1 /\ published' = published /\ round \in Nat
        /\ \A t \in published : t <= round /\ t \in Nat
    BY <1>5, <1>t DEF BeginRound, PublishedInv, TypeOK, Turns
  <2> QED
    BY <2>1 DEF PublishedInv
<1>6. CASE UNCHANGED <<round, parked, pc, valid, stale, published>>
  BY <1>t, <1>6 DEF PublishedInv, Verdict, Exists, Chunk
<1>7. ASSUME NEW c \in Chunks, ChunkStep(c) \/ PatchFails(c) PROVE PublishedInv'
  <2>1. /\ c \in Procs /\ c[1] # 0 /\ c = Chunk(c[1]) /\ c[1] \in parked
        /\ c[1] \in 0 .. N /\ c[2] = round /\ round \in Turns /\ round > 0
        /\ \A q \in Procs : q # c => pc'[q] = pc[q]
        /\ UNCHANGED <<round, parked, published>>
        /\ pc[c] \notin {"none", "gone"}
    BY <1>t, <1>7, ChunkMoves, ProcIs DEF fleet, Turns
  <2>2. SUFFICES ASSUME round \in published PROVE PublishedInv'
    BY <1>d, <2>1
  <2>3. /\ pc[c] = "waiting" /\ pc[Run(round)] = "gone"
        /\ \A k \in parked : Verdict(k) /\ pc[Chunk(k)] \in {"waiting", "gone"}
    BY <1>t, <2>1, <2>2 DEF PublishedInv
  <2>4. ASSUME Exists(valid, c[1]), at[c] \in parked PROVE FALSE
    <3>1. Holds(c) /\ Front(c) = c[1]
      BY <2>1, <2>3, <2>4 DEF Holds, Front
    <3>2. at[c] <= c[1]
      BY <1>t, <2>1, <2>3, <2>4, <3>1 DEF BatonInv
    <3>3. at[c] > c[1]
      BY <1>t, <2>1, <2>3, NextStopIs DEF PlaceInv
    <3>4. at[c] \in Nat /\ c[1] \in Nat
      BY <1>t, <2>1, <2>4 DEF Boundaries
    <3> QED
      BY <3>2, <3>3, <3>4
  <2>5. pc'[c] = "gone" /\ UNCHANGED <<valid, stale>>
    <3>1. Retire(c) \/ TakeBaton(c)
      <4>1. Retire(c) \/ TakeBaton(c) \/ PassOn(c) \/ Disown(c)
        BY <1>7, <2>3 DEF ChunkStep, PatchFails, Enter, ReachStop, WriteMarker
      <4>2. PassOn(c) => Exists(valid, c[1]) /\ at[c] \in parked
        BY <1>t, <2>1, <2>3 DEF PassOn, FilesInv, Exists
      <4>3. Disown(c) => Exists(valid, c[1]) /\ at[c] \in parked
        BY DEF Disown, Exists
      <4> QED
        BY <2>4, <4>1, <4>2, <4>3
    <3>2. TakeBaton(c) => at[c] = End
      <4>1. at[c] \in parked \cup {End}
        BY <1>t, <2>1, <2>3, NextStopIs DEF PlaceInv
      <4> QED
        BY <2>4, <4>1 DEF TakeBaton
    <3> QED
      BY <1>t, <2>1, <3>1, <3>2 DEF Retire, TakeBaton, Moves, TypeOK, files
  <2>6. \A k \in parked : /\ pc'[Chunk(k)] \in {"waiting", "gone"}
                          /\ Chunk(k)' = Chunk(k)
    BY <1>b, <1>t, <2>1, <2>3, <2>5 DEF Chunk
  <2>7. pc'[Run(round)] = "gone"
    BY <1>t, <2>1, <2>3, ProcIs DEF Run, TypeOK
  <2>8. \A k \in parked : Verdict(k)'
    BY <2>1, <2>3, <2>5 DEF Verdict, Exists
  <2> QED
    BY <1>t, <2>1, <2>6, <2>7, <2>8 DEF PublishedInv, Chunk
<1>8. ASSUME NEW p \in Procs, WriterStep(p) PROVE PublishedInv'
  <2>1. round \notin published
    BY <1>8, <1>t, WriterMoves DEF PublishedInv
  <2> QED
    BY <1>8, <1>t, <1>d, <2>1, WriterMoves
<1>9. Release \/ (\E k \in Boundaries : ReportIn(k) \/ Listen(k))
        \/ UNCHANGED vars => UNCHANGED <<round, parked, pc, valid, stale, published>>
  BY DEF Release, ReportIn, Listen, vars, fleet, files, output
<1> QED
  BY <1>1, <1>2, <1>3, <1>4, <1>5, <1>6, <1>7, <1>8, <1>9
     DEF Next, RunStep, SleeperStep

-----------------------------------------------------------------------------
(* The fleet file. *)

LEMMA NextDisk ==
    ASSUME FleetInv, [Next]_vars, "linger" \notin Faults
    PROVE  DiskInv'
<1>t. /\ TypeOK /\ RoundInv /\ PipeInv /\ PlaceInv /\ FilesInv /\ PublishedInv
      /\ DiskInv /\ parked \subseteq Boundaries
  BY DEF FleetInv, TypeOK
<1>r. "race" \in mishaps => "race" \in mishaps'
  BY DEF Next, RunStep, SleeperStep, ChunkStep, WriterStep, vars, output,
         Park, OpenTheGates, AllReported, Release, AllReleased, Finalize,
         BeginRound, Abandon, ReportIn, Listen, Rouse, PatchFails, Enter,
         ReachStop, WriteMarker, PassOn, Disown, TakeBaton, Retire, OpenThere,
         FindNone, Create, Rewrite, Confer, Overrule, RunOut
\* A process of this round moves, and the file stays there.
<1>d. ASSUME NEW p \in Procs, \A q \in Procs : q # p => pc'[q] = pc[q],
             UNCHANGED <<round, parked, there, published>>, round \in Turns,
             pc'[p] \in Opened => there \/ round \in published,
             disk \subseteq disk', there \/ disk' = disk,
             pc'[p] = "marking" => p[1] \in disk',
             \A k \in parked : marker'[k] = marker[k] \/ k \in disk
      PROVE  DiskInv'
  <2>1. \A q \in Procs : pc'[q] \in Opened => there' \/ round' \in published'
    BY <1>d, <1>t DEF DiskInv
  <2>2. ASSUME "race" \notin mishaps'
        PROVE  /\ \A k \in parked' : Exists(marker, k)' => k \in disk'
               /\ \A c \in Chunks : c[2] = round' /\ pc'[c] = "marking" =>
                     c[1] \in disk'
               /\ there' \/ disk' = {} \/ round' \in published'
    <3>1. "race" \notin mishaps
      BY <1>r, <2>2
    <3>2. \A k \in parked' : Exists(marker, k)' => k \in disk'
      BY <1>d, <1>t, <3>1 DEF DiskInv, Exists
    <3>3. \A c \in Chunks : c[2] = round' /\ pc'[c] = "marking" => c[1] \in disk'
      BY <1>d, <1>t, <3>1, ProcIs DEF DiskInv
    <3> QED
      BY <1>d, <1>t, <3>1, <3>2, <3>3 DEF DiskInv
  <2>3. round' # 0
    BY <1>d DEF Turns
  <2> QED
    BY <2>1, <2>2, <2>3 DEF DiskInv
<1>1. CASE Park \/ OpenTheGates \/ AllReported
  <2>1. /\ round' = 0 /\ published' = published /\ disk' = disk
        /\ marker' = marker
    BY <1>1, ParkingMoves DEF files
  <2>2. \A k \in parked' : ~Exists(marker, k)'
    BY <2>1, NextFiles DEF FilesInv, ThisRoundsFiles, Exists, Absent
  <2>3. \A q \in Procs : pc'[q] \notin Opened
    <3>1. TypeOK' /\ RoundInv'
      BY NextType, NextRounds
    <3>2. ASSUME NEW q \in Procs PROVE pc'[q] \notin Opened
      <4>1. CASE q = Run(0)
        BY <1>1, <4>1, ParkingMoves DEF Opened
      <4>2. CASE q # Run(0)
        <5>1. pc'[q] = pc[q] /\ round = 0
          BY <1>1, <4>2, ParkingMoves
        <5> QED
          BY <1>t, <5>1, AtWork DEF Opened, Turns
      <4> QED
        BY <4>1, <4>2
    <3> QED
      BY <3>2
  <2>4. disk = {}
    BY <1>1, <1>t, ParkingMoves DEF DiskInv
  <2> QED
    BY <1>r, <2>1, <2>2, <2>3, <2>4, ProcIs DEF DiskInv, Opened
<1>2. CASE AllReleased \/ Abandon
  <2>1. /\ UNCHANGED <<round, parked, there, published, disk, marker>>
        /\ round \in Turns /\ Run(round) \in Procs
        /\ pc'[Run(round)] \in {"open", "gone"}
        /\ \A q \in Procs : q # Run(round) => pc'[q] = pc[q]
    BY <1>2, <1>t, RunMoves DEF AllReleased, Abandon, output, files, fleet
  <2> QED
    BY <1>d, <2>1 DEF Opened
<1>3. CASE Finalize
  <2>1. /\ round \in Turns /\ published' = published \cup {round}
        /\ UNCHANGED <<round, parked, disk, marker>>
        /\ \A q \in Procs : q # Run(round) => pc'[q] = pc[q]
        /\ mishaps' = mishaps
    BY <1>3, <1>t, RunMoves DEF Finalize, files, fleet
  <2>2. \A c \in Chunks : pc'[c] = pc[c]
    BY <1>t, <2>1, ProcIs DEF TypeOK
  <2>3. round' \in published' /\ round' # 0
    BY <2>1 DEF Turns
  <2> QED
    BY <1>t, <2>1, <2>2, <2>3 DEF DiskInv, Exists
<1>4. ASSUME NEW k \in Boundaries, Rouse(k) PROVE DiskInv'
  BY <1>d, <1>4, RouseMoves DEF output, files, Opened
<1>5. CASE BeginRound
  <2>1. /\ disk' = {} /\ \A k \in parked : marker'[k] = Absent
        /\ parked' = parked
    BY <1>5, <1>t DEF BeginRound, Unlinked, fleet
  <2>2. \A q \in Procs : pc'[q] \in {"none", "gone", "release"}
    BY <1>5, <1>t, BeginMoves
  <2> QED
    BY <2>1, <2>2, ProcIs DEF DiskInv, Exists, Opened
<1>6. CASE UNCHANGED <<round, parked, pc, marker, there, disk, published, mishaps>>
  BY <1>t, <1>6 DEF DiskInv, Exists
<1>7. CASE Release
  <2>1. UNCHANGED <<round, parked, pc, marker, there, disk, published>>
    BY <1>7 DEF Release, files, output
  <2> QED
    BY <1>r, <1>t, <2>1 DEF DiskInv, Exists
<1>8. ASSUME NEW c \in Chunks, ChunkStep(c) \/ PatchFails(c) PROVE DiskInv'
  <2>1. /\ c \in Procs /\ c[1] # 0 /\ c = Chunk(c[1]) /\ c[1] \in parked
        /\ c[1] \in Boundaries /\ c[2] = round /\ round \in Turns
        /\ \A q \in Procs : q # c => pc'[q] = pc[q]
        /\ UNCHANGED <<round, parked, there, published>>
    BY <1>t, <1>8, ChunkMoves DEF fleet
  <2>2. CASE PatchFails(c) \/ Enter(c) \/ Retire(c) \/ PassOn(c)
             \/ Disown(c) \/ TakeBaton(c)
    <3>1. /\ disk' = disk /\ marker' = marker /\ pc'[c] # "marking"
          /\ pc'[c] \in Opened => pc[c] \in Opened
      BY <1>t, <2>1, <2>2 DEF PatchFails, Enter, Retire, PassOn, Disown,
                              TakeBaton, Moves, TypeOK, files, output, Opened
    <3>2. pc'[c] \in Opened => there \/ round \in published
      BY <1>t, <2>1, <3>1 DEF DiskInv
    <3> QED
      BY <1>d, <2>1, <3>1, <3>2
  <2>3. CASE ReachStop(c)
    <3>1. /\ pc[c] = "write" /\ disk' = disk \cup {c[1]} /\ marker' = marker
      BY <2>3 DEF ReachStop, files
    <3>2. round \notin published
      BY <1>t, <2>1, <3>1 DEF PublishedInv
    <3>3. there
      BY <1>t, <2>1, <3>1, <3>2 DEF DiskInv, Opened
    <3> QED
      BY <1>d, <2>1, <3>1, <3>3
  <2>4. CASE WriteMarker(c)
    <3>1. /\ pc[c] = "marking" /\ pc'[c] = "waiting" /\ disk' = disk
          /\ marker' = [marker EXCEPT ![c[1]] = c[2]] /\ mishaps' = mishaps
      BY <1>t, <2>1, <2>4 DEF WriteMarker, Moves, TypeOK, output
    <3>2. there \/ round \in published
      BY <1>t, <2>1, <3>1 DEF DiskInv, Opened
    <3>3. "race" \notin mishaps => c[1] \in disk
      BY <1>t, <2>1, <3>1 DEF DiskInv
    <3>4. \A k \in parked : k # c[1] => marker'[k] = marker[k]
      BY <1>t, <3>1 DEF TypeOK
    <3>5. CASE "race" \in mishaps
      <4>1. \A q \in Procs : pc'[q] \in Opened => there' \/ round' \in published'
        BY <1>t, <2>1, <3>2 DEF DiskInv
      <4>2. round' # 0 /\ "race" \in mishaps'
        BY <2>1, <3>1, <3>5 DEF Turns
      <4> QED
        BY <4>1, <4>2 DEF DiskInv
    <3>6. CASE "race" \notin mishaps
      <4>1. \A k \in parked : marker'[k] = marker[k] \/ k \in disk
        BY <3>3, <3>4, <3>6
      <4> QED
        BY <1>d, <2>1, <3>1, <3>2, <4>1
    <3> QED
      BY <3>5, <3>6
  <2> QED
    BY <1>8, <2>2, <2>3, <2>4 DEF ChunkStep
<1>9. ASSUME NEW p \in Procs, WriterStep(p) PROVE DiskInv'
  <2>1. /\ p[2] = round /\ round \in Turns /\ round # 0
        /\ pc[p] \in {"open", "create", "await", "carry"}
        /\ pc'[p] # "marking"
        /\ \A q \in Procs : q # p => pc'[q] = pc[q]
        /\ UNCHANGED <<round, parked, marker, published>>
    BY <1>t, <1>9, WriterMoves DEF fleet, Turns
  <2>2. round \notin published
    BY <1>t, <1>9, WriterMoves DEF PublishedInv
  <2>3. CASE OpenThere(p) \/ FindNone(p) \/ Rewrite(p)
    <3>1. disk' = disk /\ there' = there
      BY <2>3 DEF OpenThere, FindNone, Rewrite, output
    <3>2. pc'[p] \in Opened => there \/ pc[p] \in Opened
      BY <1>t, <2>3 DEF OpenThere, FindNone, Rewrite, Moves, TypeOK, Opened
    <3>3. pc'[p] \in Opened => there
      BY <1>t, <2>2, <3>2 DEF DiskInv
    <3> QED
      BY <1>d, <2>1, <3>1, <3>3
  <2>4. CASE Create(p)
    <3>1. /\ there' = TRUE /\ disk' = {}
          /\ mishaps' = mishaps \cup IF there THEN {"race"} ELSE {}
      BY <2>4 DEF Create
    <3>2. ASSUME "race" \notin mishaps'
          PROVE  /\ \A k \in parked' : ~Exists(marker, k)'
                 /\ \A c \in Chunks : ~(c[2] = round' /\ pc'[c] = "marking")
      <4>1. "race" \notin mishaps /\ ~there
        BY <3>1, <3>2
      <4>2. disk = {}
        BY <1>t, <2>2, <4>1 DEF DiskInv
      <4>3. \A k \in parked : ~Exists(marker, k)
        BY <1>t, <4>1, <4>2 DEF DiskInv
      <4>4. \A c \in Chunks : c[2] = round => pc[c] # "marking"
        BY <1>t, <4>1, <4>2 DEF DiskInv
      <4> QED
        BY <2>1, <4>3, <4>4, ProcIs DEF Exists
    <3> QED
      BY <2>1, <3>1, <3>2 DEF DiskInv
  <2>5. CASE Confer(p) \/ Overrule(p) \/ RunOut(p)
    <3>1. /\ pc[p] = "carry" /\ there' = there /\ disk' = disk \cup {at[p]}
      BY <2>5 DEF Confer, Overrule, RunOut
    <3>2. there
      BY <1>t, <2>2, <3>1 DEF DiskInv, Opened
    <3> QED
      BY <1>d, <2>1, <3>1, <3>2
  <2> QED
    BY <1>9, <2>3, <2>4, <2>5 DEF WriterStep
<1>10. (\E k \in Boundaries : ReportIn(k) \/ Listen(k)) \/ UNCHANGED vars =>
       UNCHANGED <<round, parked, pc, marker, there, disk, published, mishaps>>
  BY DEF ReportIn, Listen, vars, fleet, files, output
<1> QED
  BY <1>1, <1>2, <1>3, <1>4, <1>5, <1>6, <1>7, <1>8, <1>9, <1>10
     DEF Next, RunStep, SleeperStep

-----------------------------------------------------------------------------
(* What follows, for any fleet, any number of runs and any mishaps but one. *)

\* The invariant, of every behaviour in which runs do not overlap.
LEMMA FleetInvariant ==
    ASSUME "linger" \notin Faults PROVE Spec => []FleetInv
<1>1. FleetInv /\ [Next]_vars => FleetInv'
  BY NextType, NextRounds, NextPipes, NextPlaces, NextFiles, NextBaton,
     NextDisk, NextPublished DEF FleetInv
<1> QED
  BY <1>1, InitFleet, PTL DEF Spec

\* A run that does not begin before the chunks of the last have left keeps
\* the types, whatever else goes wrong.
THEOREM FleetTypes ==
    ASSUME "linger" \notin Faults PROVE Spec => []TypeOK
  BY FleetInvariant, PTL DEF FleetInv

\* "There is exactly one carrier at any moment": never more than one process
\* takes what it writes for the truth, over any number of runs, with chunks
\* that die, are late or are passed over and runs that are given up.
THEOREM OneCarrierAlways ==
    ASSUME "linger" \notin Faults PROVE Spec => []OneCarrier
<1>1. FleetInv => OneCarrier
  <2> SUFFICES ASSUME FleetInv PROVE OneCarrier
    OBVIOUS
  <2>1. \A p \in Carriers : p \in Procs /\ Holds(p)
    <3>1. SUFFICES ASSUME NEW p \in Carriers PROVE p \in Procs /\ Holds(p)
      OBVIOUS
    <3>2. /\ p \in Procs
          /\ pc[p] \in {"carry", "await"} \/ (pc[p] \in {"open", "create"} /\ p[1] = 0)
      BY DEF Carriers
    <3>3. round \in Turns /\ p[2] = round
      BY <3>2, AtWork DEF FleetInv
    <3> QED
      BY <3>2, <3>3, CarrierHolds DEF Holds, Turns
  <2>2. \A p, q \in Carriers : p = q
    BY <2>1 DEF FleetInv, BatonInv
  <2>3. CASE Carriers = {}
    BY <2>3, FS_EmptySet DEF OneCarrier
  <2>4. CASE Carriers # {}
    <3>1. PICK p : Carriers = {p}
      BY <2>2, <2>4
    <3>2. Cardinality({p}) = 1
      BY FS_Singleton
    <3> QED
      BY <3>1, <3>2 DEF OneCarrier
  <2> QED
    BY <2>3, <2>4
<1> QED
  BY <1>1, FleetInvariant, PTL

\* No process of a round reads what another round left in the directory, and
\* a marker's region stands in the fleet file as long as no two processes
\* have found it missing at once.
THEOREM DirectoryAlwaysTrue ==
    ASSUME "linger" \notin Faults PROVE Spec => []DirectorySpeaksTrue
<1>1. FleetInv => DirectorySpeaksTrue
  BY DEF FleetInv, FilesInv, DiskInv, DirectorySpeaksTrue, MarkedIsKept
<1> QED
  BY <1>1, FleetInvariant, PTL

\* Once a run has renamed its output no chunk of it writes: the file is whole.
THEOREM PublishedIsWhole ==
    ASSUME "linger" \notin Faults PROVE Spec => []NobodyWritesAfterIt
<1>1. FleetInv => NobodyWritesAfterIt
  <2> SUFFICES ASSUME FleetInv, NEW t \in published, NEW k \in Boundaries
               PROVE  pc[<<k, t>>] \in {"none", "waiting", "gone"}
    BY DEF NobodyWritesAfterIt
  <2>1. /\ t \in Turns /\ t <= round /\ round \in Nat /\ t \in Nat
        /\ <<k, t>> \in Chunks /\ <<k, t>> \in Procs
    <3>1. t \in Turns /\ t <= round /\ round \in Nat
      BY DEF FleetInv, PublishedInv, TypeOK
    <3> QED
      BY <3>1, ProcIs DEF Chunks, Turns
  <2>2. CASE t = round
    <3>1. k \in parked \/ pc[<<k, t>>] = "none"
      BY <2>1 DEF FleetInv, RoundInv
    <3> QED
      BY <2>2, <3>1 DEF FleetInv, PublishedInv, Chunk
  <2>3. CASE t < round
    BY <2>1, <2>3 DEF FleetInv, RoundInv
  <2> QED
    BY <2>1, <2>2, <2>3
<1> QED
  BY <1>1, FleetInvariant, PTL
=============================================================================
