------------------------------- MODULE Relay -------------------------------
(***************************************************************************)
(* The relay of src/engine.c: one serving round of the speculative fleet.  *)
(*                                                                         *)
(* The document is cut into regions 0 .. N.  Region 0 is typeset by the    *)
(* verifier (process 0); region k >= 1 begins at the k-th parked page and  *)
(* is first typeset, on a guess, by chunk k (process k).  The processes    *)
(* share nothing but a directory of small files and the output file.       *)
(* Truth is carried from the front: the carrier compares its own state at  *)
(* each parked page with the state the chunk there began in, and gives the *)
(* page a verdict, "valid" (the baton passes to that chunk) or "stale"     *)
(* (the carrier rewrites the region itself).                               *)
(*                                                                         *)
(* The engine's state at a parked page is abstracted to whether it is the  *)
(* state of the true run there (Truth) or some other (a member of Wrong).  *)
(* The round begins when spec_release_fleet has unlinked the files of the  *)
(* round before; a file is a set of pages for which it exists.             *)
(***************************************************************************)
EXTENDS Integers, FiniteSets

CONSTANTS
    N,        \* the number of parked pages (lines of pages.txt)
    Wrong,    \* the states that are not the true run's
    Faults    \* the mishaps that may happen in the round

AllFaults ==
    { "late",    \* a region is typeset before the next chunk has woken
      "die",     \* a chunk dies: a failed patch, an error, a kill
      "taint",   \* a chunk reads a waived name before it wrote it
      "spill",   \* a wrong chunk writes past the end of its region
      "short" }  \* the edited document ends before some parked pages

ASSUME NAssumption == N \in Nat
ASSUME WrongAssumption == "true" \notin Wrong /\ "none" \notin Wrong
ASSUME FaultsAssumption == Faults \subseteq AllFaults

Pages    == 1 .. N            \* the parked pages, and their chunks
Procs    == 0 .. N            \* the verifier is 0
End      == N + 1             \* where the document ends
Truth    == "true"
States   == Wrong \cup {Truth}
NoEntry  == "none"            \* entry-<P>.txt does not exist

VARIABLES
    pc,        \* where each process is
    at,        \* the region it is in, by the parked page it last reached
    st,        \* its engine state
    matched,   \* spec_chunk_stop's local: my end is the next beginning
    entry,     \* entry-<P>.txt
    marker, valid, stale, tainted,   \* pages whose file exists
    endDone,   \* end-done.txt exists
    handedOff, \* the verifier's spec_finished
    content,   \* what stands in each region of the output file
    last,      \* the region in which the true run ends
    mishaps    \* history: which of the Faults this round has met

files == <<entry, marker, valid, stale, tainted, endDone>>
fate  == <<last, mishaps>>
vars  == <<pc, at, st, matched, files, handedOff, content, fate>>

PC == { "parked",    \* on its named pipe, waiting for the patch
        "write",     \* typesetting its own region on a guess
        "marking",   \* spec_chunk_stop, before the marker
        "waiting",   \* spec_chunk_stop's loop: waiting for a verdict
        "carry",     \* spec_carrier: typesetting a region as the truth
        "await",     \* the carrier waits for the marker of a stale chunk
        "finalize",  \* the verifier in spec_finalize
        "assembled", \* the fleet copies have become the real files
        "done", "dead" }

TypeOK ==
    /\ pc \in [Procs -> PC]
    /\ at \in [Procs -> 0 .. End]
    /\ st \in [Procs -> States]
    /\ matched \in [Pages -> BOOLEAN]
    /\ entry \in [Pages -> States \cup {NoEntry}]
    /\ marker \in SUBSET Pages
    /\ valid \in SUBSET Pages
    /\ stale \in SUBSET Pages
    /\ tainted \in SUBSET Pages
    /\ endDone \in BOOLEAN
    /\ handedOff \in BOOLEAN
    /\ content \in [Procs -> {"blank", "good", "bad"}]
    /\ last \in Procs
    /\ mishaps \in SUBSET AllFaults

Init ==
    /\ pc = [p \in Procs |-> IF p = 0 THEN "carry" ELSE "parked"]
    /\ at = [p \in Procs |-> p]
    /\ st = [p \in Procs |-> Truth]
    /\ matched = [k \in Pages |-> FALSE]
    /\ entry = [k \in Pages |-> NoEntry]
    /\ marker = {} /\ valid = {} /\ stale = {} /\ tainted = {}
    /\ endDone = FALSE
    /\ handedOff = FALSE
    /\ content = [r \in Procs |-> "blank"]
    /\ last \in IF "short" \in Faults THEN Procs ELSE {N}
    /\ mishaps = IF last = N THEN {} ELSE {"short"}

-----------------------------------------------------------------------------
(* Helpers. *)

\* spec_read_state: no file, or none for a place that is no parked page.
Entry(q) == IF q \in Pages THEN entry[q] ELSE NoEntry

\* Typesetting from state s through region r ends in one of these states:
\* the engine is deterministic, so the truth stays the truth, and a wrong
\* state may come to anything.
After(s) == IF s = Truth THEN {Truth} ELSE States

\* The page a run in state s is at when region r is behind it.  A run that
\* is not the true one may also run into the document's end early.
Reached(s, r) ==
    IF s = Truth THEN {IF r = last THEN End ELSE r + 1}
    ELSE {r + 1} \cup (IF "short" \in Faults THEN {End} ELSE {})

\* The chunk that begins at page q, if there is one, is off its pipe.
Woken(q) == q \in Pages => pc[q] # "parked"

\* What such a run leaves in its region.
Written(s) == IF s = Truth THEN "good" ELSE "bad"

-----------------------------------------------------------------------------
(* A chunk, from its pipe to its verdict. *)

\* park_a_chunk: the patch came down the pipe; the chunk writes the state it
\* begins in.  Beyond the true run's end no state is the true one.
Wake(k) ==
    /\ pc[k] = "parked"
    /\ \E s \in IF k <= last THEN States ELSE Wrong :
          /\ st' = [st EXCEPT ![k] = s]
          /\ entry' = [entry EXCEPT ![k] = s]
    /\ pc' = [pc EXCEPT ![k] = "write"]
    /\ UNCHANGED <<at, matched, marker, valid, stale, tainted, endDone,
                   handedOff, content, fate>>

\* taint_read_before_write: once, at any time the chunk typesets, carrying
\* or not.  What it read may or may not have been right.
Taint(k) ==
    /\ "taint" \in Faults
    /\ pc[k] \in {"write", "carry"}
    /\ k \notin tainted
    /\ tainted' = tainted \cup {k}
    /\ \E s \in States : st' = [st EXCEPT ![k] = s]
    /\ UNCHANGED <<pc, at, matched, entry, marker, valid, stale, endDone,
                   handedOff, content, last>>
    /\ mishaps' = mishaps \cup {"taint"}

\* The chunks write one file, each from its own offset, with nothing between
\* one's range and the next: a run longer than the region was runs over it.
Spill(k) ==
    /\ "spill" \in Faults
    /\ pc[k] = "write" /\ st[k] # Truth
    /\ k < N
    /\ content' = [content EXCEPT ![k + 1] = "bad"]
    /\ UNCHANGED <<pc, at, st, matched, files, handedOff, last>>
    /\ mishaps' = mishaps \cup {"spill"}

\* spec_chunk_stop up to the marker: flush, digest, and compare with the
\* entry of the page reached.
ReachStop(k) ==
    /\ pc[k] = "write"
    /\ "late" \notin Faults => Woken(k + 1)
    /\ content' = [content EXCEPT ![k] = Written(st[k])]
    /\ \E s \in After(st[k]), q \in Reached(st[k], k) :
          /\ st' = [st EXCEPT ![k] = s]
          /\ at' = [at EXCEPT ![k] = q]
          /\ matched' = [matched EXCEPT ![k] = (Entry(q) = s)]
    /\ mishaps' = mishaps \cup IF Woken(k + 1) THEN {} ELSE {"late"}
    /\ pc' = [pc EXCEPT ![k] = "marking"]
    /\ UNCHANGED <<files, handedOff, last>>

\* spec_chunk_stop: it says that its own writing is done.
WriteMarker(k) ==
    /\ pc[k] = "marking"
    /\ marker' = marker \cup {k}
    /\ pc' = [pc EXCEPT ![k] = "waiting"]
    /\ UNCHANGED <<at, st, matched, entry, valid, stale, tainted, endDone,
                   handedOff, content, fate>>

\* Told it was valid, and its end is the next beginning: pass the baton on.
PassOn(k) ==
    /\ pc[k] = "waiting" /\ k \in valid
    /\ matched[k]
    /\ valid' = valid \cup {at[k]}
    /\ pc' = [pc EXCEPT ![k] = "done"]
    /\ UNCHANGED <<at, st, matched, entry, marker, stale, tainted, endDone,
                   handedOff, content, fate>>

\* Valid, and the chunk after it began elsewhere: disown it.
Disown(k) ==
    /\ pc[k] = "waiting" /\ k \in valid
    /\ ~matched[k]
    /\ Entry(at[k]) # NoEntry
    /\ stale' = stale \cup {at[k]}
    /\ pc' = [pc EXCEPT ![k] = "await"]
    /\ UNCHANGED <<at, st, matched, entry, marker, valid, tainted, endDone,
                   handedOff, content, fate>>

\* Mutant of TakeBaton: the baton taken before any verdict.
TakeBatonUntold(k) ==
    /\ pc[k] = "waiting" /\ ~matched[k]
    /\ pc' = [pc EXCEPT ![k] = "carry"]
    /\ UNCHANGED <<at, st, matched, files, handedOff, content, fate>>

\* Valid, and no entry at the page reached: nothing is disowned or waited
\* for, spec_carrier is set and the run goes on from there.
TakeBaton(k) ==
    /\ pc[k] = "waiting" /\ k \in valid
    /\ ~matched[k]
    /\ Entry(at[k]) = NoEntry
    /\ IF at[k] = End
       THEN endDone' = TRUE /\ pc' = [pc EXCEPT ![k] = "done"]
       ELSE endDone' = endDone /\ pc' = [pc EXCEPT ![k] = "carry"]
    /\ UNCHANGED <<at, st, matched, entry, marker, valid, stale, tainted,
                   handedOff, content, fate>>

\* Mutant of Retire: a chunk that polls for validity only.
RetireIfValid(k) ==
    /\ pc[k] = "waiting" /\ k \in stale /\ k \in valid
    /\ pc' = [pc EXCEPT ![k] = "done"]
    /\ UNCHANGED <<at, st, matched, files, handedOff, content, fate>>

\* Told it was stale: everything it wrote will be rewritten, and it leaves.
Retire(k) ==
    /\ pc[k] = "waiting" /\ k \in stale /\ k \notin valid
    /\ pc' = [pc EXCEPT ![k] = "done"]
    /\ UNCHANGED <<at, st, matched, files, handedOff, content, fate>>

\* A chunk may die wherever it is.
Die(k) ==
    /\ "die" \in Faults
    /\ pc[k] \in {"parked", "write", "marking", "waiting", "carry", "await"}
    /\ pc' = [pc EXCEPT ![k] = "dead"]
    /\ UNCHANGED <<at, st, matched, files, handedOff, content, last>>
    /\ mishaps' = mishaps \cup {"die"}

-----------------------------------------------------------------------------
(* The carrier: the verifier, or a chunk that took the baton. *)

\* Mutant of Rewrite: no wait for the marker.
RewriteAtOnce(p) ==
    /\ pc[p] = "await"
    /\ pc' = [pc EXCEPT ![p] = "carry"]
    /\ UNCHANGED <<at, st, matched, files, handedOff, content, fate>>

\* Both waits of the carrier end when the disowned chunk's marker is there.
Rewrite(p) ==
    /\ pc[p] = "await"
    /\ at[p] \in marker
    /\ pc' = [pc EXCEPT ![p] = "carry"]
    /\ UNCHANGED <<at, st, matched, files, handedOff, content, fate>>

\* Mutants of Confer: the entry is there but not compared; no exit after it.
ConferUncompared(p) ==
    /\ pc[p] = "carry"
    /\ \E s \in After(st[p]), q \in Reached(st[p], at[p]) :
          /\ q \in Pages
          /\ q \notin tainted /\ entry[q] # NoEntry
          /\ st' = [st EXCEPT ![p] = s]
          /\ at' = [at EXCEPT ![p] = q]
          /\ valid' = valid \cup {q}
    /\ content' = [content EXCEPT ![at[p]] = Written(st[p])]
    /\ pc' = [pc EXCEPT ![p] = IF p = 0 THEN "finalize" ELSE "done"]
    /\ handedOff' = IF p = 0 THEN TRUE ELSE handedOff
    /\ UNCHANGED <<matched, entry, marker, stale, tainted, endDone, fate>>

ConferAndStay(p) ==
    /\ pc[p] = "carry"
    /\ \E s \in After(st[p]), q \in Reached(st[p], at[p]) :
          /\ q \in Pages
          /\ q \notin tainted /\ entry[q] = s
          /\ st' = [st EXCEPT ![p] = s]
          /\ at' = [at EXCEPT ![p] = q]
          /\ valid' = valid \cup {q}
    /\ content' = [content EXCEPT ![at[p]] = Written(st[p])]
    /\ UNCHANGED <<pc, matched, entry, marker, stale, tainted, endDone,
                   handedOff, fate>>

\* spec_carrier_boundary, equal: confer validity and stop carrying.
Confer(p) ==
    /\ pc[p] = "carry"
    /\ \E s \in After(st[p]), q \in Reached(st[p], at[p]) :
          /\ q \in Pages
          /\ q \notin tainted /\ entry[q] = s
          /\ st' = [st EXCEPT ![p] = s]
          /\ at' = [at EXCEPT ![p] = q]
          /\ valid' = valid \cup {q}
    /\ content' = [content EXCEPT ![at[p]] = Written(st[p])]
    /\ pc' = [pc EXCEPT ![p] = IF p = 0 THEN "finalize" ELSE "done"]
    /\ handedOff' = IF p = 0 THEN TRUE ELSE handedOff
    /\ UNCHANGED <<matched, entry, marker, stale, tainted, endDone, fate>>

\* spec_carrier_boundary, not equal, tainted or no entry: the page is stale.
Overrule(p) ==
    /\ pc[p] = "carry"
    /\ \E s \in After(st[p]), q \in Reached(st[p], at[p]) :
          /\ q \in Pages
          /\ q \in tainted \/ entry[q] # s
          /\ st' = [st EXCEPT ![p] = s]
          /\ at' = [at EXCEPT ![p] = q]
          /\ stale' = stale \cup {q}
    /\ content' = [content EXCEPT ![at[p]] = Written(st[p])]
    /\ pc' = [pc EXCEPT ![p] = "await"]
    /\ UNCHANGED <<matched, entry, marker, valid, tainted, endDone,
                   handedOff, fate>>

\* hstex_engine_run: the carrier ran all the way to the document's end.
RunOut(p) ==
    /\ pc[p] = "carry"
    /\ End \in Reached(st[p], at[p])
    /\ content' = [content EXCEPT ![at[p]] = Written(st[p])]
    /\ at' = [at EXCEPT ![p] = End]
    /\ IF p = 0
       THEN endDone' = endDone /\ pc' = [pc EXCEPT ![p] = "finalize"]
       ELSE endDone' = TRUE /\ pc' = [pc EXCEPT ![p] = "done"]
    /\ UNCHANGED <<st, matched, entry, marker, valid, stale, tainted,
                   handedOff, fate>>

\* Mutant of Assemble: no wait for verdicts.
AssembleUnjudged ==
    /\ pc[0] = "finalize"
    /\ Pages \subseteq marker
    /\ pc' = [pc EXCEPT ![0] = "assembled"]
    /\ UNCHANGED <<at, st, matched, files, handedOff, content, fate>>

\* spec_finalize: every page has a verdict and every writer has said it is
\* done; behind a stale tail it waits for whoever carried to the end.
Assemble ==
    /\ pc[0] = "finalize"
    /\ Pages \subseteq valid \cup stale
    /\ Pages \subseteq marker
    /\ (N \in stale /\ handedOff) => endDone
    /\ pc' = [pc EXCEPT ![0] = "assembled"]
    /\ UNCHANGED <<at, st, matched, files, handedOff, content, fate>>

-----------------------------------------------------------------------------
ChunkStep(k) ==
    \/ Wake(k) \/ ReachStop(k) \/ WriteMarker(k)
    \/ PassOn(k) \/ Disown(k) \/ TakeBaton(k) \/ Retire(k)

CarrierStep(p) == Rewrite(p) \/ Confer(p) \/ Overrule(p) \/ RunOut(p)

Mishap(k) == Taint(k) \/ Spill(k) \/ Die(k)

\* The round is over and every process has left.
Over ==
    /\ pc[0] = "assembled"
    /\ \A k \in Pages : pc[k] \in {"done", "dead"}
    /\ UNCHANGED vars

Next ==
    \/ \E k \in Pages : ChunkStep(k) \/ Mishap(k)
    \/ \E p \in Procs : CarrierStep(p)
    \/ Assemble
    \/ Over

Spec == Init /\ [][Next]_vars

(* Every process is an operating-system process that polls: it goes on      *)
(* whenever it can.  No mishap is ever owed.                                *)
Fairness ==
    /\ \A k \in Pages : WF_vars(ChunkStep(k))
    /\ \A p \in Procs : WF_vars(CarrierStep(p))
    /\ WF_vars(Assemble)

FairSpec == Spec /\ Fairness

-----------------------------------------------------------------------------
(* What the relay promises. *)

\* Who carries the truth: a carrier, or a chunk that has been told it is
\* valid and has not acted on it yet.
Holds(p) ==
    \/ pc[p] \in {"carry", "await"}
    \/ p \in valid /\ pc[p] \in {"parked", "write", "marking", "waiting"}

\* At most one process holds the truth, whatever goes wrong: "there is
\* exactly one carrier at any moment" (the comment above spec_path).
OneCarrier == \A p, q \in Procs : Holds(p) /\ Holds(q) => p = q

\* No parked page is ever given both verdicts: spec_chunk_stop looks for the
\* valid file first, so a page with both would run on as if it were right
\* while its carrier rewrites it.
NoVerdictConflict == valid \cap stale = {}

\* The region of the shared file a process is writing.
Writes(p, r) ==
    \/ pc[p] = "write" /\ r = p
    \/ pc[p] = "carry" /\ r = at[p]

\* Two processes never write one region of the shared file at once.
SingleWriter ==
    \A p, q \in Procs, r \in Procs : Writes(p, r) /\ Writes(q, r) => p = q

\* So it is in every round in which each chunk wakes before the one in front
\* of it has typeset its region, whatever else goes wrong: "a stale region is
\* rewritten only after the chunk that wrote it has said it is done writing".
SingleWriterUnlessLate == "late" \notin mishaps => SingleWriter

\* A page found valid began as the true run did, and what its chunk has
\* written when its marker is there is what the true run would have written.
ValidIsTrue ==
    \A k \in valid : /\ pc[k] = "write" => st[k] = Truth
                     /\ k \in marker => content[k] = "good"

\* The files the verifier renames into place hold the true run's text in
\* every region.
AssembledTrue ==
    pc[0] = "assembled" => \A r \in 0 .. last : content[r] = "good"

\* Deaths, late chunks and a shortened document may stop a round, but what is
\* validated and assembled is true unless a chunk read a waived name too soon
\* or wrote outside its region.
TrueUnlessHurt ==
    mishaps \cap {"taint", "spill"} = {} => ValidIsTrue /\ AssembledTrue

\* A chunk that disqualified itself is not in what is assembled: its range
\* was rewritten.
TaintedIsRewritten ==
    pc[0] = "assembled" => tainted \subseteq stale

\* Every chunk leaves: none goes on waiting for a file that nobody writes.
EveryoneLeaves == <>(\A k \in Pages : pc[k] \in {"done", "dead"})

-----------------------------------------------------------------------------
(* The regions in front of the one the truth is in are settled; a chunk     *)
(* that is valid and has written its marker has settled its own.            *)
Front ==
    IF \E p \in Procs : Holds(p)
    THEN LET p == CHOOSE q \in Procs : Holds(q)
         IN  IF pc[p] \in {"carry", "await"} THEN at[p]
             ELSE IF p \in marker THEN p + 1 ELSE p
    ELSE End

Abstract == INSTANCE Settlement
            WITH settled <- Front, text <- content,
                 published <- (pc[0] = "assembled")

\* What is settled is right and is never written again, and only a document
\* settled to its end is published.
ImplementsSettlement == Abstract!Spec

\* The relay implements in-order settlement, and settles and publishes the
\* whole document in the end.
ImplementsSettlementLive == Abstract!FairSpec

=============================================================================
