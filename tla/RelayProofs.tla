---------------------------- MODULE RelayProofs ----------------------------
(***************************************************************************)
(* What holds of the relay for any number of parked pages, proved.  What   *)
(* it validates and assembles is the true run's text, whatever states the  *)
(* parked pages hold and whatever mishaps befall them; and with no mishap  *)
(* it settles the document from the front.                                 *)
(***************************************************************************)
EXTENDS Relay, TLAPS

Carries(p)  == pc[p] \in {"carry", "await"}
Unheard(p)  == pc[p] \in {"parked", "write", "marking", "waiting"}

\* The baton's invariant, in named parts.

\* The verifier is never a chunk.
VerifierInv == ~Unheard(0)

\* Who stopped has passed its own page; who matched, at a parked page.
StopInv ==
    \A k \in Pages : pc[k] \in {"marking", "waiting"} =>
        /\ at[k] > k
        /\ matched[k] => at[k] \in Pages

\* A chunk carries only after it was told it was valid.
CarryInv ==
    \A p \in Procs : Carries(p) => (p = 0 \/ p \in valid)

\* No verdict has been given in front of the one who holds the truth.
FrontierInv ==
    /\ \A p \in Procs : Carries(p) => \A k \in valid \cup stale : k <= at[p]
    /\ \A p \in valid : Unheard(p) => \A k \in valid \cup stale : k <= p

Baton ==
    /\ VerifierInv
    /\ StopInv
    /\ CarryInv
    /\ FrontierInv
    /\ OneCarrier
    /\ NoVerdictConflict

BatonInv == TypeOK /\ Baton

(* Initially the verifier carries and no page has a verdict.               *)
LEMMA InitBaton == Init => BatonInv
<1> SUFFICES ASSUME Init PROVE BatonInv
  OBVIOUS
<1>1. TypeOK
  <2>1. at \in [Procs -> 0 .. End]
    BY NAssumption DEF Init, Procs, End
  <2>2. last \in Procs
    BY NAssumption DEF Init, Procs
  <2>3. pc \in [Procs -> PC] /\ st \in [Procs -> States]
    BY DEF Init, PC, States
  <2>4. entry \in [Pages -> States \cup {NoEntry}]
    BY DEF Init
  <2>5. content \in [Procs -> {"blank", "good", "bad"}]
    BY DEF Init
  <2> QED
    BY <2>1, <2>2, <2>3, <2>4, <2>5 DEF Init, TypeOK, AllFaults
<1>2. VerifierInv /\ StopInv /\ CarryInv
  BY NAssumption DEF Init, VerifierInv, StopInv, CarryInv, Carries, Unheard,
                     Pages, Procs
<1>3. FrontierInv /\ OneCarrier /\ NoVerdictConflict
  BY DEF Init, FrontierInv, OneCarrier, NoVerdictConflict, Holds, Carries,
         Unheard, Procs
<1> QED
  BY <1>1, <1>2, <1>3 DEF BatonInv, Baton

(* A region is left either right or wrong.                                 *)
LEMMA WrittenType == \A s : Written(s) \in {"blank", "good", "bad"}
  BY DEF Written

(* A parked page a run reaches is the one after the region behind it.       *)
LEMMA ReachedPage ==
    ASSUME NEW s, NEW r, NEW q \in Reached(s, r), q # End
    PROVE  q = r + 1
  BY DEF Reached

(* A run that began truly ends truly, and any other in some state.          *)
LEMMA AfterType ==
    ASSUME NEW s \in States, NEW e \in After(s)
    PROVE  e \in States
  BY DEF After, States

(* Type correctness is preserved: what is added to valid is a page because *)
(* a match is only ever with the entry of one.                              *)
LEMMA NextType == TypeOK /\ StopInv /\ [Next]_vars => TypeOK'
<1> SUFFICES ASSUME TypeOK, StopInv, [Next]_vars PROVE TypeOK'
  OBVIOUS
<1> USE NAssumption DEF TypeOK, PC, Pages, Procs, End, fate
<1>1. ASSUME NEW k \in Pages, Wake(k) PROVE TypeOK'
  BY <1>1 DEF Wake, States
<1>2. ASSUME NEW k \in Pages, Taint(k) PROVE TypeOK'
  BY <1>2 DEF Taint, AllFaults
<1>3. ASSUME NEW k \in Pages, Spill(k) PROVE TypeOK'
  BY <1>3 DEF Spill, AllFaults, files
<1>4. ASSUME NEW k \in Pages, Die(k) PROVE TypeOK'
  BY <1>4 DEF Die, AllFaults, files
<1>5. ASSUME NEW k \in Pages, ReachStop(k) PROVE TypeOK'
  BY <1>5 DEF ReachStop, files, Written, After, Reached, States, Entry,
             AllFaults
<1>6. ASSUME NEW k \in Pages, WriteMarker(k) PROVE TypeOK'
  BY <1>6 DEF WriteMarker
<1>7. ASSUME NEW k \in Pages, PassOn(k) PROVE TypeOK'
  BY <1>7 DEF PassOn, StopInv
<1>8. ASSUME NEW k \in Pages, Disown(k) PROVE TypeOK'
  BY <1>8 DEF Disown, Entry
<1>9. ASSUME NEW k \in Pages, TakeBaton(k) PROVE TypeOK'
  BY <1>9 DEF TakeBaton
<1>10. ASSUME NEW k \in Pages, Retire(k) PROVE TypeOK'
  BY <1>10 DEF Retire, files
<1>11. ASSUME NEW p \in Procs, Rewrite(p) PROVE TypeOK'
  BY <1>11 DEF Rewrite, files
<1>12. ASSUME NEW p \in Procs, Confer(p) PROVE TypeOK'
  <2>1. content' \in [Procs -> {"blank", "good", "bad"}]
    <3>1. content' = [content EXCEPT ![at[p]] = Written(st[p])]
      BY <1>12 DEF Confer
    <3> QED
      BY <3>1, WrittenType
  <2>2. PICK e \in After(st[p]), q \in Pages :
             /\ st' = [st EXCEPT ![p] = e]
             /\ at' = [at EXCEPT ![p] = q]
             /\ valid' \in {valid, valid \cup {q}}
             /\ stale' \in {stale, stale \cup {q}}
    BY <1>12 DEF Confer
  <2>3. e \in States
    BY <2>2, AfterType
  <2>4. pc' \in [Procs -> PC] /\ handedOff' \in BOOLEAN
    BY <1>12 DEF Confer
  <2>5. UNCHANGED <<matched, entry, marker, stale, tainted, endDone, fate>>
    BY <1>12 DEF Confer
  <2>6. valid' \in SUBSET Pages /\ at' \in [Procs -> 0 .. End]
    BY <2>2
  <2>7. st' \in [Procs -> States]
    BY <2>2, <2>3
  <2> QED
    BY <2>1, <2>4, <2>5, <2>6, <2>7
<1>13. ASSUME NEW p \in Procs, Overrule(p) PROVE TypeOK'
  <2>1. content' \in [Procs -> {"blank", "good", "bad"}]
    <3>1. content' = [content EXCEPT ![at[p]] = Written(st[p])]
      BY <1>13 DEF Overrule
    <3> QED
      BY <3>1, WrittenType
  <2>2. PICK e \in After(st[p]), q \in Pages :
             /\ st' = [st EXCEPT ![p] = e]
             /\ at' = [at EXCEPT ![p] = q]
             /\ valid' \in {valid, valid \cup {q}}
             /\ stale' \in {stale, stale \cup {q}}
    BY <1>13 DEF Overrule
  <2>3. e \in States
    BY <2>2, AfterType
  <2> QED
    BY <1>13, <2>1, <2>2, <2>3 DEF Overrule
<1>14. ASSUME NEW p \in Procs, RunOut(p) PROVE TypeOK'
  <2>1. content' \in [Procs -> {"blank", "good", "bad"}]
    <3>1. content' = [content EXCEPT ![at[p]] = Written(st[p])]
      BY <1>14 DEF RunOut
    <3> QED
      BY <3>1, WrittenType
  <2>2. pc' \in [Procs -> PC] /\ endDone' \in BOOLEAN
    BY <1>14 DEF RunOut
  <2>3. at' \in [Procs -> 0 .. End]
    BY <1>14 DEF RunOut
  <2> QED
    BY <1>14, <2>1, <2>2, <2>3 DEF RunOut
<1>15. CASE Assemble
  BY <1>15 DEF Assemble, files
<1>16. CASE UNCHANGED vars
  BY <1>16 DEF vars, files
<1> QED
  BY <1>1, <1>2, <1>3, <1>4, <1>5, <1>6, <1>7, <1>8, <1>9, <1>10, <1>11,
     <1>12, <1>13, <1>14, <1>15, <1>16
     DEF Next, ChunkStep, CarrierStep, Mishap, Over

(* The rest of the invariant is preserved by every step and every mishap.  *)
LEMMA NextBaton == BatonInv /\ [Next]_vars => BatonInv'
<1> SUFFICES ASSUME BatonInv, [Next]_vars PROVE Baton'
  BY NextType DEF BatonInv, Baton
<1> USE NAssumption DEF BatonInv, Baton, TypeOK, Pages, Procs, End,
        VerifierInv, StopInv, CarryInv, FrontierInv, OneCarrier,
        NoVerdictConflict, Holds, Carries, Unheard
<1>1. ASSUME NEW k \in Pages, Wake(k) PROVE Baton'
  BY <1>1 DEF Wake
<1>2. ASSUME NEW k \in Pages, Taint(k) PROVE Baton'
  BY <1>2 DEF Taint
<1>3. ASSUME NEW k \in Pages, Spill(k) PROVE Baton'
  BY <1>3 DEF Spill, files
<1>4. ASSUME NEW k \in Pages, Die(k) PROVE Baton'
  BY <1>4 DEF Die, files
<1>5. ASSUME NEW k \in Pages, ReachStop(k) PROVE Baton'
  <2>1. PICK s \in States, q \in {k + 1, End} :
             /\ at' = [at EXCEPT ![k] = q]
             /\ matched' = [matched EXCEPT ![k] = (Entry(q) = s)]
             /\ Entry(q) = s => q \in Pages
    <3>1. PICK s \in After(st[k]), q \in Reached(st[k], k) :
               /\ at' = [at EXCEPT ![k] = q]
               /\ matched' = [matched EXCEPT ![k] = (Entry(q) = s)]
      BY <1>5 DEF ReachStop
    <3>2. s \in States /\ q \in {k + 1, End}
      BY <3>1, AfterType, ReachedPage
    <3>3. Entry(q) = s => q \in Pages
      BY <3>2, WrongAssumption DEF Entry, NoEntry, States, Truth
    <3> QED
      BY <3>1, <3>2, <3>3
  <2>2. VerifierInv' /\ CarryInv' /\ NoVerdictConflict'
    BY <1>5, <2>1 DEF ReachStop, files
  <2>8. at'[k] = q /\ q > k
    BY <2>1
  <2>9. matched'[k] = (Entry(q) = s)
    BY <2>1, Zenon
  <2>6. at'[k] > k /\ (matched'[k] => at'[k] \in Pages)
    BY <2>1, <2>8, <2>9
  <2>7. \A j \in Pages \ {k} : at'[j] = at[j] /\ matched'[j] = matched[j]
                               /\ pc'[j] = pc[j]
    BY <1>5, <2>1 DEF ReachStop
  <2>3. StopInv'
    BY <2>6, <2>7
  <2>4. FrontierInv'
    BY <1>5, <2>1 DEF ReachStop, files
  <2>5. OneCarrier'
    BY <1>5, <2>1 DEF ReachStop, files
  <2> QED
    BY <2>2, <2>3, <2>4, <2>5 DEF Baton
<1>6. ASSUME NEW k \in Pages, WriteMarker(k) PROVE Baton'
  BY <1>6 DEF WriteMarker
<1>7. ASSUME NEW k \in Pages, PassOn(k) PROVE Baton'
  <2>1. /\ at[k] \in Pages
        /\ \A j \in valid \cup stale : j < at[k]
    BY <1>7 DEF PassOn
  <2>6. VerifierInv' /\ CarryInv'
    BY <1>7, <2>1 DEF PassOn
  <2>7. at[k] \notin valid \cup stale
    BY <2>1
  <2>2. VerifierInv' /\ CarryInv' /\ NoVerdictConflict'
    <3>1. valid' = valid \cup {at[k]} /\ stale' = stale
      BY <1>7 DEF PassOn
    <3>2. NoVerdictConflict'
      BY <3>1, <2>7
    <3> QED
      BY <2>6, <3>2
  <2>3. StopInv'
    BY <1>7, <2>1 DEF PassOn
  <2>4. FrontierInv'
    BY <1>7, <2>1 DEF PassOn
  <2>5. OneCarrier'
    BY <1>7, <2>1 DEF PassOn
  <2> QED
    BY <2>2, <2>3, <2>4, <2>5 DEF Baton
<1>8. ASSUME NEW k \in Pages, Disown(k) PROVE Baton'
  <2>1. /\ at[k] \in Pages
        /\ \A j \in valid \cup stale : j < at[k]
    BY <1>8 DEF Disown, Entry
  <2>6. VerifierInv' /\ CarryInv'
    BY <1>8, <2>1 DEF Disown
  <2>7. at[k] \notin valid \cup stale
    BY <2>1
  <2>2. VerifierInv' /\ CarryInv' /\ NoVerdictConflict'
    BY <1>8, <2>6, <2>7 DEF Disown
  <2>3. StopInv'
    BY <1>8, <2>1 DEF Disown
  <2>4. FrontierInv'
    BY <1>8, <2>1 DEF Disown
  <2>5. OneCarrier'
    BY <1>8, <2>1 DEF Disown
  <2> QED
    BY <2>2, <2>3, <2>4, <2>5 DEF Baton
<1>9. ASSUME NEW k \in Pages, TakeBaton(k) PROVE Baton'
  <2>2. VerifierInv' /\ CarryInv' /\ NoVerdictConflict'
    BY <1>9 DEF TakeBaton
  <2>3. StopInv'
    BY <1>9 DEF TakeBaton
  <2>1. /\ \A p \in Procs \ {k} : pc'[p] = pc[p]
        /\ pc'[k] \in {"carry", "done"}
        /\ at' = at /\ valid' = valid /\ stale' = stale
        /\ \A j \in valid \cup stale : j <= at[k]
    BY <1>9 DEF TakeBaton
  <2>6. \A p \in Procs : Carries(p)' => \A j \in valid' \cup stale' : j <= at'[p]
    BY <2>1
  <2>7. \A p \in valid' : Unheard(p)' => \A j \in valid' \cup stale' : j <= p
    BY <2>1
  <2>4. FrontierInv'
    BY <2>6, <2>7
  <2>5. OneCarrier'
    BY <1>9 DEF TakeBaton
  <2> QED
    BY <2>2, <2>3, <2>4, <2>5 DEF Baton
<1>10. ASSUME NEW k \in Pages, Retire(k) PROVE Baton'
  BY <1>10 DEF Retire, files
<1>11. ASSUME NEW p \in Procs, Rewrite(p) PROVE Baton'
  BY <1>11 DEF Rewrite, files
<1>12. ASSUME NEW p \in Procs, Confer(p) PROVE Baton'
  <2>1. PICK q \in Reached(st[p], at[p]) :
             /\ q \in Pages
             /\ at' = [at EXCEPT ![p] = q]
             /\ valid' = valid \cup {q}
    BY <1>12 DEF Confer
  <2>6. q = at[p] + 1
    BY <2>1, ReachedPage
  <2>2. VerifierInv' /\ CarryInv' /\ NoVerdictConflict'
    BY <1>12, <2>1, <2>6 DEF Confer
  <2>3. StopInv'
    BY <1>12, <2>1, <2>6 DEF Confer
  <2>4. FrontierInv'
    BY <1>12, <2>1, <2>6 DEF Confer
  <2>5. OneCarrier'
    BY <1>12, <2>1, <2>6 DEF Confer
  <2> QED
    BY <2>2, <2>3, <2>4, <2>5 DEF Baton
<1>13. ASSUME NEW p \in Procs, Overrule(p) PROVE Baton'
  <2>1. PICK q \in Reached(st[p], at[p]) :
             /\ q \in Pages
             /\ at' = [at EXCEPT ![p] = q]
             /\ stale' = stale \cup {q}
    BY <1>13 DEF Overrule
  <2>6. q = at[p] + 1
    BY <2>1, ReachedPage
  <2>2. VerifierInv' /\ CarryInv' /\ NoVerdictConflict'
    BY <1>13, <2>1, <2>6 DEF Overrule
  <2>3. StopInv'
    BY <1>13, <2>1, <2>6 DEF Overrule
  <2>4. FrontierInv'
    BY <1>13, <2>1, <2>6 DEF Overrule
  <2>5. OneCarrier'
    BY <1>13, <2>1, <2>6 DEF Overrule
  <2> QED
    BY <2>2, <2>3, <2>4, <2>5 DEF Baton
<1>14. ASSUME NEW p \in Procs, RunOut(p) PROVE Baton'
  <2>2. VerifierInv' /\ CarryInv' /\ NoVerdictConflict'
    BY <1>14 DEF RunOut
  <2>3. StopInv'
    BY <1>14 DEF RunOut
  <2>4. FrontierInv'
    BY <1>14 DEF RunOut
  <2>5. OneCarrier'
    BY <1>14 DEF RunOut
  <2> QED
    BY <2>2, <2>3, <2>4, <2>5 DEF Baton
<1>15. CASE Assemble
  BY <1>15 DEF Assemble, files
<1>16. CASE UNCHANGED vars
  BY <1>16 DEF vars, files
<1> QED
  BY <1>1, <1>2, <1>3, <1>4, <1>5, <1>6, <1>7, <1>8, <1>9, <1>10, <1>11,
     <1>12, <1>13, <1>14, <1>15, <1>16
     DEF Next, ChunkStep, CarrierStep, Mishap, Over

(* The baton's invariant holds of every round.                             *)
THEOREM BatonInvariant == Spec => []BatonInv
  BY InitBaton, NextBaton, PTL DEF Spec

(* Type correctness of the relay, for any number of parked pages.          *)
THEOREM TypeCorrect == Spec => []TypeOK
<1>1. BatonInv => TypeOK
  BY DEF BatonInv, Baton
<1> QED
  BY <1>1, BatonInvariant, PTL

(* At most one process carries the truth at any moment, whatever mishaps   *)
(* the round meets: the comment's "exactly one carrier", less the rounds   *)
(* whose carrier has died.                                                 *)
THEOREM AtMostOneCarrier == Spec => []OneCarrier
<1>1. BatonInv => OneCarrier
  BY DEF BatonInv, Baton
<1> QED
  BY <1>1, BatonInvariant, PTL

(* No parked page is ever given both verdicts, whatever mishaps there are. *)
THEOREM NeverBothVerdicts == Spec => []NoVerdictConflict
<1>1. BatonInv => NoVerdictConflict
  BY DEF BatonInv, Baton
<1> QED
  BY <1>1, BatonInvariant, PTL

-----------------------------------------------------------------------------
(* One writer to a region, in rounds in which no chunk wakes late.          *)

\* Whoever is off its pipe and alive has written its entry, and a marker
\* says that its chunk has stopped.
FilesInv ==
    /\ \A k \in Pages : pc[k] \notin {"parked", "dead"} => entry[k] # NoEntry
    /\ \A k \in marker : pc[k] \notin {"parked", "write", "marking"}

\* A chunk that stops at a page finds its chunk awake, and a carrier finds
\* the chunk of the region it rewrites no longer writing.
OnTimeInv ==
    /\ \A k \in Pages : pc[k] \in {"marking", "waiting"} /\ at[k] \in Pages
                        => pc[at[k]] # "parked"
    /\ \A p \in Procs : pc[p] = "carry" /\ at[p] \in Pages
                        => pc[at[p]] \notin {"parked", "write", "marking"}

WritersInv == FilesInv /\ ("late" \notin mishaps => OnTimeInv)

(* Initially no chunk is off its pipe.                                      *)
LEMMA InitWriters == Init => WritersInv
  BY NAssumption DEF Init, WritersInv, FilesInv, OnTimeInv, Pages, Procs

(* Every step preserves it.                                                 *)
LEMMA NextWriters == BatonInv /\ WritersInv /\ [Next]_vars => WritersInv'
<1> SUFFICES ASSUME BatonInv, WritersInv, [Next]_vars PROVE WritersInv'
  OBVIOUS
<1> USE NAssumption, WrongAssumption
    DEF BatonInv, TypeOK, WritersInv, FilesInv, OnTimeInv, Pages, Procs, End,
        fate
<1>1. ASSUME NEW k \in Pages, Wake(k) PROVE WritersInv'
  BY <1>1 DEF Wake, States, Truth, NoEntry
<1>2. ASSUME NEW k \in Pages, Taint(k) PROVE WritersInv'
  BY <1>2 DEF Taint
<1>3. ASSUME NEW k \in Pages, Spill(k) PROVE WritersInv'
  BY <1>3 DEF Spill, files
<1>4. ASSUME NEW k \in Pages, Die(k) PROVE WritersInv'
  BY <1>4 DEF Die, files
<1>5. ASSUME NEW k \in Pages, ReachStop(k) PROVE WritersInv'
  <2>1. PICK q \in Reached(st[k], k) : at' = [at EXCEPT ![k] = q]
    BY <1>5 DEF ReachStop
  <2>2. q \in Pages => q = k + 1
    BY <2>1, ReachedPage
  <2>3. FilesInv'
    BY <1>5 DEF ReachStop, files
  <2>4. ASSUME "late" \notin mishaps' PROVE OnTimeInv'
    <3>1. "late" \notin mishaps /\ Woken(k + 1)
      BY <1>5, <2>4 DEF ReachStop
    <3> QED
      BY <1>5, <2>1, <2>2, <3>1 DEF ReachStop, Woken
  <2> QED
    BY <2>3, <2>4
<1>6. ASSUME NEW k \in Pages, WriteMarker(k) PROVE WritersInv'
  BY <1>6 DEF WriteMarker
<1>7. ASSUME NEW k \in Pages, PassOn(k) PROVE WritersInv'
  BY <1>7 DEF PassOn
<1>8. ASSUME NEW k \in Pages, Disown(k) PROVE WritersInv'
  BY <1>8 DEF Disown
<1>9. ASSUME NEW k \in Pages, TakeBaton(k) PROVE WritersInv'
  <2>1. at[k] \in 0 .. End /\ at[k] > k
    BY <1>9 DEF TakeBaton, Baton, StopInv
  <2>2. UNCHANGED <<at, entry, marker, fate>>
    BY <1>9 DEF TakeBaton
  <2>3. CASE at[k] = End
    <3>1. pc' = [pc EXCEPT ![k] = "done"]
      BY <1>9, <2>3 DEF TakeBaton
    <3>2. FilesInv'
      BY <1>9, <2>2, <3>1 DEF TakeBaton
    <3>3. OnTimeInv => OnTimeInv'
      BY <2>2, <3>1
    <3> QED
      BY <2>2, <3>2, <3>3
  <2>4. CASE at[k] # End
    <3>1. pc' = [pc EXCEPT ![k] = "carry"]
      BY <1>9, <2>4 DEF TakeBaton
    <3>2. at[k] \in Pages /\ at[k] # k /\ entry[at[k]] = NoEntry
      BY <1>9, <2>1, <2>4 DEF TakeBaton, Entry
    <3>3. FilesInv'
      BY <1>9, <2>2, <3>1 DEF TakeBaton
    <3>4. OnTimeInv => pc[at[k]] = "dead"
      BY <1>9, <3>2 DEF TakeBaton
    <3>5. OnTimeInv => OnTimeInv'
      BY <2>2, <3>1, <3>2, <3>4
    <3> QED
      BY <2>2, <3>3, <3>5
  <2> QED
    BY <2>3, <2>4
<1>10. ASSUME NEW k \in Pages, Retire(k) PROVE WritersInv'
  BY <1>10 DEF Retire, files
<1>11. ASSUME NEW p \in Procs, Rewrite(p) PROVE WritersInv'
  BY <1>11 DEF Rewrite, files
<1>12. ASSUME NEW p \in Procs, Confer(p) PROVE WritersInv'
  BY <1>12 DEF Confer
<1>13. ASSUME NEW p \in Procs, Overrule(p) PROVE WritersInv'
  BY <1>13 DEF Overrule
<1>14. ASSUME NEW p \in Procs, RunOut(p) PROVE WritersInv'
  BY <1>14 DEF RunOut
<1>15. CASE Assemble
  BY <1>15 DEF Assemble, files
<1>16. CASE UNCHANGED vars
  BY <1>16 DEF vars, files
<1> QED
  BY <1>1, <1>2, <1>3, <1>4, <1>5, <1>6, <1>7, <1>8, <1>9, <1>10, <1>11,
     <1>12, <1>13, <1>14, <1>15, <1>16
     DEF Next, ChunkStep, CarrierStep, Mishap, Over

(* No two processes write one region of the shared file at once, in any     *)
(* round in which no chunk wakes late, whatever else goes wrong in it.      *)
THEOREM OneWriterUnlessLate == Spec => []SingleWriterUnlessLate
<1>1. BatonInv /\ WritersInv => SingleWriterUnlessLate
  BY DEF BatonInv, Baton, VerifierInv, Unheard, OneCarrier, Holds,
         WritersInv, OnTimeInv, SingleWriterUnlessLate, SingleWriter, Writes,
         TypeOK, Pages, Procs
<1>2. Spec => []WritersInv
  BY BatonInvariant, InitWriters, NextWriters, PTL DEF Spec
<1> QED
  BY <1>1, <1>2, BatonInvariant, PTL

-----------------------------------------------------------------------------
(* The truth of the text. *)

\* Nobody read a waived name too soon or wrote outside its region.
Unhurt == mishaps \cap {"taint", "spill"} = {}

-----------------------------------------------------------------------------
(* What holds whatever the mishaps. *)

\* A page is valid only when the verifier has handed over, and when the end
\* is done nobody holds the truth any more.
HandInv ==
    /\ valid # {} => handedOff
    /\ endDone => \A p \in Procs : ~Holds(p)

\* The verifier cannot be hurt: it carries the truth from region 0 on.
FirstRegionInv ==
    /\ pc[0] \in {"carry", "await", "finalize", "assembled"}
    /\ Carries(0) => st[0] = Truth
    /\ at[0] # 0 => content[0] = "good"
    /\ ~Carries(0) => at[0] # 0

\* What the verifier waited for stays so.
AssembledInv ==
    pc[0] = "assembled" =>
        /\ Pages \subseteq valid \cup stale
        /\ Pages \subseteq marker
        /\ N \in stale /\ handedOff => endDone

PlainInv == HandInv /\ FirstRegionInv /\ AssembledInv

(* Initially the verifier is in region 0 and no page has a verdict.         *)
LEMMA InitPlain == Init => PlainInv
  BY NAssumption DEF Init, PlainInv, HandInv, FirstRegionInv, AssembledInv,
     Procs, Holds, Carries

(* A run in the true state, and where it comes to.                          *)
LEMMA TrueStep ==
    ASSUME NEW r \in Procs, last \in Procs
    PROVE  /\ After(Truth) = {Truth}
           /\ Reached(Truth, r) = {IF r = last THEN End ELSE r + 1}
           /\ Written(Truth) = "good"
  BY DEF After, Reached, Written

(* A carrier other than the verifier is past region 0.                      *)
LEMMA CarrierPastFirst ==
    ASSUME BatonInv, NEW p \in Procs, Carries(p), p # 0
    PROVE  p \in valid /\ at[p] \in 1 .. End
  BY NAssumption DEF BatonInv, Baton, CarryInv, FrontierInv, TypeOK, Pages,
     Procs, End

(* Every step preserves it.                                                 *)
LEMMA NextPlain ==
    BatonInv /\ BatonInv' /\ PlainInv /\ [Next]_vars => PlainInv'
<1> SUFFICES ASSUME BatonInv, BatonInv', PlainInv, [Next]_vars
             PROVE  PlainInv'
  OBVIOUS
<1>t. TypeOK /\ OneCarrier /\ NoVerdictConflict' /\ CarryInv
  BY DEF BatonInv, Baton
<1> USE NAssumption, <1>t
    DEF TypeOK, PlainInv, HandInv, FirstRegionInv, AssembledInv, OneCarrier,
        NoVerdictConflict, Holds, Carries, CarryInv, Pages, Procs, End, fate
<1>1. ASSUME NEW k \in Pages, Wake(k) PROVE PlainInv'
  BY <1>1 DEF Wake
<1>2. ASSUME NEW k \in Pages, Taint(k) PROVE PlainInv'
  BY <1>2 DEF Taint
<1>3. ASSUME NEW k \in Pages, Spill(k) PROVE PlainInv'
  BY <1>3 DEF Spill, files
<1>4. ASSUME NEW k \in Pages, Die(k) PROVE PlainInv'
  BY <1>4 DEF Die, files
<1>5. ASSUME NEW k \in Pages, ReachStop(k) PROVE PlainInv'
  BY <1>5 DEF ReachStop, files
<1>6. ASSUME NEW k \in Pages, WriteMarker(k) PROVE PlainInv'
  BY <1>6 DEF WriteMarker
<1>7. ASSUME NEW k \in Pages, PassOn(k) PROVE PlainInv'
  BY <1>7 DEF PassOn
<1>8. ASSUME NEW k \in Pages, Disown(k) PROVE PlainInv'
  BY <1>8 DEF Disown
<1>9. ASSUME NEW k \in Pages, TakeBaton(k) PROVE PlainInv'
  BY <1>9 DEF TakeBaton
<1>10. ASSUME NEW k \in Pages, Retire(k) PROVE PlainInv'
  BY <1>10 DEF Retire, files
<1>11. ASSUME NEW p \in Procs, Rewrite(p) PROVE PlainInv'
  BY <1>11 DEF Rewrite, files
<1>12. ASSUME NEW p \in Procs, Confer(p) PROVE PlainInv'
  BY <1>12, TrueStep, ReachedPage, CarrierPastFirst DEF Confer
<1>13. ASSUME NEW p \in Procs, Overrule(p) PROVE PlainInv'
  BY <1>13, TrueStep, ReachedPage, CarrierPastFirst DEF Overrule
<1>14. ASSUME NEW p \in Procs, RunOut(p) PROVE PlainInv'
  <2>1. Written(Truth) = "good"
    BY TrueStep
  <2>2. HandInv'
    BY <1>14 DEF RunOut
  <2>3. AssembledInv'
    BY <1>14 DEF RunOut
  <2>4. CASE p = 0
    BY <1>14, <2>1, <2>2, <2>3, <2>4 DEF RunOut
  <2>5. CASE p # 0
    <3>1. at[p] # 0
      BY <1>14, <2>5, CarrierPastFirst DEF RunOut
    <3>2. at'[0] = at[0] /\ content'[0] = content[0] /\ st' = st
          /\ pc'[0] = pc[0]
      BY <1>14, <2>5, <3>1 DEF RunOut
    <3>3. FirstRegionInv'
      BY <3>2
    <3> QED
      BY <2>2, <2>3, <3>3
  <2> QED
    BY <2>4, <2>5
<1>15. CASE Assemble
  BY <1>15 DEF Assemble, files
<1>16. CASE UNCHANGED vars
  BY <1>16 DEF vars, files
<1> QED
  BY <1>1, <1>2, <1>3, <1>4, <1>5, <1>6, <1>7, <1>8, <1>9, <1>10, <1>11,
     <1>12, <1>13, <1>14, <1>15, <1>16
     DEF Next, ChunkStep, CarrierStep, Mishap, Over

-----------------------------------------------------------------------------
(* What holds while nobody is hurt. *)

\* A chunk that wrote the true state as its entry began as the true run did,
\* inside it; and ends as it does, having written what it writes.
ChunkTruth(k) ==
    /\ pc[k] = "parked" => entry[k] = NoEntry
    /\ entry[k] = Truth =>
          /\ k <= last
          /\ pc[k] = "write" => st[k] = Truth
          /\ k \in marker \/ pc[k] \in {"marking", "waiting"}
                => content[k] = "good"
          /\ pc[k] \in {"marking", "waiting"} =>
                /\ st[k] = Truth
                /\ at[k] = IF k = last THEN End ELSE k + 1
                /\ matched[k] => Entry(at[k]) = Truth

\* Only a chunk that began as the true run did is found valid.
ValidTruth == \A k \in valid : entry[k] = Truth

\* A carrier is in the true state, inside the true run.
CarrierTruth == \A p \in Procs : Carries(p) => st[p] = Truth /\ at[p] <= last

\* The carrier is in region r, or on its way to rewrite it.
AtWork(r) ==
    \E p \in Procs : Carries(p) /\ at[p] = r /\ (pc[p] = "carry" => r \in marker)

\* The carrier died over region r, the last one judged.
Abandoned(r) ==
    /\ \A p \in Procs : ~Holds(p)
    /\ \A q \in valid \cup stale : q <= r
    /\ ~endDone /\ handedOff

\* A stale region has been rewritten, or is being, or will never be.
StaleTruth ==
    \A r \in stale : (r \in marker /\ content[r] = "good") \/ AtWork(r)
                     \/ Abandoned(r)

ChunksTruth == \A k \in Pages : ChunkTruth(k)

TruthInv == ChunksTruth /\ ValidTruth /\ CarrierTruth /\ StaleTruth

(* Initially no chunk has an entry and no page a verdict.                   *)
LEMMA InitTruth == Init => TruthInv
  BY NAssumption, WrongAssumption
     DEF Init, TruthInv, ChunksTruth, ChunkTruth, ValidTruth, CarrierTruth,
         StaleTruth, Carries, Pages, Procs, Truth, NoEntry

(* A step keeps what is stale as it is explained, when no marker is taken   *)
(* back, no good region spoilt, and the carrier stays where it was.         *)
LEMMA StaleKept ==
    ASSUME StaleTruth, stale' \subseteq stale, marker \subseteq marker',
           \A r \in marker : content[r] = "good" => content'[r] = "good",
           \A p \in Procs : Carries(p) => /\ pc'[p] = pc[p] /\ at'[p] = at[p],
           (\A p \in Procs : ~Holds(p)) =>
               /\ \A p \in Procs : ~Holds(p)'
               /\ valid' \subseteq valid /\ endDone' = endDone
               /\ handedOff' = handedOff
    PROVE  StaleTruth'
<1> SUFFICES ASSUME NEW r \in stale'
             PROVE  \/ r \in marker' /\ content'[r] = "good"
                    \/ AtWork(r)' \/ Abandoned(r)'
  BY DEF StaleTruth
<1>1. CASE r \in marker /\ content[r] = "good"
  BY <1>1
<1>2. CASE AtWork(r)
  BY <1>2 DEF AtWork, Carries
<1>3. CASE Abandoned(r)
  BY <1>3 DEF Abandoned
<1> QED
  BY <1>1, <1>2, <1>3 DEF StaleTruth

(* What a chunk does, on its pipe, in its region or at its end, keeps it.   *)
LEMMA ChunkKeepsTruth ==
    ASSUME BatonInv, WritersInv, PlainInv, TruthInv, Unhurt',
           NEW k \in Pages, ChunkStep(k) \/ Mishap(k)
    PROVE  TruthInv'
<1>t. /\ TypeOK /\ OneCarrier /\ FrontierInv /\ StopInv /\ FilesInv /\ HandInv
      /\ ChunksTruth /\ ValidTruth /\ CarrierTruth /\ StaleTruth
  BY DEF BatonInv, Baton, WritersInv, PlainInv, TruthInv
<1>u. k \in 1 .. N /\ k \in 0 .. N /\ k # 0 /\ last \in 0 .. N /\ N \in Nat
  BY <1>t, NAssumption DEF TypeOK, Pages, Procs
<1>n. Truth # NoEntry
  BY WrongAssumption DEF Truth, NoEntry
<1> USE <1>t, <1>u, <1>n DEF TypeOK, Pages, Procs, End, fate
<1>1. CASE Wake(k)
  <2>1. PICK s \in States :
             /\ s = Truth => k <= last
             /\ st' = [st EXCEPT ![k] = s]
             /\ entry' = [entry EXCEPT ![k] = s]
    BY <1>1, WrongAssumption DEF Wake, States, Truth
  <2>2. /\ pc[k] = "parked" /\ pc' = [pc EXCEPT ![k] = "write"]
        /\ UNCHANGED <<at, matched, marker, valid, stale, endDone, handedOff,
                       content, last>>
    BY <1>1 DEF Wake
  <2>3. entry[k] = NoEntry /\ k \notin valid /\ k \notin marker
    BY <2>2 DEF ChunksTruth, ChunkTruth, ValidTruth, FilesInv
  <2>4. ChunksTruth'
    BY <2>1, <2>2, <2>3 DEF ChunksTruth, ChunkTruth, Entry
  <2>5. ValidTruth' /\ CarrierTruth'
    BY <2>1, <2>2, <2>3 DEF ValidTruth, CarrierTruth, Carries
  <2>6. StaleTruth'
    BY <2>2, <2>3, StaleKept DEF Holds, Carries
  <2> QED
    BY <2>4, <2>5, <2>6 DEF TruthInv
<1>2. CASE Taint(k)
  BY <1>2 DEF Taint, Unhurt
<1>3. CASE Spill(k)
  BY <1>3 DEF Spill, Unhurt
<1>4. CASE Die(k)
  <2>1. pc' = [pc EXCEPT ![k] = "dead"] /\ (Unheard(k) \/ Carries(k))
    BY <1>4 DEF Die, Unheard, Carries
  <2>2. /\ pc' = [pc EXCEPT ![k] = "dead"]
        /\ UNCHANGED <<at, st, matched, entry, marker, valid, stale, endDone,
                       handedOff, content, last>>
    BY <1>4 DEF Die, files
  <2>3. ChunksTruth' /\ ValidTruth' /\ CarrierTruth'
    BY <2>2 DEF ChunksTruth, ChunkTruth, ValidTruth, CarrierTruth, Carries,
                Entry
  <2>4. ASSUME NEW r \in stale
        PROVE  (r \in marker /\ content[r] = "good") \/ AtWork(r)'
               \/ Abandoned(r)'
    <3>1. CASE r \in marker /\ content[r] = "good"
      BY <3>1
    <3>2. CASE AtWork(r)
      <4>1. PICK p \in Procs : /\ Carries(p) /\ at[p] = r
                               /\ pc[p] = "carry" => r \in marker
        BY <3>2 DEF AtWork
      <4>2. CASE p # k
        BY <2>2, <4>1, <4>2 DEF AtWork, Carries
      <4>3. CASE p = k
        <5>1. \A q \in Procs : Holds(q) => q = k
          BY <4>1, <4>3 DEF OneCarrier, Holds, Carries
        <5>2. \A q \in Procs : ~Holds(q)'
          BY <2>2, <5>1 DEF Holds
        <5>3. Holds(k) /\ k \in valid
          BY <4>1, <4>3 DEF BatonInv, Baton, CarryInv, Holds, Carries
        <5>4. ~endDone /\ handedOff
          BY <5>3 DEF HandInv
        <5>5. \A q \in valid \cup stale : q <= r
          BY <4>1, <4>3 DEF FrontierInv
        <5> QED
          BY <2>2, <5>2, <5>4, <5>5 DEF Abandoned
      <4> QED
        BY <4>2, <4>3
    <3>3. CASE Abandoned(r)
      BY <2>2, <3>3 DEF Abandoned, Holds
    <3> QED
      BY <3>1, <3>2, <3>3 DEF StaleTruth
  <2> QED
    BY <2>2, <2>3, <2>4 DEF TruthInv, StaleTruth
<1>5. CASE ReachStop(k)
  <2>1. PICK s \in After(st[k]), q \in Reached(st[k], k) :
             /\ st' = [st EXCEPT ![k] = s]
             /\ at' = [at EXCEPT ![k] = q]
             /\ matched' = [matched EXCEPT ![k] = (Entry(q) = s)]
    BY <1>5 DEF ReachStop
  <2>2. /\ pc[k] = "write" /\ pc' = [pc EXCEPT ![k] = "marking"]
        /\ content' = [content EXCEPT ![k] = Written(st[k])]
        /\ UNCHANGED <<entry, marker, valid, stale, endDone, handedOff, last>>
    BY <1>5 DEF ReachStop, files
  <2>3. k \notin marker
    BY <2>2 DEF FilesInv
  <2>4. ASSUME entry[k] = Truth PROVE ChunkTruth(k)'
    <3>1. st[k] = Truth /\ k <= last
      BY <2>2, <2>4 DEF ChunksTruth, ChunkTruth
    <3>2. s = Truth /\ q = (IF k = last THEN End ELSE k + 1)
          /\ Written(st[k]) = "good"
      BY <2>1, <3>1, TrueStep
    <3>3. content'[k] = "good" /\ st'[k] = Truth /\ at'[k] = q
      BY <2>1, <2>2, <3>2
    <3>4. matched'[k] => Entry(q) = Truth
      <4>1. matched'[k] = (Entry(q) = s)
        BY <2>1, Zenon
      <4> QED
        BY <4>1, <3>2
    <3>5. Entry(at[k])' = Entry(q)
      BY <2>2, <3>3 DEF Entry
    <3> QED
      BY <2>2, <3>1, <3>2, <3>3, <3>4, <3>5 DEF ChunkTruth
  <2>5. ASSUME NEW j \in Pages \ {k} PROVE ChunkTruth(j)'
    <3>1. /\ pc'[j] = pc[j] /\ st'[j] = st[j] /\ at'[j] = at[j]
          /\ matched'[j] = matched[j] /\ content'[j] = content[j]
      BY <2>1, <2>2
    <3> QED
      BY <2>2, <3>1 DEF ChunksTruth, ChunkTruth, Entry
  <2>6. ChunksTruth'
    BY <2>2, <2>4, <2>5 DEF ChunksTruth, ChunkTruth
  <2>7. ValidTruth' /\ CarrierTruth'
    BY <2>1, <2>2 DEF ValidTruth, CarrierTruth, Carries
  <2>8. StaleTruth'
    BY <2>1, <2>2, <2>3, StaleKept DEF Holds, Carries
  <2> QED
    BY <2>6, <2>7, <2>8 DEF TruthInv
<1>6. CASE WriteMarker(k)
  <2>1. ChunksTruth' /\ ValidTruth' /\ CarrierTruth'
    BY <1>6 DEF WriteMarker, ChunksTruth, ChunkTruth, ValidTruth,
               CarrierTruth, Carries, Entry
  <2>2. StaleTruth'
    BY <1>6, StaleKept DEF WriteMarker, Holds, Carries
  <2> QED
    BY <2>1, <2>2 DEF TruthInv
<1>7. CASE PassOn(k)
  <2>1. /\ k \in valid /\ pc[k] = "waiting" /\ matched[k]
        /\ valid' = valid \cup {at[k]} /\ pc' = [pc EXCEPT ![k] = "done"]
        /\ UNCHANGED <<at, st, matched, entry, marker, stale, endDone,
                       handedOff, content, last>>
    BY <1>7 DEF PassOn
  <2>2. Entry(at[k]) = Truth
    BY <2>1 DEF ValidTruth, ChunksTruth, ChunkTruth
  <2>3. entry[at[k]] = Truth
    BY <2>2 DEF Entry
  <2>4. ChunksTruth' /\ ValidTruth' /\ CarrierTruth'
    BY <2>1, <2>3 DEF ChunksTruth, ChunkTruth, ValidTruth, CarrierTruth,
                      Carries, Entry
  <2>5. Holds(k)
    BY <2>1 DEF Holds
  <2>6. StaleTruth'
    BY <2>1, <2>5, StaleKept DEF Carries
  <2> QED
    BY <2>4, <2>6 DEF TruthInv
<1>8. CASE Disown(k)
  <2>1. /\ k \in valid /\ pc[k] = "waiting" /\ Entry(at[k]) # NoEntry
        /\ stale' = stale \cup {at[k]} /\ pc' = [pc EXCEPT ![k] = "await"]
        /\ UNCHANGED <<at, st, matched, entry, marker, valid, endDone,
                       handedOff, content, last>>
    BY <1>8 DEF Disown
  <2>2. at[k] \in Pages
    BY <2>1 DEF Entry
  <2>3. st[k] = Truth /\ at[k] <= last
    BY <2>1, <2>2 DEF ValidTruth, ChunksTruth, ChunkTruth
  <2>4. ChunksTruth' /\ ValidTruth' /\ CarrierTruth'
    BY <2>1, <2>3 DEF ChunksTruth, ChunkTruth, ValidTruth, CarrierTruth,
                      Carries, Entry
  <2>5. Holds(k)
    BY <2>1 DEF Holds
  <2>6. ASSUME NEW r \in stale'
        PROVE  (r \in marker /\ content[r] = "good") \/ AtWork(r)'
    <3>1. CASE r = at[k]
      BY <2>1, <3>1 DEF AtWork, Carries
    <3>2. CASE r \in stale
      BY <2>1, <2>5, <3>2 DEF StaleTruth, AtWork, Abandoned, Carries
    <3> QED
      BY <2>1, <3>1, <3>2
  <2> QED
    BY <2>1, <2>4, <2>6 DEF TruthInv, StaleTruth
<1>9. CASE TakeBaton(k)
  <2>1. /\ k \in valid /\ pc[k] = "waiting"
        /\ \/ pc' = [pc EXCEPT ![k] = "done"]
           \/ at[k] # End /\ pc' = [pc EXCEPT ![k] = "carry"]
        /\ UNCHANGED <<at, st, matched, entry, marker, valid, stale,
                       handedOff, content, last>>
    BY <1>9 DEF TakeBaton
  <2>2. st[k] = Truth /\ (at[k] # End => at[k] <= last)
    BY <2>1 DEF ValidTruth, ChunksTruth, ChunkTruth
  <2>4. ChunksTruth' /\ ValidTruth' /\ CarrierTruth'
    BY <2>1, <2>2 DEF ChunksTruth, ChunkTruth, ValidTruth, CarrierTruth,
                      Carries, Entry
  <2>5. Holds(k)
    BY <2>1 DEF Holds
  <2>6. StaleTruth'
    BY <2>1, <2>5, StaleKept DEF Carries
  <2> QED
    BY <2>4, <2>6 DEF TruthInv
<1>10. CASE Retire(k)
  <2>1. ChunksTruth' /\ ValidTruth' /\ CarrierTruth'
    BY <1>10 DEF Retire, files, ChunksTruth, ChunkTruth, ValidTruth,
               CarrierTruth, Carries, Entry
  <2>2. StaleTruth'
    BY <1>10, StaleKept DEF Retire, files, Holds, Carries
  <2> QED
    BY <2>1, <2>2 DEF TruthInv
<1> QED
  BY <1>1, <1>2, <1>3, <1>4, <1>5, <1>6, <1>7, <1>8, <1>9, <1>10
     DEF ChunkStep, Mishap

(* What the carrier does keeps it: it is in the true state, so what it      *)
(* writes is right, and where it comes to is where the true run comes to.   *)
LEMMA CarrierKeepsTruth ==
    ASSUME BatonInv, WritersInv, PlainInv, TruthInv, Unhurt',
           NEW p \in Procs, CarrierStep(p)
    PROVE  TruthInv'
<1>t. /\ TypeOK /\ OneCarrier /\ FrontierInv /\ FilesInv /\ HandInv
      /\ ChunksTruth /\ ValidTruth /\ CarrierTruth /\ StaleTruth
  BY DEF BatonInv, Baton, WritersInv, PlainInv, TruthInv
<1>u. last \in 0 .. N /\ N \in Nat
  BY <1>t, NAssumption DEF TypeOK, Pages, Procs
<1>c. /\ Carries(p) /\ st[p] = Truth /\ at[p] <= last /\ at[p] \in Procs
      /\ Holds(p)
      /\ \A q \in Procs : Holds(q) => q = p
  <2>1. Carries(p)
    BY DEF CarrierStep, Rewrite, Confer, Overrule, RunOut, Carries
  <2>2. st[p] = Truth /\ at[p] <= last
    BY <2>1, <1>t DEF CarrierTruth
  <2>3. at[p] \in Procs
    BY <2>2, <1>t, <1>u DEF TypeOK, Procs, End
  <2>4. Holds(p)
    BY <2>1 DEF Carries, Holds
  <2>5. \A q \in Procs : Holds(q) => q = p
    BY <2>4, <1>t DEF OneCarrier
  <2> QED
    BY <2>1, <2>2, <2>3, <2>4, <2>5
<1>n. Truth # NoEntry /\ Written(st[p]) = "good" /\ After(st[p]) = {Truth}
      /\ Reached(st[p], at[p]) = {IF at[p] = last THEN End ELSE at[p] + 1}
  BY <1>c, <1>t, TrueStep, WrongAssumption DEF Truth, NoEntry, TypeOK
<1>s. \A r \in stale : \/ r \in marker /\ content[r] = "good"
                       \/ r = at[p] /\ (pc[p] = "carry" => r \in marker)
  BY <1>c, <1>t DEF StaleTruth, AtWork, Abandoned, Holds, Carries
<1> USE <1>t, <1>u, <1>c DEF TypeOK, Pages, Procs, End, fate
<1>1. CASE Rewrite(p)
  <2>1. /\ pc' = [pc EXCEPT ![p] = "carry"] /\ at[p] \in marker
        /\ pc[p] = "await"
        /\ UNCHANGED <<at, st, matched, entry, marker, valid, stale, endDone,
                       handedOff, content, last>>
    BY <1>1 DEF Rewrite, files
  <2>2. ChunksTruth' /\ ValidTruth' /\ CarrierTruth'
    BY <2>1 DEF ChunksTruth, ChunkTruth, ValidTruth, CarrierTruth, Carries,
                Entry
  <2>3. StaleTruth'
    BY <2>1, <1>s DEF StaleTruth, AtWork, Carries
  <2> QED
    BY <2>2, <2>3 DEF TruthInv
<1>2. CASE Confer(p)
  <2>1. PICK q \in Pages :
             /\ q = at[p] + 1 /\ q <= last /\ entry[q] = Truth
             /\ st' = [st EXCEPT ![p] = Truth]
             /\ at' = [at EXCEPT ![p] = q]
             /\ valid' = valid \cup {q}
    <3>1. PICK s \in After(st[p]), q \in Reached(st[p], at[p]) :
               /\ q \in Pages /\ entry[q] = s
               /\ st' = [st EXCEPT ![p] = s]
               /\ at' = [at EXCEPT ![p] = q]
               /\ valid' = valid \cup {q}
      BY <1>2 DEF Confer
    <3>2. s = Truth /\ q = at[p] + 1 /\ at[p] # last
      BY <3>1, <1>n
    <3>3. q <= last
      BY <3>2
    <3>4. q \in Pages /\ entry[q] = Truth /\ st' = [st EXCEPT ![p] = Truth]
      BY <3>1, <3>2
    <3> QED
      BY <3>1, <3>2, <3>3, <3>4
  <2>2. /\ content' = [content EXCEPT ![at[p]] = "good"]
        /\ pc[p] = "carry"
        /\ pc' = [pc EXCEPT ![p] = IF p = 0 THEN "finalize" ELSE "done"]
        /\ UNCHANGED <<matched, entry, marker, stale, endDone, last>>
    BY <1>2, <1>n DEF Confer
  <2>3. ASSUME NEW j \in Pages PROVE ChunkTruth(j)'
    <3>1. content[j] = "good" => content'[j] = "good"
      BY <2>2
    <3>2. CASE j = p
      BY <2>1, <2>2, <3>1, <3>2 DEF ChunksTruth, ChunkTruth, Carries
    <3>3. CASE j # p
      <4>1. pc'[j] = pc[j] /\ st'[j] = st[j] /\ at'[j] = at[j]
        BY <2>1, <2>2, <3>3
      <4> QED
        BY <2>2, <3>1, <4>1 DEF ChunksTruth, ChunkTruth, Entry
    <3> QED
      BY <3>2, <3>3
  <2>4. ValidTruth'
    BY <2>1, <2>2 DEF ValidTruth
  <2>5. CarrierTruth'
    BY <2>1, <2>2 DEF CarrierTruth, Carries
  <2>6. StaleTruth'
    BY <2>2, <1>s DEF StaleTruth
  <2> QED
    BY <2>3, <2>4, <2>5, <2>6 DEF TruthInv, ChunksTruth
<1>3. CASE Overrule(p)
  <2>1. PICK q \in Pages :
             /\ q = at[p] + 1 /\ q <= last
             /\ st' = [st EXCEPT ![p] = Truth]
             /\ at' = [at EXCEPT ![p] = q]
             /\ stale' = stale \cup {q}
    <3>1. PICK s \in After(st[p]), q \in Reached(st[p], at[p]) :
               /\ q \in Pages
               /\ st' = [st EXCEPT ![p] = s]
               /\ at' = [at EXCEPT ![p] = q]
               /\ stale' = stale \cup {q}
      BY <1>3 DEF Overrule
    <3>2. s = Truth /\ q = at[p] + 1 /\ at[p] # last
      BY <3>1, <1>n
    <3>3. q <= last
      BY <3>2
    <3>4. q \in Pages /\ st' = [st EXCEPT ![p] = Truth]
      BY <3>1, <3>2
    <3> QED
      BY <3>1, <3>2, <3>3, <3>4
  <2>2. /\ content' = [content EXCEPT ![at[p]] = "good"]
        /\ pc[p] = "carry"
        /\ pc' = [pc EXCEPT ![p] = "await"]
        /\ UNCHANGED <<matched, entry, marker, valid, endDone, last>>
    BY <1>3, <1>n DEF Overrule
  <2>3. ASSUME NEW j \in Pages PROVE ChunkTruth(j)'
    <3>1. content[j] = "good" => content'[j] = "good"
      BY <2>2
    <3>2. CASE j = p
      BY <2>1, <2>2, <3>1, <3>2 DEF ChunksTruth, ChunkTruth, Carries
    <3>3. CASE j # p
      <4>1. pc'[j] = pc[j] /\ st'[j] = st[j] /\ at'[j] = at[j]
        BY <2>1, <2>2, <3>3
      <4> QED
        BY <2>2, <3>1, <4>1 DEF ChunksTruth, ChunkTruth, Entry
    <3> QED
      BY <3>2, <3>3
  <2>4. ValidTruth' /\ CarrierTruth'
    BY <2>1, <2>2 DEF ValidTruth, CarrierTruth, Carries
  <2>5. pc'[p] = "await" /\ at'[p] = q
    BY <2>1, <2>2
  <2>6. StaleTruth'
    BY <2>1, <2>2, <2>5, <1>s DEF StaleTruth, AtWork, Carries
  <2> QED
    BY <2>3, <2>4, <2>6 DEF TruthInv, ChunksTruth
<1>4. CASE RunOut(p)
  <2>1. /\ content' = [content EXCEPT ![at[p]] = "good"]
        /\ at' = [at EXCEPT ![p] = End] /\ pc[p] = "carry"
        /\ pc' = [pc EXCEPT ![p] = IF p = 0 THEN "finalize" ELSE "done"]
        /\ UNCHANGED <<st, matched, entry, marker, valid, stale, last>>
    BY <1>4, <1>n DEF RunOut
  <2>2. ASSUME NEW j \in Pages PROVE ChunkTruth(j)'
    <3>1. content[j] = "good" => content'[j] = "good"
      BY <2>1
    <3>2. CASE j = p
      BY <2>1, <3>1, <3>2 DEF ChunksTruth, ChunkTruth, Carries
    <3>3. CASE j # p
      <4>1. pc'[j] = pc[j] /\ at'[j] = at[j]
        BY <2>1, <3>3
      <4> QED
        BY <2>1, <3>1, <4>1 DEF ChunksTruth, ChunkTruth, Entry
    <3> QED
      BY <3>2, <3>3
  <2>3. ValidTruth' /\ CarrierTruth'
    BY <2>1 DEF ValidTruth, CarrierTruth, Carries
  <2>4. StaleTruth'
    BY <2>1, <1>s DEF StaleTruth
  <2> QED
    BY <2>2, <2>3, <2>4 DEF TruthInv, ChunksTruth
<1> QED
  BY <1>1, <1>2, <1>3, <1>4 DEF CarrierStep

(* A hurt is not forgotten, and every step keeps the truth until one.       *)
LEMMA NextTruth ==
    /\ BatonInv /\ WritersInv /\ PlainInv /\ (Unhurt => TruthInv)
    /\ [Next]_vars
    => (Unhurt => TruthInv)'
<1> SUFFICES ASSUME BatonInv, WritersInv, PlainInv, Unhurt => TruthInv,
                    [Next]_vars, Unhurt'
             PROVE  TruthInv'
  OBVIOUS
<1>1. TruthInv
  <2>1. mishaps \subseteq mishaps'
    BY DEF Next, ChunkStep, CarrierStep, Mishap, Over, vars, files, fate,
           Wake, ReachStop, WriteMarker, PassOn, Disown, TakeBaton, Retire,
           Taint, Spill, Die, Rewrite, Confer, Overrule, RunOut, Assemble
  <2> QED
    BY <2>1 DEF Unhurt
<1>2. ASSUME NEW k \in Pages, ChunkStep(k) \/ Mishap(k) PROVE TruthInv'
  BY <1>1, <1>2, ChunkKeepsTruth
<1>3. ASSUME NEW p \in Procs, CarrierStep(p) PROVE TruthInv'
  BY <1>1, <1>3, CarrierKeepsTruth
<1>4. CASE Assemble
  <2>1. /\ pc[0] = "finalize" /\ pc' = [pc EXCEPT ![0] = "assembled"]
        /\ UNCHANGED <<at, st, matched, entry, marker, valid, stale, endDone,
                       handedOff, content, last>>
    BY <1>4 DEF Assemble, files, fate
  <2>2. pc \in [Procs -> PC] /\ 0 \notin Pages /\ 0 \in Procs
    BY NAssumption DEF BatonInv, TypeOK, Pages, Procs
  <2>3. ChunksTruth' /\ ValidTruth' /\ CarrierTruth'
    BY <1>1, <2>1, <2>2 DEF TruthInv, ChunksTruth, ChunkTruth, ValidTruth,
       CarrierTruth, Carries, Entry
  <2>4. StaleTruth'
    BY <1>1, <2>1, <2>2, StaleKept DEF TruthInv, Holds, Carries
  <2> QED
    BY <2>3, <2>4 DEF TruthInv
<1>5. CASE UNCHANGED vars
  BY <1>1, <1>5 DEF vars, files, fate, TruthInv, ChunksTruth, ChunkTruth,
     ValidTruth, CarrierTruth, StaleTruth, AtWork, Abandoned, Carries, Holds,
     Entry
<1> QED
  BY <1>2, <1>3, <1>4, <1>5 DEF Next, Over

(* Whatever the mishaps, unless a chunk read a waived name too soon or      *)
(* wrote outside its region, a page found valid began as the true run did   *)
(* and what the verifier assembles is the true run's text to its end.       *)
THEOREM TrueUnlessHurtAlways == Spec => []TrueUnlessHurt
<1>1. BatonInv /\ PlainInv /\ (Unhurt => TruthInv) => TrueUnlessHurt
  <2> SUFFICES ASSUME BatonInv, PlainInv, TruthInv
               PROVE  ValidIsTrue /\ AssembledTrue
    BY DEF TrueUnlessHurt, Unhurt
  <2>t. TypeOK /\ 0 \in Procs /\ valid \subseteq Pages /\ last \in 0 .. N
        /\ N \in Nat
    BY NAssumption DEF BatonInv, TypeOK, Procs
  <2>1. ValidIsTrue
    BY <2>t DEF TruthInv, ChunksTruth, ChunkTruth, ValidTruth, ValidIsTrue
  <2>2. ASSUME pc[0] = "assembled", NEW r \in 0 .. last
        PROVE  content[r] = "good"
    <3>1. CASE r = 0
      BY <2>2, <3>1 DEF PlainInv, FirstRegionInv, Carries
    <3>2. CASE r # 0 /\ r \in valid
      BY <2>t, <2>2, <3>2
         DEF PlainInv, AssembledInv, TruthInv, ChunksTruth, ChunkTruth,
             ValidTruth
    <3>3. CASE r # 0 /\ r \in stale
      <4>1. ASSUME \A q \in valid \cup stale : q <= r
            PROVE  r = N /\ N \in Pages
        BY <2>t, <2>2, <3>3, <4>1 DEF PlainInv, AssembledInv, Pages
      <4>2. ~Abandoned(r)
        BY <2>2, <3>3, <4>1 DEF PlainInv, AssembledInv, Abandoned
      <4>3. ~AtWork(r)
        <5> SUFFICES ASSUME NEW p \in Procs, Carries(p), at[p] = r
                     PROVE  FALSE
          BY DEF AtWork
        <5>1. r = N
          BY <4>1 DEF BatonInv, Baton, FrontierInv
        <5>2. p # 0
          BY <2>2 DEF Carries
        <5>3. p \in valid /\ Holds(p)
          BY <5>2 DEF BatonInv, Baton, CarryInv, Carries, Holds
        <5> QED
          BY <2>2, <3>3, <5>1, <5>3 DEF PlainInv, HandInv, AssembledInv
      <4> QED
        BY <3>3, <4>2, <4>3 DEF TruthInv, StaleTruth
    <3> QED
      BY <2>t, <2>2, <3>1, <3>2, <3>3 DEF PlainInv, AssembledInv, Pages
  <2> QED
    BY <2>1, <2>2 DEF AssembledTrue
<1>2. Spec => []WritersInv
  BY BatonInvariant, InitWriters, NextWriters, PTL DEF Spec
<1>3. Spec => []PlainInv
  BY BatonInvariant, InitPlain, NextPlain, PTL DEF Spec
<1>4. Spec => [](Unhurt => TruthInv)
  BY BatonInvariant, <1>2, <1>3, InitTruth, NextTruth, PTL DEF Spec
<1> QED
  BY <1>1, <1>3, <1>4, BatonInvariant, PTL

-----------------------------------------------------------------------------
(* In a round without mishaps, in-order settlement. *)

\* Nobody dies or plays the verifier, a chunk has a verdict when it leaves and a marker when it
\* waits, and a carrier is in region 0 or in one that it found stale.
CleanInv ==
    /\ mishaps = {} /\ last = N
    /\ \A k \in Pages : /\ pc[k] \notin {"dead", "finalize", "assembled"}
                        /\ pc[k] = "done" => k \in valid \cup stale
                        /\ pc[k] = "waiting" => k \in marker
    /\ \A p \in Procs : Carries(p) => at[p] \in stale \cup {0}

(* What holds of every round that met no mishap yet.                        *)
RoundInv ==
    BatonInv /\ WritersInv /\ PlainInv /\ TruthInv /\ CleanInv /\ OnTimeInv

\* The regions in front of the one the truth is in, by who holds it.
HolderFront(p) ==
    IF Carries(p) THEN at[p] ELSE IF p \in marker THEN p + 1 ELSE p

\* Settled regions are right and nobody will write one again.
SettledInv ==
    \A r \in Procs : r < Front =>
        /\ content[r] = "good"
        /\ r \in Pages => pc[r] \notin {"parked", "write", "marking"}

(* The front is where the one holder is.                                    *)
LEMMA FrontOf ==
    ASSUME OneCarrier
    PROVE  /\ \A p \in Procs : Holds(p) => Front = HolderFront(p)
           /\ (\A p \in Procs : ~Holds(p)) => Front = End
<1>1. ASSUME NEW p \in Procs, Holds(p) PROVE Front = HolderFront(p)
  <2>1. \A q \in Procs : Holds(q) <=> q = p
    BY <1>1 DEF OneCarrier
  <2>2. (CHOOSE q \in Procs : Holds(q)) = p
    BY <2>1
  <2> QED
    BY <1>1, <2>2 DEF Front, HolderFront, Carries
<1>2. ASSUME \A p \in Procs : ~Holds(p) PROVE Front = End
  BY <1>2 DEF Front
<1> QED
  BY <1>1, <1>2

(* The same of the state after a step.                                      *)
LEMMA FrontOfNext ==
    ASSUME OneCarrier'
    PROVE  /\ \A p \in Procs : Holds(p)' => Front' = HolderFront(p)'
           /\ (\A p \in Procs : ~Holds(p)') => Front' = End
<1> DEFINE H(q) == Holds(q)'
<1>1. ASSUME NEW p \in Procs, H(p) PROVE Front' = HolderFront(p)'
  <2>1. \A q \in Procs : H(q) <=> q = p
    BY <1>1 DEF OneCarrier
  <2>2. (CHOOSE q \in Procs : H(q)) = p
    BY <2>1
  <2> QED
    BY <1>1, <2>2 DEF Front, HolderFront, Carries
<1>2. ASSUME \A p \in Procs : ~H(p) PROVE Front' = End
  BY <1>2 DEF Front, End
<1> QED
  BY <1>1, <1>2

(* The front is a region or the document's end.                             *)
LEMMA FrontType == BatonInv => Front \in 0 .. End
<1> SUFFICES ASSUME BatonInv PROVE Front \in 0 .. End
  OBVIOUS
<1>1. ASSUME NEW p \in Procs, Holds(p) PROVE HolderFront(p) \in 0 .. End
  BY NAssumption DEF BatonInv, TypeOK, HolderFront, Procs, End
<1> QED
  BY <1>1, FrontOf, NAssumption DEF BatonInv, Baton, End

(* The front stays where it is when the one who holds the truth does.       *)
LEMMA FrontStays ==
    ASSUME BatonInv, BatonInv',
           \A p \in Procs : Holds(p)' = Holds(p),
           \A p \in Procs : Holds(p) => HolderFront(p)' = HolderFront(p)
    PROVE  Front' = Front
<1>1. CASE \E p \in Procs : Holds(p)
  <2>1. PICK p \in Procs : Holds(p)
    BY <1>1
  <2>2. Front = HolderFront(p)
    BY <2>1, FrontOf DEF BatonInv, Baton
  <2>3. Front' = HolderFront(p)'
    BY <2>1, FrontOfNext DEF BatonInv, Baton
  <2> QED
    BY <2>1, <2>2, <2>3
<1>2. CASE ~ \E p \in Procs : Holds(p)
  BY <1>2 DEF Front, End
<1> QED
  BY <1>1, <1>2

(* Without faults the round begins without mishaps, at the document's whole *)
(* length.                                                                  *)
LEMMA InitRound == Faults = {} /\ Init => RoundInv /\ SettledInv
<1> SUFFICES ASSUME Faults = {}, Init PROVE RoundInv /\ SettledInv
  OBVIOUS
<1>1. BatonInv /\ WritersInv /\ PlainInv /\ TruthInv
  BY InitBaton, InitWriters, InitPlain, InitTruth
<1>2. CleanInv
  BY NAssumption DEF Init, CleanInv, Pages, Procs, Carries
<1>3. OnTimeInv
  BY <1>1, <1>2 DEF WritersInv, CleanInv
<1>4. Front = 0
  <2>1. Holds(0) /\ HolderFront(0) = 0 /\ 0 \in Procs
    BY NAssumption DEF Init, Holds, HolderFront, Carries, Procs
  <2> QED
    BY <1>1, <2>1, FrontOf DEF BatonInv, Baton
<1>5. SettledInv
  BY <1>4, NAssumption DEF SettledInv, Procs
<1> QED
  BY <1>1, <1>2, <1>3, <1>5 DEF RoundInv

(* A place that is not region 0 is a parked page or the end.                *)
LEMMA PlaceAhead ==
    ASSUME NEW a \in 0 .. N + 1, a # 0
    PROVE  a = End \/ a \in Pages
  BY NAssumption DEF Pages, End

(* Without faults no step brings a mishap, and no baton is taken before the *)
(* end: the chunk at the page reached has woken and written its entry.      *)
LEMMA NextClean ==
    ASSUME Faults = {}, RoundInv, [Next]_vars
    PROVE  CleanInv'
<1>t. /\ TypeOK /\ CleanInv /\ FilesInv /\ OnTimeInv /\ StopInv /\ N \in Nat
      /\ ChunksTruth
  BY NAssumption DEF RoundInv, BatonInv, Baton, WritersInv, TruthInv
<1> USE <1>t DEF TypeOK, CleanInv, Carries, Pages, Procs, End, fate, files
<1>1. ASSUME NEW k \in Pages, Wake(k) PROVE CleanInv'
  BY <1>1 DEF Wake
<1>2. ASSUME NEW k \in Pages, Mishap(k) PROVE CleanInv'
  BY <1>2 DEF Mishap, Taint, Spill, Die
<1>3. ASSUME NEW k \in Pages, ReachStop(k) PROVE CleanInv'
  BY <1>3 DEF ReachStop
<1>4. ASSUME NEW k \in Pages, WriteMarker(k) PROVE CleanInv'
  BY <1>4 DEF WriteMarker
<1>5. ASSUME NEW k \in Pages, PassOn(k) PROVE CleanInv'
  BY <1>5 DEF PassOn
<1>6. ASSUME NEW k \in Pages, Disown(k) PROVE CleanInv'
  BY <1>6 DEF Disown
<1>7. ASSUME NEW k \in Pages, TakeBaton(k) PROVE CleanInv'
  <2>1. at[k] = End
    <3>2. at[k] # 0 /\ at[k] \in 0 .. N + 1
      BY <1>7 DEF TakeBaton, StopInv
    <3>3. at[k] = End \/ at[k] \in Pages
      BY <3>2, PlaceAhead
    <3> SUFFICES ASSUME at[k] \in Pages PROVE FALSE
      BY <3>3
    <3>1. pc[at[k]] \notin {"parked", "dead"} /\ entry[at[k]] = NoEntry
      BY <1>7 DEF TakeBaton, OnTimeInv, Entry
    <3> QED
      BY <3>1 DEF FilesInv
  <2> QED
    BY <1>7, <2>1 DEF TakeBaton
<1>8. ASSUME NEW k \in Pages, Retire(k) PROVE CleanInv'
  BY <1>8 DEF Retire
<1>9. ASSUME NEW p \in Procs, Rewrite(p) PROVE CleanInv'
  BY <1>9 DEF Rewrite
<1>10. ASSUME NEW p \in Procs, Confer(p) PROVE CleanInv'
  <2>1. p \in valid \/ p = 0
    BY <1>10 DEF RoundInv, BatonInv, Baton, CarryInv, Confer
  <2> QED
    BY <1>10, <2>1 DEF Confer
<1>11. ASSUME NEW p \in Procs, Overrule(p) PROVE CleanInv'
  BY <1>11 DEF Overrule
<1>12. ASSUME NEW p \in Procs, RunOut(p) PROVE CleanInv'
  <2>1. p \in valid \/ p = 0
    BY <1>12 DEF RoundInv, BatonInv, Baton, CarryInv, RunOut
  <2> QED
    BY <1>12, <2>1 DEF RunOut
<1>13. CASE Assemble
  BY <1>13 DEF Assemble
<1>14. CASE UNCHANGED vars
  BY <1>14 DEF vars
<1> QED
  BY <1>1, <1>2, <1>3, <1>4, <1>5, <1>6, <1>7, <1>8, <1>9, <1>10, <1>11,
     <1>12, <1>13, <1>14 DEF Next, ChunkStep, CarrierStep, Over

(* So the whole of it is kept.                                              *)
LEMMA NextRound ==
    ASSUME Faults = {}, RoundInv, [Next]_vars
    PROVE  RoundInv'
<1>1. BatonInv'
  BY NextBaton DEF RoundInv
<1>2. WritersInv' /\ PlainInv'
  BY <1>1, NextWriters, NextPlain DEF RoundInv
<1>3. CleanInv'
  BY NextClean
<1>4. TruthInv' /\ OnTimeInv'
  BY <1>2, <1>3, NextTruth DEF RoundInv, CleanInv, Unhurt, WritersInv
<1> QED
  BY <1>1, <1>2, <1>3, <1>4 DEF RoundInv

(* A region between two fronts is one of the document's.                    *)
LEMMA RegionBetween ==
    ASSUME NEW a \in 0 .. N + 1, NEW b \in 0 .. N + 1, NEW r \in a .. b - 1
    PROVE  r \in Procs /\ r >= a /\ r < b
  BY NAssumption DEF Procs

(* A region in front of another is one of the document's too.               *)
LEMMA RegionBelow ==
    ASSUME NEW a \in 0 .. N, NEW r \in 0 .. a - 1
    PROVE  r \in Procs /\ r # a
  BY NAssumption DEF Procs

(* A step that moves neither the front nor a region and publishes nothing.  *)
LEMMA FrontAtRest ==
    ASSUME BatonInv, SettledInv, Front' = Front, content' = content,
           pc'[0] = "assembled" <=> pc[0] = "assembled",
           \A r \in Pages : pc'[r] \in {"parked", "write", "marking"} =>
               pc[r] \in {"parked", "write", "marking"}
    PROVE  SettledInv' /\ UNCHANGED Abstract!vars
  BY DEF SettledInv, Abstract!vars

(* A step that moves the front over regions that are now right, and leaves  *)
(* those behind it alone.                                                   *)
LEMMA FrontMoves ==
    ASSUME BatonInv, BatonInv', SettledInv, Front' > Front,
           \A r \in 0 .. Front - 1 : content'[r] = content[r],
           \A r \in Procs : r >= Front /\ r < Front' =>
               /\ content'[r] = "good"
               /\ r \in Pages => pc'[r] \notin {"parked", "write", "marking"},
           pc'[0] = "assembled" <=> pc[0] = "assembled",
           \A r \in Pages : pc'[r] \in {"parked", "write", "marking"} =>
               pc[r] \in {"parked", "write", "marking"}
    PROVE  SettledInv' /\ Abstract!Settle
<1>1. Front \in 0 .. N + 1 /\ N \in Nat
  BY FrontType, NAssumption DEF End
<1>4. Front' \in 0 .. N + 1
  <2>1. ASSUME NEW p \in Procs, Holds(p)' PROVE HolderFront(p)' \in 0 .. End
    BY NAssumption DEF BatonInv, TypeOK, HolderFront, Procs, End
  <2> QED
    BY <2>1, <1>1, FrontOfNext DEF BatonInv, Baton, End
<1>2. Abstract!Settle
  <2>1. content' \in [0 .. N -> {"blank", "good", "bad"}]
    BY DEF BatonInv, TypeOK, Procs
  <2>2. \A r \in Front .. Front' - 1 : content'[r] = "good"
    <3> SUFFICES ASSUME NEW r \in Front .. Front' - 1
                 PROVE  content'[r] = "good"
      OBVIOUS
    <3>1. r \in Procs /\ r >= Front /\ r < Front'
      BY <1>1, <1>4, RegionBetween
    <3> QED
      BY <3>1
  <2>3. Front' \in Front + 1 .. N + 1
    BY <1>1, <1>4
  <2>4. (pc[0] = "assembled")' = (pc[0] = "assembled")
    OBVIOUS
  <2> QED
    BY <2>1, <2>2, <2>3, <2>4
       DEF Abstract!Settle, Abstract!Texts, Abstract!SettledUntouched
<1>3. SettledInv'
  <2> SUFFICES ASSUME NEW r \in Procs, r < Front'
               PROVE  /\ content'[r] = "good"
                      /\ r \in Pages =>
                            pc'[r] \notin {"parked", "write", "marking"}
    BY DEF SettledInv
  <2>1. CASE r < Front
    BY <1>1, <2>1 DEF SettledInv, Procs
  <2>2. CASE r >= Front
    BY <2>2
  <2> QED
    BY <1>1, <1>4, <2>1, <2>2 DEF Procs
<1> QED
  BY <1>2, <1>3

(* Where the holder goes on at page q: the front is there, or beyond q if   *)
(* its chunk has already written its marker.                                *)
LEMMA HandedTo ==
    ASSUME RoundInv, RoundInv', NEW q \in Pages,
           q \notin valid \cup stale, q \in valid',
           entry[q] # NoEntry, pc'[q] = pc[q], marker' = marker
    PROVE  Holds(q)' /\ Front' = IF q \in marker THEN q + 1 ELSE q
<1>1. pc[q] \notin {"parked", "dead", "done"}
  BY DEF RoundInv, CleanInv, TruthInv, ChunksTruth, ChunkTruth
<1>2. pc[q] \in PC /\ q # 0 /\ q \in Procs
  BY NAssumption DEF RoundInv, BatonInv, TypeOK, Pages, Procs
<1>3. ~Carries(q)
  BY <1>2 DEF RoundInv, BatonInv, Baton, CarryInv
<1>4. Unheard(q)
  BY <1>1, <1>2, <1>3 DEF RoundInv, CleanInv, Carries, Unheard, PC
<1>5. Holds(q)' /\ HolderFront(q)' = IF q \in marker THEN q + 1 ELSE q
  BY <1>3, <1>4 DEF Unheard, Holds, HolderFront, Carries
<1> QED
  BY <1>2, <1>5, FrontOfNext DEF RoundInv, BatonInv, Baton

(* What a chunk does, seen from the settlement.                             *)
LEMMA ChunkSettles ==
    ASSUME RoundInv, RoundInv', SettledInv, NEW k \in Pages, ChunkStep(k)
    PROVE  SettledInv' /\ [Abstract!Next]_(Abstract!vars)
<1>t. /\ BatonInv /\ BatonInv' /\ TypeOK /\ OneCarrier /\ FilesInv /\ N \in Nat
      /\ CleanInv /\ ValidTruth /\ ChunksTruth /\ AssembledInv /\ FrontierInv
  BY NAssumption
     DEF RoundInv, BatonInv, Baton, WritersInv, PlainInv, TruthInv
<1>k. k \in 1 .. N /\ k # 0 /\ k \in Procs
  BY <1>t DEF Pages, Procs
<1>f. \A p \in Procs : Holds(p) => Front = HolderFront(p)
  BY <1>t, FrontOf
<1>1. CASE Wake(k)
  <2>1. /\ pc[k] = "parked" /\ pc' = [pc EXCEPT ![k] = "write"]
        /\ UNCHANGED <<at, marker, valid, content>>
    BY <1>1 DEF Wake
  <2>2. Front' = Front
    BY <2>1, <1>t, FrontStays DEF TypeOK, Holds, HolderFront, Carries
  <2> QED
    BY <2>1, <2>2, <1>t, <1>k, FrontAtRest DEF TypeOK
<1>2. CASE ReachStop(k)
  <2>1. /\ pc[k] = "write" /\ pc' = [pc EXCEPT ![k] = "marking"]
        /\ at' = [at EXCEPT ![k] = at'[k]]
        /\ content' = [content EXCEPT ![k] = content'[k]]
        /\ UNCHANGED <<marker, valid>>
    <3>1. /\ pc[k] = "write" /\ pc' = [pc EXCEPT ![k] = "marking"]
          /\ UNCHANGED files
      BY <1>2 DEF ReachStop
    <3>2. /\ \E q : at' = [at EXCEPT ![k] = q]
          /\ \E w : content' = [content EXCEPT ![k] = w]
      BY <1>2 DEF ReachStop
    <3>3. k \in DOMAIN at /\ k \in DOMAIN content
      BY <1>t, <1>k DEF TypeOK
    <3>4. at' = [at EXCEPT ![k] = at'[k]]
      BY <3>2, <3>3
    <3>5. content' = [content EXCEPT ![k] = content'[k]]
      BY <3>2, <3>3
    <3> QED
      BY <3>1, <3>4, <3>5 DEF files
  <2>2. Front' = Front
    BY <2>1, <1>t, FrontStays DEF TypeOK, Holds, HolderFront, Carries
  <2>3. ~(k < Front)
    BY <2>1, <1>k DEF SettledInv
  <2>4. Front \in 0 .. N + 1
    BY <1>t, FrontType DEF End
  <2>5. \A r \in Procs : r < Front => content'[r] = content[r]
    BY <2>1, <2>3, <1>t DEF TypeOK
  <2>6. SettledInv'
    BY <2>1, <2>2, <2>5, <1>t DEF SettledInv, TypeOK
  <2>7. pc[0] # "assembled" /\ pc'[0] # "assembled"
    BY <2>1, <1>t, <1>k DEF AssembledInv, FilesInv, TypeOK
  <2>8. Abstract!Guess
    <3>1. content' \in [0 .. N -> {"blank", "good", "bad"}]
      BY <1>t DEF BatonInv, TypeOK, Procs
    <3>2. \A r \in 0 .. Front - 1 : content'[r] = content[r]
      BY <2>4, <2>5, <1>t DEF Procs
    <3> QED
      BY <2>2, <2>7, <3>1, <3>2
         DEF Abstract!Guess, Abstract!Texts, Abstract!SettledUntouched
  <2> QED
    BY <2>6, <2>8 DEF Abstract!Next
<1>3. CASE WriteMarker(k)
  <2>1. /\ pc[k] = "marking" /\ pc' = [pc EXCEPT ![k] = "waiting"]
        /\ marker' = marker \cup {k} /\ k \notin marker
        /\ UNCHANGED <<at, valid, content, entry>>
    BY <1>3, <1>t DEF WriteMarker, FilesInv
  <2>2. CASE k \in valid
    <3>1. Holds(k) /\ Holds(k)' /\ HolderFront(k) = k
          /\ HolderFront(k)' = k + 1
      BY <2>1, <2>2, <1>t, <1>k DEF TypeOK, Holds, HolderFront, Carries
    <3>2. Front = k /\ Front' = k + 1
      BY <3>1, <1>f, <1>t, <1>k, FrontOfNext DEF BatonInv, Baton
    <3>3. content[k] = "good"
      BY <2>1, <2>2, <1>t DEF ValidTruth, ChunksTruth, ChunkTruth
    <3>4. \A r \in Procs : r >= Front /\ r < Front' => r = k
      BY <3>2, <1>k, <1>t DEF Procs
    <3>5. Front' > Front
      BY <3>2, <1>k
    <3> QED
      BY <2>1, <3>3, <3>4, <3>5, <1>t, <1>k, FrontMoves
         DEF TypeOK, Abstract!Next
  <2>3. CASE k \notin valid
    <3>1. Front' = Front
      BY <2>1, <2>3, <1>t, FrontStays DEF TypeOK, Holds, HolderFront, Carries
    <3> QED
      BY <2>1, <3>1, <1>t, <1>k, FrontAtRest DEF TypeOK
  <2> QED
    BY <2>2, <2>3
<1>4. CASE PassOn(k)
  <2>1. /\ k \in valid /\ pc[k] = "waiting" /\ matched[k]
        /\ valid' = valid \cup {at[k]} /\ pc' = [pc EXCEPT ![k] = "done"]
        /\ UNCHANGED <<at, entry, marker, content>>
    BY <1>4 DEF PassOn
  <2>2. Holds(k) /\ k \in marker /\ HolderFront(k) = k + 1
    BY <2>1, <1>t DEF CleanInv, Holds, HolderFront, Carries
  <2>3. Front = k + 1
    BY <2>2, <1>f, <1>k
  <2>4. Entry(at[k]) = Truth
    BY <2>1, <1>t DEF ValidTruth, ChunksTruth, ChunkTruth
  <2>5. at[k] = k + 1 /\ at[k] \in Pages /\ entry[at[k]] = Truth
    <3>1. at[k] \in Pages /\ entry[at[k]] = Truth
      BY <2>4, WrongAssumption DEF Entry, Truth, NoEntry
    <3>2. at[k] # End
      BY <3>1, <1>t DEF Pages, End
    <3> QED
      BY <2>1, <3>1, <3>2, <1>t DEF ValidTruth, ChunksTruth, ChunkTruth
  <2>6. at[k] \notin valid \cup stale
    <3>1. \A j \in valid \cup stale : j <= k
      BY <2>1, <1>t DEF FrontierInv, Unheard
    <3> QED
      BY <2>5, <3>1, <1>k
  <2>7. pc'[at[k]] = pc[at[k]] /\ entry[at[k]] # NoEntry /\ at[k] \in valid'
    BY <2>1, <2>5, <1>k, <1>t, WrongAssumption DEF TypeOK, Truth, NoEntry
  <2>8. Front' = IF at[k] \in marker THEN at[k] + 1 ELSE at[k]
    BY <2>1, <2>5, <2>6, <2>7, HandedTo
  <2>9. CASE at[k] \notin marker
    BY <2>1, <2>3, <2>5, <2>8, <2>9, <1>t, <1>k, FrontAtRest DEF TypeOK
  <2>10. CASE at[k] \in marker
    <3>1. content[at[k]] = "good" /\ pc[at[k]] \notin {"parked", "write", "marking"}
      BY <2>5, <2>10, <1>t DEF ChunksTruth, ChunkTruth, FilesInv
    <3>2. \A r \in Procs : r >= Front /\ r < Front' => r = at[k]
      BY <2>3, <2>5, <2>8, <2>10, <1>k, <1>t DEF Procs
    <3>3. Front' > Front
      BY <2>3, <2>5, <2>8, <2>10, <1>k
    <3> QED
      BY <2>1, <2>7, <3>1, <3>2, <3>3, <1>t, <1>k, FrontMoves
         DEF TypeOK, Abstract!Next
  <2> QED
    BY <2>9, <2>10
<1>5. CASE Disown(k)
  <2>1. /\ k \in valid /\ pc[k] = "waiting" /\ Entry(at[k]) # NoEntry
        /\ pc' = [pc EXCEPT ![k] = "await"]
        /\ UNCHANGED <<at, valid, marker, content>>
    BY <1>5 DEF Disown
  <2>2. at[k] = k + 1
    <3>1. at[k] # End
      BY <2>1, <1>t DEF Entry, Pages, End
    <3> QED
      BY <2>1, <3>1, <1>t DEF ValidTruth, ChunksTruth, ChunkTruth
  <2>3. /\ Holds(k) /\ HolderFront(k) = k + 1
        /\ Holds(k)' /\ HolderFront(k)' = k + 1
    BY <2>1, <2>2, <1>t, <1>k DEF CleanInv, Holds, HolderFront, Carries, TypeOK
  <2>4. Front' = Front
    BY <2>3, <1>f, <1>t, <1>k, FrontOfNext DEF BatonInv, Baton
  <2> QED
    BY <2>1, <2>4, <1>t, <1>k, FrontAtRest DEF TypeOK
<1>6. CASE TakeBaton(k)
  <2>1. /\ k \in valid /\ pc[k] = "waiting"
        /\ UNCHANGED <<at, valid, stale, marker, content>>
    BY <1>6 DEF TakeBaton
  <2>2. at[k] = End /\ pc' = [pc EXCEPT ![k] = "done"]
    <3>1. at[k] = End \/ at[k] \in Pages
      BY <2>1, <1>t, <1>k, PlaceAhead DEF RoundInv, BatonInv, Baton, StopInv,
                                          TypeOK, End
    <3>2. CASE at[k] \in Pages
      <4>1. pc[at[k]] \notin {"parked", "dead"} /\ entry[at[k]] = NoEntry
        BY <1>6, <2>1, <3>2, <1>t
           DEF TakeBaton, Entry, RoundInv, OnTimeInv, CleanInv
      <4> QED
        BY <3>2, <4>1, <1>t DEF FilesInv
    <3> QED
      BY <1>6, <3>1, <3>2 DEF TakeBaton
  <2>3. k = N
    BY <2>1, <2>2, <1>t, <1>k DEF ValidTruth, ChunksTruth, ChunkTruth,
                                  CleanInv, End
  <2>4. Holds(k) /\ HolderFront(k) = k + 1
    BY <2>1, <1>t, <1>k DEF CleanInv, Holds, HolderFront, Carries, TypeOK
  <2>5. \A p \in Procs : ~Holds(p)'
    <3>1. \A p \in Procs : Holds(p) => p = k
      BY <2>4, <1>t, <1>k DEF OneCarrier
    <3> QED
      BY <2>1, <2>2, <3>1, <1>t, <1>k DEF Holds, TypeOK
  <2>6. Front' = Front
    BY <2>3, <2>4, <2>5, <1>f, <1>t, <1>k, FrontOfNext DEF BatonInv, Baton, End
  <2> QED
    BY <2>1, <2>2, <2>6, <1>t, <1>k, FrontAtRest DEF TypeOK
<1>7. CASE Retire(k)
  <2>1. /\ k \notin valid /\ pc[k] = "waiting" /\ pc' = [pc EXCEPT ![k] = "done"]
        /\ UNCHANGED <<at, valid, marker, content>>
    BY <1>7 DEF Retire, files
  <2>2. Front' = Front
    BY <2>1, <1>t, FrontStays DEF TypeOK, Holds, HolderFront, Carries
  <2> QED
    BY <2>1, <2>2, <1>t, <1>k, FrontAtRest DEF TypeOK
<1> QED
  BY <1>1, <1>2, <1>3, <1>4, <1>5, <1>6, <1>7 DEF ChunkStep

(* What the carrier does, seen from the settlement: the region behind it is *)
(* settled, and those whose chunks wrote them well in advance.              *)
LEMMA CarrierSettles ==
    ASSUME RoundInv, RoundInv', SettledInv, NEW p \in Procs, CarrierStep(p)
    PROVE  SettledInv' /\ [Abstract!Next]_(Abstract!vars)
<1>t. /\ BatonInv /\ BatonInv' /\ TypeOK /\ OneCarrier /\ FilesInv /\ N \in Nat
      /\ CleanInv /\ ChunksTruth /\ FrontierInv
      /\ OnTimeInv
  BY NAssumption
     DEF RoundInv, BatonInv, Baton, WritersInv, PlainInv, TruthInv
<1>c. /\ Carries(p) /\ st[p] = Truth /\ at[p] \in 0 .. N /\ Holds(p)
      /\ \A q \in Procs : Holds(q) => q = p
  <2>1. Carries(p)
    BY DEF CarrierStep, Rewrite, Confer, Overrule, RunOut, Carries
  <2>2. st[p] = Truth /\ at[p] <= N
    BY <2>1, <1>t DEF RoundInv, TruthInv, CarrierTruth, CleanInv
  <2>3. at[p] \in 0 .. N
    BY <2>2, <1>t DEF TypeOK, End
  <2>4. Holds(p)
    BY <2>1 DEF Carries, Holds
  <2>5. \A q \in Procs : Holds(q) => q = p
    BY <2>4, <1>t DEF OneCarrier
  <2> QED
    BY <2>1, <2>2, <2>3, <2>4, <2>5
<1>f. Front = at[p]
  BY <1>c, <1>t, FrontOf DEF HolderFront
<1>n. /\ Written(st[p]) = "good" /\ After(st[p]) = {Truth}
      /\ Reached(st[p], at[p]) = {IF at[p] = N THEN End ELSE at[p] + 1}
  BY <1>c, <1>t, TrueStep DEF TypeOK, CleanInv, Procs
<1>a. \A q \in Procs : Carries(q)' => Holds(q)'
  BY DEF Carries, Holds
<1>1. CASE Rewrite(p)
  <2>1. /\ pc[p] = "await" /\ pc' = [pc EXCEPT ![p] = "carry"]
        /\ UNCHANGED <<at, valid, marker, content>>
    BY <1>1 DEF Rewrite, files
  <2>2. Front' = Front
    BY <2>1, <1>t, <1>c, FrontStays DEF TypeOK, Holds, HolderFront, Carries
  <2> QED
    BY <2>1, <2>2, <1>t, <1>c, FrontAtRest DEF TypeOK
<1>2. CASE Confer(p)
  <2>1. PICK q \in Pages : q \in Reached(st[p], at[p]) /\ entry[q] = Truth
                           /\ valid' = valid \cup {q}
    BY <1>2, <1>n DEF Confer
  <2>2. q = at[p] + 1
    BY <2>1, ReachedPage, <1>t DEF Pages, End
  <2>3. /\ content' = [content EXCEPT ![at[p]] = "good"]
        /\ pc[p] = "carry"
        /\ pc' = [pc EXCEPT ![p] = IF p = 0 THEN "finalize" ELSE "done"]
        /\ UNCHANGED <<entry, marker>>
    BY <1>2, <1>n DEF Confer
  <2>4. q \notin valid \cup stale /\ q # p
    <3>1. \A j \in valid \cup stale : j <= at[p]
      BY <1>c, <1>t DEF FrontierInv
    <3>2. p = 0 \/ p \in valid
      BY <1>c, <1>t DEF BatonInv, Baton, CarryInv
    <3> QED
      BY <2>2, <3>1, <3>2, <1>c
  <2>5. pc'[q] = pc[q] /\ entry[q] # NoEntry
    BY <2>1, <2>3, <2>4, WrongAssumption DEF Truth, NoEntry
  <2>6. Front' = IF q \in marker THEN q + 1 ELSE q
    BY <2>1, <2>3, <2>4, <2>5, HandedTo
  <2>7. q \in marker => /\ content[q] = "good"
                        /\ pc[q] \notin {"parked", "write", "marking"}
    BY <2>1, <1>t DEF ChunksTruth, ChunkTruth, FilesInv
  <2>8. at[p] \in Pages => pc[at[p]] \notin {"parked", "write", "marking"}
    BY <2>3, <1>t DEF OnTimeInv
  <2>9. \A r \in Procs : r >= Front /\ r < Front' =>
            r = at[p] \/ (q \in marker /\ r = q)
    BY <2>2, <2>6, <1>f, <1>c, <1>t DEF Procs
  <2>10. Front' > Front
    BY <2>2, <2>6, <1>f, <1>c
  <2>11. \A r \in Pages : pc'[r] \in {"parked", "write", "marking"} =>
             pc[r] \in {"parked", "write", "marking"}
    BY <2>3, <1>t DEF TypeOK
  <2>12. content'[at[p]] = "good"
         /\ \A r \in Procs : r # at[p] => content'[r] = content[r]
    BY <2>3, <1>c, <1>t DEF TypeOK, Procs
  <2>13. \A r \in 0 .. Front - 1 : content'[r] = content[r]
    BY <2>12, <1>f, <1>c, RegionBelow
  <2>14. pc'[0] = "assembled" <=> pc[0] = "assembled"
    BY <2>3, <1>t DEF TypeOK
  <2>15. \A r \in Procs : r >= Front /\ r < Front' =>
             /\ content'[r] = "good"
             /\ r \in Pages => pc'[r] \notin {"parked", "write", "marking"}
    BY <2>7, <2>8, <2>9, <2>11, <2>12
  <2> QED
    BY <2>10, <2>11, <2>13, <2>14, <2>15, <1>t, FrontMoves DEF Abstract!Next
<1>3. CASE Overrule(p)
  <2>1. PICK q \in Pages : q \in Reached(st[p], at[p])
                           /\ at' = [at EXCEPT ![p] = q]
    BY <1>3, <1>n DEF Overrule
  <2>2. q = at[p] + 1
    BY <2>1, ReachedPage, <1>t DEF Pages, End
  <2>3. /\ content' = [content EXCEPT ![at[p]] = "good"]
        /\ pc[p] = "carry" /\ pc' = [pc EXCEPT ![p] = "await"]
    BY <1>3, <1>n DEF Overrule
  <2>4. Carries(p)' /\ at'[p] = q
    BY <2>1, <2>3, <1>t DEF Carries, TypeOK
  <2>6. Front' = q
    BY <2>4, <1>a, <1>t, FrontOfNext DEF BatonInv, Baton, HolderFront
  <2>8. at[p] \in Pages => pc[at[p]] \notin {"parked", "write", "marking"}
    BY <2>3, <1>t DEF OnTimeInv
  <2>9. \A r \in Procs : r >= Front /\ r < Front' => r = at[p]
    BY <2>2, <2>6, <1>f, <1>c, <1>t DEF Procs
  <2>10. Front' > Front
    BY <2>2, <2>6, <1>f, <1>c
  <2>11. \A r \in Pages : pc'[r] \in {"parked", "write", "marking"} =>
             pc[r] \in {"parked", "write", "marking"}
    BY <2>3, <1>t DEF TypeOK
  <2>12. content'[at[p]] = "good"
         /\ \A r \in Procs : r # at[p] => content'[r] = content[r]
    BY <2>3, <1>c, <1>t DEF TypeOK, Procs
  <2>13. \A r \in 0 .. Front - 1 : content'[r] = content[r]
    BY <2>12, <1>f, <1>c, RegionBelow
  <2>14. pc'[0] = "assembled" <=> pc[0] = "assembled"
    BY <2>3, <1>t DEF TypeOK
  <2>15. \A r \in Procs : r >= Front /\ r < Front' =>
             /\ content'[r] = "good"
             /\ r \in Pages => pc'[r] \notin {"parked", "write", "marking"}
    BY <2>8, <2>9, <2>11, <2>12
  <2> QED
    BY <2>10, <2>11, <2>13, <2>14, <2>15, <1>t, FrontMoves DEF Abstract!Next
<1>4. CASE RunOut(p)
  <2>1. at[p] = N
    BY <1>4, <1>n, <1>c, <1>t DEF RunOut, End
  <2>3. /\ content' = [content EXCEPT ![at[p]] = "good"]
        /\ pc[p] = "carry" /\ valid' = valid
        /\ pc' = [pc EXCEPT ![p] = IF p = 0 THEN "finalize" ELSE "done"]
    BY <1>4, <1>n DEF RunOut
  <2>4. \A q \in Procs : ~Holds(q)'
    BY <2>3, <1>c, <1>t DEF Holds, TypeOK
  <2>6. Front' = N + 1
    BY <2>4, <1>t, FrontOfNext DEF BatonInv, Baton, End
  <2>8. at[p] \in Pages => pc[at[p]] \notin {"parked", "write", "marking"}
    BY <2>3, <1>t DEF OnTimeInv
  <2>9. \A r \in Procs : r >= Front /\ r < Front' => r = at[p]
    BY <2>1, <2>6, <1>f, <1>c, <1>t DEF Procs
  <2>10. Front' > Front
    BY <2>1, <2>6, <1>f, <1>c
  <2>11. \A r \in Pages : pc'[r] \in {"parked", "write", "marking"} =>
             pc[r] \in {"parked", "write", "marking"}
    BY <2>3, <1>t DEF TypeOK
  <2>12. content'[at[p]] = "good"
         /\ \A r \in Procs : r # at[p] => content'[r] = content[r]
    BY <2>3, <1>c, <1>t DEF TypeOK, Procs
  <2>13. \A r \in 0 .. Front - 1 : content'[r] = content[r]
    BY <2>12, <1>f, <1>c, RegionBelow
  <2>14. pc'[0] = "assembled" <=> pc[0] = "assembled"
    BY <2>3, <1>t DEF TypeOK
  <2>15. \A r \in Procs : r >= Front /\ r < Front' =>
             /\ content'[r] = "good"
             /\ r \in Pages => pc'[r] \notin {"parked", "write", "marking"}
    BY <2>8, <2>9, <2>11, <2>12
  <2> QED
    BY <2>10, <2>11, <2>13, <2>14, <2>15, <1>t, FrontMoves DEF Abstract!Next
<1> QED
  BY <1>1, <1>2, <1>3, <1>4 DEF CarrierStep

(* The verifier assembles only what is settled to the document's end.       *)
LEMMA AssembleSettles ==
    ASSUME RoundInv, RoundInv', SettledInv, Assemble
    PROVE  SettledInv' /\ Abstract!Publish
<1>t. /\ BatonInv /\ BatonInv' /\ TypeOK /\ OneCarrier /\ N \in Nat
      /\ CleanInv /\ HandInv /\ FrontierInv /\ CarryInv /\ VerifierInv
  BY NAssumption
     DEF RoundInv, BatonInv, Baton, WritersInv, PlainInv
<1>1. /\ pc[0] = "finalize" /\ pc' = [pc EXCEPT ![0] = "assembled"]
      /\ Pages \subseteq valid \cup stale /\ Pages \subseteq marker
      /\ N \in stale /\ handedOff => endDone
      /\ UNCHANGED <<at, valid, marker, content>>
  BY DEF Assemble, files
<1>2. Front = N + 1
  <2>1. ASSUME NEW p \in Procs, Holds(p) PROVE HolderFront(p) = N + 1
    <3>1. p # 0 /\ p \in valid
      BY <2>1, <1>1, <1>t DEF Holds, CarryInv, Carries, TypeOK, Pages
    <3>2. N \in Pages /\ N \in valid \cup stale /\ ~endDone
      BY <3>1, <2>1, <1>1, <1>t DEF HandInv, TypeOK, Pages
    <3>3. CASE Carries(p)
      <4>1. at[p] \in stale \cup {0} /\ N <= at[p]
        BY <3>2, <3>3, <1>t DEF CleanInv, FrontierInv
      <4>2. N \in stale
        BY <3>2, <4>1, <1>t DEF TypeOK, Pages
      <4> QED
        BY <1>1, <3>1, <3>2, <4>2, <1>t DEF HandInv
    <3>4. CASE ~Carries(p)
      <4>1. Unheard(p)
        BY <2>1, <3>4 DEF Holds, Carries, Unheard
      <4>2. N <= p
        BY <3>1, <3>2, <4>1, <1>t DEF FrontierInv
      <4>3. p = N
        BY <4>2, <1>t DEF Procs
      <4> QED
        BY <1>1, <3>2, <3>4, <4>3 DEF HolderFront
    <3> QED
      BY <3>3, <3>4
  <2> QED
    BY <2>1, <1>t, FrontOf DEF End
<1>3. Front' = Front
  BY <1>1, <1>t, FrontStays DEF TypeOK, Holds, HolderFront, Carries
<1>4. SettledInv'
  BY <1>1, <1>3, <1>t DEF SettledInv, TypeOK, Pages
<1>5. 0 \in Procs /\ pc'[0] = "assembled"
  BY <1>1, <1>t DEF TypeOK, Procs
<1> QED
  BY <1>1, <1>2, <1>3, <1>4, <1>5 DEF Abstract!Publish

(* Every step of a round without faults is a step of the settlement, or     *)
(* leaves it as it is.                                                      *)
LEMMA NextSettles ==
    ASSUME Faults = {}, RoundInv, RoundInv', SettledInv, [Next]_vars
    PROVE  SettledInv' /\ [Abstract!Next]_(Abstract!vars)
<1>1. ASSUME NEW k \in Pages, Mishap(k) PROVE FALSE
  BY <1>1 DEF Mishap, Taint, Spill, Die
<1>2. CASE UNCHANGED vars
  <2>1. UNCHANGED <<pc, at, valid, marker, content>>
    BY <1>2 DEF vars, files
  <2>2. Front' = Front
    BY <2>1, FrontStays DEF RoundInv, Holds, HolderFront, Carries
  <2> QED
    BY <2>1, <2>2, FrontAtRest DEF RoundInv
<1> QED
  BY <1>1, <1>2, ChunkSettles, CarrierSettles, AssembleSettles
     DEF Next, Over, Abstract!Next

(* The relay implements in-order settlement, for any number of parked       *)
(* pages: in a round without faults what is settled is right and is never   *)
(* written again, and only a document settled to its end is published.      *)
THEOREM ImplementsInOrder ==
    ASSUME Faults = {}
    PROVE  Spec => ImplementsSettlement
<1>1. Init => Abstract!Init
  <2> SUFFICES ASSUME Init PROVE Abstract!Init
    OBVIOUS
  <2>1. Front = 0
    <3>1. Holds(0) /\ HolderFront(0) = 0 /\ 0 \in Procs
      BY NAssumption DEF Init, Holds, HolderFront, Carries, Procs
    <3> QED
      BY <3>1, InitBaton, FrontOf DEF BatonInv, Baton
  <2>2. pc[0] # "assembled"
    BY NAssumption DEF Init, Procs
  <2>3. content = [r \in 0 .. N |-> "blank"]
    BY DEF Init, Procs
  <2> QED
    BY <2>1, <2>2, <2>3 DEF Abstract!Init
<1>2. Init => RoundInv /\ SettledInv
  BY InitRound
<1>3. RoundInv /\ [Next]_vars => RoundInv'
  BY NextRound
<1>4. RoundInv /\ RoundInv' /\ SettledInv /\ [Next]_vars
      => SettledInv' /\ [Abstract!Next]_(Abstract!vars)
  BY NextSettles
<1> QED
  BY <1>1, <1>2, <1>3, <1>4, PTL
     DEF Spec, ImplementsSettlement, Abstract!Spec

=============================================================================
