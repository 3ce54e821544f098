------------------------- MODULE InstallationProofs -------------------------
(***************************************************************************)
(* Types of the driver and its cache, and that a run beside which nothing  *)
(* was edited sets the document it would have set from nothing.            *)
(***************************************************************************)
EXTENDS Installation, TLAPS

-----------------------------------------------------------------------------
(* Types. *)

Bit == {0, 1}
Worlds == [where : Places, lists : Nat, latex : [Places -> Bit], build : Bit,
           text : Bit, beside : Bit, aux : BOOLEAN]

FormatKeys == Bit \X Places \X Bit \X Nat
PreambleKeys == FormatKeys \X Bit \X Bit

Formats == [latex : Places \X Bit, lists : Nat, build : Bit]
States == [format : Formats, read : (Bit \X Bit \X Nat) \cup {None},
           at : {"begin", "end"}]
KeptOf(S) == [what : S, calm : BOOLEAN]
Records == KeptOf([lists : Nat, place : Places])

Runs == [pc : {"idle", "begun", "found", "saving", "opened", "written", "keyed",
               "building", "formatted", "engine", "reading", "aux", "putting",
               "body", "ended"},
         id : Nat, asks : Asked \cup {None}, build : Bit \cup {None},
         place : Places \cup {None}, known : BOOLEAN, fd : Nat \cup {None},
         format : FormatKeys \cup {None}, making : Formats \cup {None},
         key : PreambleKeys \cup {None}, state : States \cup {None},
         put : BOOLEAN, passes : Nat, calm : BOOLEAN]

Writers == [run : Nat, key : PreambleKeys, opens : BOOLEAN, state : KeptOf(States)]

\* How far a run has come.
Begun(r) == r.pc # "idle"
Placed(r) == r.pc \notin {"idle", "begun"}
Keyed(r) == r.pc \notin {"idle", "begun", "found"}
Reads(r) == r.pc \in {"reading", "aux", "putting", "body", "ended"}
Starts(r) == r.pc = "engine" \/ Reads(r)
Formatted(r) == r.pc = "formatted" \/ Starts(r)

TypeOK ==
  /\ world \in Worlds
  /\ inode \in Seq(Records \cup {None})
  /\ name \in [tmp : 0 .. Len(inode), record : 0 .. Len(inode)]
  /\ DOMAIN formats \subseteq FormatKeys
  /\ formats \in [DOMAIN formats -> KeptOf(Formats)]
  /\ DOMAIN preambles \subseteq PreambleKeys
  /\ preambles \in [DOMAIN preambles -> KeptOf(States) \cup {None}]
  /\ writers \subseteq Writers
  /\ run \in [Drivers -> Runs]
  /\ budget \in BudgetsOf(Nat)

\* And what a run has got by then.
Got(r) ==
  /\ Begun(r) => r.asks \in Asked /\ r.build \in Bit
  /\ Placed(r) => r.place \in Places
  /\ Keyed(r) => r.format \in FormatKeys
  /\ r.pc \in {"opened", "written"} => r.fd \in 1 .. Len(inode)
  /\ r.pc = "building" => r.making \in Formats
  /\ Formatted(r) => r.format \in DOMAIN formats
  /\ Reads(r) => r.state \in States

TypeInv == TypeOK /\ \A d \in Drivers : Got(run[d])

-----------------------------------------------------------------------------
(* What a key says of what lies under it. *)

FormatUnder(k) == [latex |-> <<k[2], k[3]>>, lists |-> k[4], build |-> k[1]]
StateUnder(k) == [format |-> FormatUnder(k[1]), read |-> <<k[2], k[3], k[1][4]>>,
                  at |-> "begin"]

\* A record speaks of the lists it names; those of now are the last.
TrueRecord(r) ==
  r # None => /\ r.what.lists <= world.lists
              /\ r.calm /\ r.what.lists = world.lists => r.what.place = world.where

CacheInv ==
  /\ \A i \in 1 .. Len(inode) : TrueRecord(inode[i])
  /\ \A k \in DOMAIN formats : formats[k].calm => formats[k].what = FormatUnder(k)
  /\ \A k \in DOMAIN preambles :
        preambles[k] # None /\ preambles[k].calm => preambles[k].what = StateUnder(k)
  /\ \A w \in writers : w.state.calm => w.state.what = StateUnder(w.key)

\* What a run has found is what there is, if nothing was edited.
Now == FormatKey(world.where, world.build)
TrueRun(r) ==
  r.calm =>
    /\ Begun(r) => r.build = world.build
    /\ Placed(r) => r.place = world.where
    /\ Keyed(r) => r.format = Now
    /\ r.pc = "building" => r.making = FormatOf(world.where)
    /\ Starts(r) => r.key = None \/ r.key = PreambleKey(Now)
    /\ r.pc = "reading" => r.state = FromFormat(FormatOf(world.where))
    /\ r.pc \in {"aux", "putting", "body"} => r.state = Afresh

Inv == TypeInv /\ CacheInv /\ \A d \in Drivers : TrueRun(run[d])

-----------------------------------------------------------------------------
(* Keys. *)

\* What lies under the keys of now is what there is now.
LEMMA KeysSpeak ==
  /\ FormatUnder(Now) = FormatOf(world.where)
  /\ StateUnder(PreambleKey(Now)) = Afresh
<1>1. FormatUnder(Now) = FormatOf(world.where)
  BY DEF FormatUnder, Now, FormatKey, FormatOf
<1>2. Afresh = [format |-> FormatOf(world.where),
                read |-> <<world.text, world.beside, world.lists>>, at |-> "begin"]
  BY DEF Afresh, PreambleRead, FromFormat
<1>3. PreambleKey(Now) = <<Now, world.text, world.beside>> /\ Now[4] = world.lists
  BY DEF PreambleKey, Now, FormatKey
<1>4. StateUnder(PreambleKey(Now)) = [format |-> FormatUnder(Now),
                read |-> <<world.text, world.beside, world.lists>>, at |-> "begin"]
  BY <1>3 DEF StateUnder
<1> QED
  BY <1>1, <1>2, <1>4

\* Where but an .aux comes and goes, they stay what they are.
Still == world' = world \/ world' = [world EXCEPT !.aux = TRUE]

\* Nothing that a key speaks of has changed then.
LEMMA StillTheSame ==
  ASSUME world \in Worlds, Still
  PROVE  /\ world' \in Worlds
         /\ world'.where = world.where /\ world'.build = world.build
         /\ world'.lists = world.lists
         /\ FormatOf(world.where)' = FormatOf(world.where)
         /\ Now' = Now /\ PreambleKey(Now)' = PreambleKey(Now) /\ Afresh' = Afresh
<1>1. /\ world' \in Worlds
      /\ world'.where = world.where /\ world'.lists = world.lists
      /\ world'.latex = world.latex /\ world'.build = world.build
      /\ world'.text = world.text /\ world'.beside = world.beside
  BY DEF Still, Worlds
<1>2. FormatOf(world.where)' = FormatOf(world.where) /\ Now' = Now
  BY <1>1 DEF FormatOf, Now, FormatKey
<1>3. PreambleKey(Now)' = PreambleKey(Now)
  BY <1>1, <1>2 DEF PreambleKey
<1>4. Afresh' = Afresh
  BY <1>1, <1>2 DEF Afresh, PreambleRead, FromFormat
<1> QED
  BY <1>1, <1>2, <1>3, <1>4

-----------------------------------------------------------------------------
(* What a step of one run leaves of the others. *)

\* The run d moves, what is kept grows, the world stands still.
Moves(d) ==
  /\ Still
  /\ run' \in [Drivers -> Runs]
  /\ \A e \in Drivers \ {d} : run'[e] = run[e]
  /\ DOMAIN formats \subseteq DOMAIN formats'
  /\ Len(inode) <= Len(inode')

\* So what the others have, and what is true of them, stays.
LEMMA OthersStay ==
  ASSUME Inv, NEW d \in Drivers, Moves(d), Len(inode) \in Nat, Len(inode') \in Nat,
         Got(run[d])', TrueRun(run[d])'
  PROVE  \A e \in Drivers : Got(run[e])' /\ TrueRun(run[e])'
<1> SUFFICES ASSUME NEW e \in Drivers, e # d
             PROVE  Got(run[e])' /\ TrueRun(run[e])'
  OBVIOUS
<1>1. run'[e] = run[e]
  BY DEF Moves
<1>2. Got(run[e])'
  <2>1. Got(run[e])
    BY DEF Inv, TypeInv
  <2> QED
    BY <1>1, <2>1 DEF Got, Begun, Placed, Keyed, Reads, Starts, Formatted, Moves
<1>3. TrueRun(run[e])'
  <2>1. TrueRun(run[e])
    BY DEF Inv
  <2>2. /\ world'.where = world.where /\ world'.build = world.build
        /\ FormatOf(world.where)' = FormatOf(world.where)
        /\ Now' = Now /\ PreambleKey(Now)' = PreambleKey(Now) /\ Afresh' = Afresh
    BY StillTheSame DEF Inv, TypeInv, TypeOK, Moves
  <2>3. FromFormat(FormatOf(world.where))' = FromFormat(FormatOf(world.where))
    BY <2>2 DEF FromFormat
  <2> QED
    BY <1>1, <2>1, <2>2, <2>3 DEF TrueRun, Begun, Placed, Keyed, Reads, Starts
<1> QED
  BY <1>2, <1>3

\* What is kept stays true when nothing is put there.
LEMMA CacheStays ==
  ASSUME Inv, Still, UNCHANGED <<inode, formats, preambles>>, writers' \subseteq writers
  PROVE  CacheInv'
<1>1. world'.lists = world.lists /\ world'.where = world.where
  BY StillTheSame DEF Inv, TypeInv, TypeOK
<1>2. \A i \in 1 .. Len(inode) : TrueRecord(inode[i]) => TrueRecord(inode[i])'
  BY <1>1 DEF TrueRecord
<1> QED
  BY <1>2 DEF Inv, CacheInv

\* A step of one run that touches nothing but itself.
Alone(d) ==
  /\ world' = world /\ UNCHANGED <<cache, writers>> /\ budget' \in BudgetsOf(Nat)
  /\ run' \in [Drivers -> Runs]
  /\ \A e \in Drivers \ {d} : run'[e] = run[e]

\* Such a step keeps everything, if it keeps what is said of the run.
LEMMA AloneKeeps ==
  ASSUME Inv, NEW d \in Drivers, Alone(d), Got(run[d])', TrueRun(run[d])'
  PROVE  Inv'
<1>1. Len(inode) \in Nat /\ inode' = inode
  BY DEF Inv, TypeInv, TypeOK, Alone, cache
<1>2. Moves(d)
  BY <1>1 DEF Alone, Moves, cache, Still
<1>3. \A e \in Drivers : Got(run[e])' /\ TrueRun(run[e])'
  BY <1>1, <1>2, OthersStay
<1>4. CacheInv'
  BY CacheStays DEF Alone, cache, Still
<1>5. TypeOK'
  BY DEF Inv, TypeInv, TypeOK, Alone, cache
<1> QED
  BY <1>3, <1>4, <1>5 DEF Inv, TypeInv

\* A run that has not begun.
LEMMA IdleIsARun ==
  Idle \in Runs /\ Got(Idle) /\ TrueRun(Idle) /\ Idle.pc = "idle" /\ Idle.calm
<1>1. /\ Idle.pc = "idle" /\ Idle.calm
  BY DEF Idle
<1>2. Idle \in Runs
  BY DEF Idle, Runs
<1> QED
  BY <1>1, <1>2 DEF Got, TrueRun, Begun, Placed, Keyed, Reads, Starts, Formatted

\* The steps of a driver that look at the cache and at the disk: what a calm
\* run finds is what there is.
LEMMA DriverKeeps ==
  ASSUME Inv, NEW d \in Drivers,
         \/ Begin(d) \/ LoadRecord(d) \/ AskWhere(d) \/ Fingerprint(d)
         \/ TakeFormat(d) \/ BuildFormat(d) \/ BuildFails(d) \/ KeyPreamble(d)
  PROVE  Inv'
<1>t. /\ run \in [Drivers -> Runs] /\ run[d] \in Runs /\ Got(run[d]) /\ TrueRun(run[d])
      /\ world \in Worlds /\ budget \in BudgetsOf(Nat)
  BY DEF Inv, TypeInv, TypeOK
<1>r. run[d] \in Runs
  BY <1>t
<1>1. ASSUME Begin(d) PROVE Alone(d) /\ Got(run[d])' /\ TrueRun(run[d])'
  <2>1. PICK asks \in budget.asks :
          run' = [run EXCEPT ![d] = [Idle EXCEPT !.pc = "begun", !.asks = asks,
                                       !.id = budget.runs, !.build = world.build]]
    BY <1>1 DEF Begin
  <2>2. /\ run'[d] \in Runs /\ run'[d].pc = "begun" /\ run'[d].asks \in Asked
        /\ run'[d].build = world.build /\ world.build \in Bit
    <3>1. world.build \in Bit /\ asks \in Asked /\ budget.runs \in Nat
      BY <1>t DEF BudgetsOf, Worlds
    <3>2. run'[d] = [Idle EXCEPT !.pc = "begun", !.asks = asks,
                                 !.id = budget.runs, !.build = world.build]
      BY <1>t, <2>1
    <3> DEFINE n == budget.runs
               b == world.build
    <3>3. n \in Nat /\ b \in Bit
      BY <3>1
    <3>4. run'[d] = [Idle EXCEPT !.pc = "begun", !.asks = asks, !.id = n, !.build = b]
      BY <3>2
    <3> HIDE DEF n, b
    <3>5. [Idle EXCEPT !.pc = "begun", !.asks = asks, !.id = n, !.build = b] \in Runs
      BY <3>1, <3>3, IdleIsARun DEF Runs
    <3>6. run'[d].pc = "begun" /\ run'[d].asks = asks /\ run'[d].build = b
      BY <3>4, IdleIsARun DEF Runs
    <3> QED
      BY <3>1, <3>4, <3>5, <3>6 DEF b
  <2>3. budget' \in BudgetsOf(Nat)
    <3>1. budget' = [budget EXCEPT !.runs = @ - 1] /\ budget.runs > 0
      BY <1>1 DEF Begin
    <3>2. budget.runs \in Nat
      BY <1>t DEF BudgetsOf
    <3>3. budget.runs - 1 \in Nat
      BY <3>1, <3>2
    <3> QED
      BY <1>t, <3>1, <3>3 DEF BudgetsOf
  <2>4. Alone(d)
    BY <1>1, <1>t, <2>1, <2>2, <2>3 DEF Alone, Begin
  <2> QED
    BY <1>1, <2>2, <2>4
       DEF Begin, Got, TrueRun, Begun, Placed, Keyed, Reads, Starts, Formatted
<1>2. ASSUME LoadRecord(d) PROVE Alone(d) /\ Got(run[d])' /\ TrueRun(run[d])'
  <2>1. /\ Recorded = inode[name.record] /\ name.record \in 1 .. Len(inode)
        /\ Recorded # None /\ Recorded.what.lists = world.lists
    BY <1>2 DEF LoadRecord, Current, Recorded, Inv, TypeInv, TypeOK
  <2>2. Recorded \in Records
    BY <2>1 DEF Inv, TypeInv, TypeOK
  <2>3. Recorded.calm => Recorded.what.place = world.where
    BY <2>1 DEF Inv, CacheInv, TrueRecord
  <2>4. run' = [run EXCEPT ![d].pc = "found", ![d].known = TRUE,
                           ![d].place = Recorded.what.place,
                           ![d].calm = @ /\ Recorded.calm]
    BY <1>2 DEF LoadRecord
  <2>5. Recorded.what.place \in Places /\ Recorded.calm \in BOOLEAN
    BY <2>2 DEF Records, KeptOf
  <2>6. /\ run'[d] \in Runs /\ run'[d].pc = "found"
        /\ run'[d].place = Recorded.what.place /\ run'[d].asks = run[d].asks
        /\ run'[d].build = run[d].build
        /\ run'[d].calm => run[d].calm /\ Recorded.calm
    <3> DEFINE calm == run[d].calm /\ Recorded.calm
    <3>1. calm \in BOOLEAN
      OBVIOUS
    <3>2. run' = [run EXCEPT ![d] = [run[d] EXCEPT !.pc = "found", !.known = TRUE,
                                 !.place = Recorded.what.place, !.calm = calm]]
      BY <1>t, <2>4
    <3> DEFINE place == Recorded.what.place
    <3> HIDE DEF calm, place
    <3>p. place \in Places
      BY <2>5 DEF place
    <3>3. run'[d] = [run[d] EXCEPT !.pc = "found", !.known = TRUE,
                                   !.place = place, !.calm = calm]
      BY <1>t, <3>2 DEF place
    <3>4. [run[d] EXCEPT !.pc = "found", !.known = TRUE, !.place = place,
                         !.calm = calm] \in Runs
      BY <1>r, <3>p, <3>1 DEF Runs
    <3>5. /\ run'[d].pc = "found"
          /\ run'[d].place = place /\ run'[d].asks = run[d].asks
          /\ run'[d].build = run[d].build /\ run'[d].calm = calm
      BY <1>r, <3>3 DEF Runs
    <3> QED
      BY <3>3, <3>4, <3>5 DEF calm, place
  <2>7. run[d].pc = "begun"
    BY <1>2 DEF LoadRecord, At
  <2>8. Alone(d)
    BY <1>2, <1>t, <2>4, <2>6 DEF Alone, LoadRecord
  <2> QED
    BY <1>2, <1>t, <2>3, <2>5, <2>6, <2>7, <2>8
       DEF LoadRecord, Got, TrueRun, Begun, Placed, Keyed, Reads, Starts, Formatted
<1>3. ASSUME AskWhere(d) PROVE Alone(d) /\ Got(run[d])' /\ TrueRun(run[d])'
  <2>1. run[d].pc = "begun" /\ run' = [run EXCEPT ![d].pc = "found", ![d].place = world.where]
    BY <1>3 DEF AskWhere, At
  <2>2. world.where \in Places
    BY <1>t DEF Worlds
  <2>3. /\ run'[d] \in Runs /\ run'[d].pc = "found" /\ run'[d].place = world.where
        /\ run'[d].asks = run[d].asks /\ run'[d].build = run[d].build
        /\ run'[d].calm = run[d].calm
    BY <1>t, <2>1, <2>2 DEF Runs
  <2>4. Alone(d)
    BY <1>3, <1>t, <2>1, <2>3 DEF Alone, AskWhere
  <2> QED
    BY <1>3, <1>t, <2>1, <2>2, <2>3, <2>4
       DEF AskWhere, Got, TrueRun, Begun, Placed, Keyed, Reads, Starts, Formatted
<1>4. ASSUME Fingerprint(d) PROVE Alone(d) /\ Got(run[d])' /\ TrueRun(run[d])'
  <2> DEFINE next == IF run[d].known THEN "keyed" ELSE "saving"
             format == FormatKey(run[d].place, run[d].build)
  <2>1. run[d].pc = "found" /\ run' = [run EXCEPT ![d].format = format, ![d].pc = next]
    BY <1>4 DEF Fingerprint, At
  <2>2. format \in FormatKeys /\ next \in {"keyed", "saving"}
    <3>1. run[d].place \in Places /\ run[d].build \in Bit
      BY <1>t, <2>1 DEF Got, Placed, Begun
    <3> QED
      BY <1>t, <3>1 DEF FormatKey, FormatKeys, Worlds
  <2>3. run[d].calm => format = Now
    BY <1>t, <2>1 DEF TrueRun, Placed, Begun, Now
  <2> HIDE DEF next, format
  <2>4. /\ run'[d] \in Runs /\ run'[d].pc = next /\ run'[d].format = format
        /\ run'[d].asks = run[d].asks /\ run'[d].build = run[d].build
        /\ run'[d].place = run[d].place /\ run'[d].calm = run[d].calm
    BY <1>t, <2>1, <2>2 DEF Runs
  <2>5. Alone(d) /\ world' = world
    BY <1>4, <1>t, <2>1, <2>4 DEF Alone, Fingerprint
  <2>6. Now' = Now
    BY <2>5 DEF Now, FormatKey
  <2> QED
    BY <1>t, <2>1, <2>2, <2>3, <2>4, <2>5, <2>6
       DEF Got, TrueRun, Begun, Placed, Keyed, Reads, Starts, Formatted
<1>5. ASSUME TakeFormat(d) PROVE Alone(d) /\ Got(run[d])' /\ TrueRun(run[d])'
  <2>1. /\ run[d].pc = "keyed" /\ run' = [run EXCEPT ![d].pc = "formatted"]
        /\ run[d].format \in DOMAIN formats
    BY <1>5 DEF TakeFormat, At
  <2>2. /\ run'[d] \in Runs /\ run'[d] = [run[d] EXCEPT !.pc = "formatted"]
    BY <1>t, <2>1 DEF Runs
  <2>3. /\ run'[d].pc = "formatted" /\ run'[d].format = run[d].format
        /\ run'[d].asks = run[d].asks /\ run'[d].build = run[d].build
        /\ run'[d].place = run[d].place /\ run'[d].calm = run[d].calm
    BY <1>t, <2>2 DEF Runs
  <2>4. Alone(d) /\ world' = world /\ formats' = formats
    BY <1>5, <1>t, <2>1, <2>2 DEF Alone, TakeFormat, cache
  <2>5. Now' = Now
    BY <2>4 DEF Now, FormatKey
  <2> QED
    BY <1>t, <2>1, <2>3, <2>4, <2>5
       DEF Got, TrueRun, Begun, Placed, Keyed, Reads, Starts, Formatted
<1>6. ASSUME BuildFormat(d) PROVE Alone(d) /\ Got(run[d])' /\ TrueRun(run[d])'
  <2> DEFINE making == FormatOf(run[d].place)
  <2>1. /\ run[d].pc = "keyed" /\ run' = [run EXCEPT ![d].pc = "building", ![d].making = making]
    BY <1>6 DEF BuildFormat, At
  <2>2. making \in Formats
    <3>1. run[d].place \in Places
      BY <1>t, <2>1 DEF Got, Placed
    <3> QED
      BY <1>t, <3>1 DEF FormatOf, Formats, Worlds
  <2>3. run[d].calm => making = FormatOf(world.where)
    BY <1>t, <2>1 DEF TrueRun, Placed
  <2> HIDE DEF making
  <2>4. /\ run'[d] \in Runs
        /\ run'[d] = [run[d] EXCEPT !.pc = "building", !.making = making]
    BY <1>t, <2>1, <2>2 DEF Runs
  <2>5. /\ run'[d].pc = "building" /\ run'[d].making = making
        /\ run'[d].format = run[d].format
        /\ run'[d].asks = run[d].asks /\ run'[d].build = run[d].build
        /\ run'[d].place = run[d].place /\ run'[d].calm = run[d].calm
    BY <1>t, <2>4 DEF Runs
  <2>6. Alone(d) /\ world' = world /\ formats' = formats
    BY <1>6, <1>t, <2>1, <2>4 DEF Alone, BuildFormat, cache
  <2>7. Now' = Now /\ FormatOf(world.where)' = FormatOf(world.where)
    BY <2>6 DEF Now, FormatKey, FormatOf
  <2> QED
    BY <1>t, <2>1, <2>2, <2>3, <2>5, <2>6, <2>7
       DEF Got, TrueRun, Begun, Placed, Keyed, Reads, Starts, Formatted
<1>7. ASSUME BuildFails(d) PROVE Alone(d) /\ Got(run[d])' /\ TrueRun(run[d])'
  <2>1. run' = [run EXCEPT ![d] = Idle]
    BY <1>7 DEF BuildFails, Stops
  <2>2. run'[d] = Idle /\ run'[d] \in Runs /\ run'[d].pc = "idle"
    BY <1>t, <2>1, IdleIsARun
  <2>3. Alone(d)
    BY <1>7, <1>t, <2>1, <2>2 DEF Alone, BuildFails
  <2> QED
    BY <2>2, <2>3 DEF Got, TrueRun, Begun, Placed, Keyed, Reads, Starts, Formatted
<1>8. ASSUME KeyPreamble(d) PROVE Alone(d) /\ Got(run[d])' /\ TrueRun(run[d])'
  <2> DEFINE key == IF run[d].asks.halt \/ ~run[d].asks.preamble THEN None
                    ELSE PreambleKey(run[d].format)
  <2>1. /\ run[d].pc = "formatted" /\ run' = [run EXCEPT ![d].pc = "engine", ![d].key = key]
    BY <1>8 DEF KeyPreamble, At
  <2>2. key \in PreambleKeys \cup {None}
    <3>1. run[d].format \in FormatKeys
      BY <1>t, <2>1 DEF Got, Keyed
    <3>2. PreambleKey(run[d].format) \in PreambleKeys
      BY <1>t, <3>1 DEF PreambleKey, PreambleKeys, Worlds
    <3> QED
      BY <3>2
  <2>3. run[d].calm => key = None \/ key = PreambleKey(Now)
    BY <1>t, <2>1 DEF TrueRun, Keyed
  <2> HIDE DEF key
  <2>4. /\ run'[d] \in Runs /\ run'[d] = [run[d] EXCEPT !.pc = "engine", !.key = key]
    <3>1. run'[d] = [run[d] EXCEPT !.pc = "engine", !.key = key]
      BY <1>t, <2>1
    <3>2. [run[d] EXCEPT !.pc = "engine", !.key = key] \in Runs
      BY <1>r, <2>2 DEF Runs
    <3> QED
      BY <3>1, <3>2
  <2>5. /\ run'[d].pc = "engine" /\ run'[d].key = key /\ run'[d].format = run[d].format
        /\ run'[d].asks = run[d].asks /\ run'[d].build = run[d].build
        /\ run'[d].place = run[d].place /\ run'[d].calm = run[d].calm
    BY <1>t, <2>4 DEF Runs
  <2>6. Alone(d) /\ world' = world /\ formats' = formats
    BY <1>8, <1>t, <2>1, <2>4 DEF Alone, KeyPreamble, cache
  <2>7. Now' = Now /\ PreambleKey(Now)' = PreambleKey(Now)
    BY <2>6 DEF Now, FormatKey, PreambleKey
  <2> QED
    BY <1>t, <2>1, <2>3, <2>5, <2>6, <2>7
       DEF Got, TrueRun, Begun, Placed, Keyed, Reads, Starts, Formatted
<1> QED
  BY <1>1, <1>2, <1>3, <1>4, <1>5, <1>6, <1>7, <1>8, AloneKeeps

\* A step of one run that puts something where it is kept.
LEMMA PutKeeps ==
  ASSUME Inv, NEW d \in Drivers, Moves(d), TypeOK', CacheInv',
         Got(run[d])', TrueRun(run[d])'
  PROVE  Inv'
<1>1. Len(inode) \in Nat /\ Len(inode') \in Nat
  BY DEF Inv, TypeInv, TypeOK
<1>2. \A e \in Drivers : Got(run[e])' /\ TrueRun(run[e])'
  BY <1>1, OthersStay
<1> QED
  BY <1>2 DEF Inv, TypeInv

\* The record's file is opened, and holds nothing.
LEMMA SaveOpensKeeps == ASSUME Inv, NEW d \in Drivers, SaveOpens(d) PROVE Inv'
<1>t. /\ run \in [Drivers -> Runs] /\ Got(run[d]) /\ TrueRun(run[d])
      /\ inode \in Seq(Records \cup {None}) /\ Len(inode) \in Nat
      /\ name \in [tmp : 0 .. Len(inode), record : 0 .. Len(inode)]
      /\ world \in Worlds
  BY DEF Inv, TypeInv, TypeOK
<1>r. run[d] \in Runs
  BY <1>t
<1> DEFINE fd == IF name.tmp = 0 THEN Len(inode) + 1 ELSE name.tmp
<1>1. /\ inode' = IF name.tmp = 0 THEN Append(inode, None) ELSE [inode EXCEPT ![fd] = None]
      /\ name' = [name EXCEPT !.tmp = fd]
      /\ run' = [run EXCEPT ![d].pc = "opened", ![d].fd = fd]
      /\ UNCHANGED <<world, formats, preambles, writers, budget>> /\ run[d].pc = "saving"
  BY DEF SaveOpens, At
<1>2. name.tmp \in 0 .. Len(inode) /\ name.record \in 0 .. Len(inode)
  BY <1>t
<1>3. /\ inode' \in Seq(Records \cup {None}) /\ Len(inode') \in Nat
      /\ Len(inode) <= Len(inode') /\ fd \in 1 .. Len(inode') /\ fd \in Nat
      /\ \A i \in 1 .. Len(inode') :
            inode'[i] = None \/ (i \in 1 .. Len(inode) /\ inode'[i] = inode[i])
  <2>1. CASE name.tmp = 0
    BY <1>1, <1>t, <2>1
  <2>2. CASE name.tmp # 0
    BY <1>1, <1>2, <1>t, <2>2
  <2> QED
    BY <2>1, <2>2
<1> HIDE DEF fd
<1>4. run'[d] = [run[d] EXCEPT !.pc = "opened", !.fd = fd]
  BY <1>1, <1>t
<1>5. [run[d] EXCEPT !.pc = "opened", !.fd = fd] \in Runs
  BY <1>r, <1>3 DEF Runs
<1>6. /\ run'[d].pc = "opened" /\ run'[d].fd = fd /\ run'[d].format = run[d].format
      /\ run'[d].asks = run[d].asks /\ run'[d].build = run[d].build
      /\ run'[d].place = run[d].place /\ run'[d].calm = run[d].calm
  BY <1>r, <1>4 DEF Runs
<1>7. Moves(d)
  <2>1. run' \in [Drivers -> Runs] /\ \A e \in Drivers \ {d} : run'[e] = run[e]
    BY <1>1, <1>4, <1>5, <1>t
  <2> QED
    BY <1>1, <1>3, <2>1 DEF Moves, Still
<1>8. TypeOK'
  <2>1. name' \in [tmp : 0 .. Len(inode'), record : 0 .. Len(inode')]
    <3>1. fd \in 0 .. Len(inode') /\ name.record \in 0 .. Len(inode')
      BY <1>2, <1>3, <1>t
    <3> QED
      BY <1>1, <1>t, <3>1
  <2> QED
    BY <1>1, <1>3, <1>7, <2>1 DEF Inv, TypeInv, TypeOK, Moves
<1>9. CacheInv'
  <2>1. \A i \in 1 .. Len(inode') : TrueRecord(inode[i])'
    <3>1. \A i \in 1 .. Len(inode) : TrueRecord(inode[i])
      BY DEF Inv, CacheInv
    <3> QED
      BY <1>1, <1>3, <3>1 DEF TrueRecord
  <2> QED
    BY <1>1, <2>1 DEF Inv, CacheInv
<1>10. Got(run[d])' /\ TrueRun(run[d])'
  <2>1. Now' = Now
    BY <1>1 DEF Now, FormatKey
  <2> QED
    BY <1>t, <1>1, <1>3, <1>6, <2>1
       DEF Got, TrueRun, Begun, Placed, Keyed, Reads, Starts, Formatted
<1> QED
  BY <1>7, <1>8, <1>9, <1>10, PutKeeps

\* A calm run records what is so.
LEMMA SaveWritesKeeps == ASSUME Inv, NEW d \in Drivers, SaveWrites(d) PROVE Inv'
<1>t. /\ run \in [Drivers -> Runs] /\ Got(run[d]) /\ TrueRun(run[d])
      /\ inode \in Seq(Records \cup {None}) /\ Len(inode) \in Nat
      /\ world \in Worlds
  BY DEF Inv, TypeInv, TypeOK
<1>r. run[d] \in Runs
  BY <1>t
<1> DEFINE fd == run[d].fd
           new == Kept([lists |-> world.lists, place |-> run[d].place], run[d].calm)
<1>1. /\ inode' = [inode EXCEPT ![fd] = new]
      /\ run' = [run EXCEPT ![d].pc = "written"]
      /\ UNCHANGED <<world, name, formats, preambles, writers, budget>>
      /\ run[d].pc = "opened"
  BY DEF SaveWrites, At
<1>2. fd \in 1 .. Len(inode) /\ run[d].place \in Places
  BY <1>1, <1>t DEF Got, Placed
<1>3. /\ new \in Records /\ new.what.lists = world.lists /\ new.what.place = run[d].place
      /\ new.calm = run[d].calm /\ world.lists <= world.lists
  <2>1. world.lists \in Nat /\ run[d].calm \in BOOLEAN
    BY <1>t, <1>r DEF Worlds, Runs
  <2> QED
    BY <1>2, <2>1 DEF Kept, Records, KeptOf
<1>4. new.calm => new.what.place = world.where
  BY <1>1, <1>3, <1>t DEF TrueRun, Placed
<1> HIDE DEF fd, new
<1>5. /\ inode' \in Seq(Records \cup {None}) /\ Len(inode') = Len(inode)
      /\ Len(inode) <= Len(inode')
      /\ \A i \in 1 .. Len(inode') : inode'[i] = new \/ inode'[i] = inode[i]
  BY <1>1, <1>2, <1>3, <1>t
<1>6. run'[d] = [run[d] EXCEPT !.pc = "written"]
  BY <1>1, <1>t
<1>7. [run[d] EXCEPT !.pc = "written"] \in Runs
  BY <1>r DEF Runs
<1>8. /\ run'[d].pc = "written" /\ run'[d].fd = fd /\ run'[d].format = run[d].format
      /\ run'[d].asks = run[d].asks /\ run'[d].build = run[d].build
      /\ run'[d].place = run[d].place /\ run'[d].calm = run[d].calm
  BY <1>r, <1>6 DEF Runs, fd
<1>9. Moves(d)
  <2>1. run' \in [Drivers -> Runs] /\ \A e \in Drivers \ {d} : run'[e] = run[e]
    BY <1>1, <1>6, <1>7, <1>t
  <2> QED
    BY <1>1, <1>5, <2>1 DEF Moves, Still
<1>10. TypeOK'
  BY <1>1, <1>5, <1>9 DEF Inv, TypeInv, TypeOK, Moves
<1>11. CacheInv'
  <2>1. \A i \in 1 .. Len(inode') : TrueRecord(inode[i])'
    <3>1. \A i \in 1 .. Len(inode) : TrueRecord(inode[i])
      BY DEF Inv, CacheInv
    <3>2. TrueRecord(new)
      BY <1>3, <1>4 DEF TrueRecord
    <3> QED
      BY <1>1, <1>5, <3>1, <3>2 DEF TrueRecord
  <2> QED
    BY <1>1, <2>1 DEF Inv, CacheInv
<1>12. Got(run[d])' /\ TrueRun(run[d])'
  <2>1. Now' = Now
    BY <1>1 DEF Now, FormatKey
  <2> QED
    BY <1>t, <1>1, <1>2, <1>5, <1>8, <2>1
       DEF Got, TrueRun, Begun, Placed, Keyed, Reads, Starts, Formatted
<1> QED
  BY <1>9, <1>10, <1>11, <1>12, PutKeeps

\* Whatever file is moved into place is one that is there.
LEMMA SaveRenamesKeeps == ASSUME Inv, NEW d \in Drivers, SaveRenames(d) PROVE Inv'
<1>t. /\ run \in [Drivers -> Runs] /\ Got(run[d]) /\ TrueRun(run[d])
      /\ Len(inode) \in Nat
      /\ name \in [tmp : 0 .. Len(inode), record : 0 .. Len(inode)]
      /\ world \in Worlds
  BY DEF Inv, TypeInv, TypeOK
<1>r. run[d] \in Runs
  BY <1>t
<1>1. /\ name' = IF name.tmp = 0 THEN name ELSE [tmp |-> 0, record |-> name.tmp]
      /\ run' = [run EXCEPT ![d].pc = "keyed"]
      /\ UNCHANGED <<world, inode, formats, preambles, writers, budget>>
      /\ run[d].pc = "written"
  BY DEF SaveRenames, At
<1>2. run'[d] = [run[d] EXCEPT !.pc = "keyed"]
  BY <1>1, <1>t
<1>3. [run[d] EXCEPT !.pc = "keyed"] \in Runs
  BY <1>r DEF Runs
<1>4. /\ run'[d].pc = "keyed" /\ run'[d].format = run[d].format
      /\ run'[d].asks = run[d].asks /\ run'[d].build = run[d].build
      /\ run'[d].place = run[d].place /\ run'[d].calm = run[d].calm
  BY <1>r, <1>2 DEF Runs
<1>5. Moves(d)
  <2>1. run' \in [Drivers -> Runs] /\ \A e \in Drivers \ {d} : run'[e] = run[e]
    BY <1>1, <1>2, <1>3, <1>t
  <2> QED
    BY <1>1, <1>t, <2>1 DEF Moves, Still
<1>6. TypeOK'
  <2>1. name' \in [tmp : 0 .. Len(inode), record : 0 .. Len(inode)]
    BY <1>1, <1>t
  <2> QED
    BY <1>1, <1>5, <2>1 DEF Inv, TypeInv, TypeOK, Moves
<1>7. CacheInv'
  BY <1>1, CacheStays DEF Still
<1>8. Got(run[d])' /\ TrueRun(run[d])'
  <2>1. Now' = Now
    BY <1>1 DEF Now, FormatKey
  <2> QED
    BY <1>t, <1>1, <1>4, <2>1
       DEF Got, TrueRun, Begun, Placed, Keyed, Reads, Starts, Formatted
<1> QED
  BY <1>5, <1>6, <1>7, <1>8, PutKeeps

\* A calm run puts under a key what the key says.
LEMMA PublishFormatKeeps == ASSUME Inv, NEW d \in Drivers, PublishFormat(d) PROVE Inv'
<1>t. /\ run \in [Drivers -> Runs] /\ Got(run[d]) /\ TrueRun(run[d])
      /\ Len(inode) \in Nat /\ world \in Worlds
      /\ DOMAIN formats \subseteq FormatKeys
      /\ formats \in [DOMAIN formats -> KeptOf(Formats)]
  BY DEF Inv, TypeInv, TypeOK
<1>r. run[d] \in Runs
  BY <1>t
<1> DEFINE key == run[d].format
           new == Kept(run[d].making, run[d].calm)
<1>1. /\ formats' = Put(formats, key, new)
      /\ run' = [run EXCEPT ![d].pc = "formatted", ![d].making = None]
      /\ UNCHANGED <<world, inode, name, preambles, writers, budget>>
      /\ run[d].pc = "building"
  BY DEF PublishFormat, At
<1>2. key \in FormatKeys /\ new \in KeptOf(Formats)
  <2>1. run[d].making \in Formats /\ run[d].calm \in BOOLEAN /\ key \in FormatKeys
    BY <1>1, <1>t, <1>r DEF Got, Keyed, Runs
  <2> QED
    BY <2>1 DEF Kept, KeptOf
<1>3. new.calm => new.what = FormatUnder(key)
  BY <1>1, <1>t, KeysSpeak DEF Kept, TrueRun, Keyed
<1> HIDE DEF key, new
<1>4. /\ DOMAIN formats' = DOMAIN formats \cup {key}
      /\ formats' = [k \in DOMAIN formats' |-> IF k = key THEN new ELSE formats[k]]
  BY <1>1 DEF Put
<1>5. /\ DOMAIN formats' \subseteq FormatKeys
      /\ formats' \in [DOMAIN formats' -> KeptOf(Formats)]
  BY <1>2, <1>4, <1>t
<1>6. run'[d] = [run[d] EXCEPT !.pc = "formatted", !.making = None]
  BY <1>1, <1>t
<1>7. [run[d] EXCEPT !.pc = "formatted", !.making = None] \in Runs
  BY <1>r DEF Runs
<1>8. /\ run'[d].pc = "formatted" /\ run'[d].format = key
      /\ run'[d].asks = run[d].asks /\ run'[d].build = run[d].build
      /\ run'[d].place = run[d].place /\ run'[d].calm = run[d].calm
  BY <1>r, <1>6 DEF Runs, key
<1>9. Moves(d)
  <2>1. run' \in [Drivers -> Runs] /\ \A e \in Drivers \ {d} : run'[e] = run[e]
    BY <1>1, <1>6, <1>7, <1>t
  <2> QED
    BY <1>1, <1>4, <1>t, <2>1 DEF Moves, Still
<1>10. TypeOK'
  BY <1>1, <1>5, <1>9 DEF Inv, TypeInv, TypeOK, Moves
<1>11. CacheInv'
  <2>1. \A k \in DOMAIN formats' : formats'[k].calm => formats'[k].what = FormatUnder(k)
    BY <1>3, <1>4 DEF Inv, CacheInv
  <2>2. \A i \in 1 .. Len(inode) : TrueRecord(inode[i])'
    BY <1>1 DEF Inv, CacheInv, TrueRecord
  <2> QED
    BY <1>1, <2>1, <2>2 DEF Inv, CacheInv
<1>12. Got(run[d])' /\ TrueRun(run[d])'
  <2>1. Now' = Now
    BY <1>1 DEF Now, FormatKey
  <2> QED
    BY <1>t, <1>1, <1>4, <1>8, <2>1
       DEF Got, TrueRun, Begun, Placed, Keyed, Reads, Starts, Formatted, key
<1> QED
  BY <1>9, <1>10, <1>11, <1>12, PutKeeps

-----------------------------------------------------------------------------
(* A pass of the engine. *)

\* What a calm run takes from under a key of now is what there is now.
LEMMA EngineKeeps ==
  ASSUME Inv, NEW d \in Drivers, TakePreamble(d) \/ ReadFormat(d) \/ PassEnds(d)
  PROVE  Inv'
<1>t. /\ run \in [Drivers -> Runs] /\ Got(run[d]) /\ TrueRun(run[d])
      /\ world \in Worlds /\ budget \in BudgetsOf(Nat)
      /\ preambles \in [DOMAIN preambles -> KeptOf(States) \cup {None}]
      /\ formats \in [DOMAIN formats -> KeptOf(Formats)]
  BY DEF Inv, TypeInv, TypeOK
<1>r. run[d] \in Runs /\ run[d].calm \in BOOLEAN /\ run[d].passes \in Nat
  BY <1>t DEF Runs
<1>i. ASSUME Stops(d), world' = world, UNCHANGED <<cache, writers, budget>>
      PROVE  Alone(d) /\ Got(run[d])' /\ TrueRun(run[d])'
  <2>1. run' = [run EXCEPT ![d] = Idle]
    BY <1>i DEF Stops
  <2>2. run'[d] = Idle /\ run'[d] \in Runs /\ run'[d].pc = "idle"
    BY <1>t, <2>1, IdleIsARun
  <2>3. Alone(d)
    BY <1>i, <1>t, <2>1, <2>2 DEF Alone
  <2> QED
    BY <2>2, <2>3 DEF Got, TrueRun, Begun, Placed, Keyed, Reads, Starts, Formatted
<1>1. ASSUME TakePreamble(d) PROVE Alone(d) /\ Got(run[d])' /\ TrueRun(run[d])'
  <2> DEFINE put == preambles[run[d].key]
             state == put.what
             calm == run[d].calm /\ put.calm
  <2>1. /\ run[d].pc = "engine" /\ run[d].key # None /\ run[d].key \in DOMAIN preambles
        /\ put # None
        /\ run' = [run EXCEPT ![d].pc = "aux", ![d].state = state, ![d].calm = calm]
        /\ world' = world /\ formats' = formats /\ inode' = inode
    BY <1>1, <1>t DEF TakePreamble, At, Readable, IsPut, cache
  <2>2. put \in KeptOf(States)
    BY <1>t, <2>1
  <2>3. state \in States /\ calm \in BOOLEAN
    BY <2>2 DEF KeptOf
  <2>4. calm => state = Afresh /\ run[d].calm
    <3>1. put.calm => put.what = StateUnder(run[d].key)
      BY <2>1 DEF Inv, CacheInv
    <3>2. run[d].calm => run[d].key = PreambleKey(Now)
      BY <1>t, <2>1 DEF TrueRun, Starts
    <3> QED
      BY <3>1, <3>2, KeysSpeak
  <2> HIDE DEF put, state, calm
  <2>5. run'[d] = [run[d] EXCEPT !.pc = "aux", !.state = state, !.calm = calm]
    BY <1>t, <2>1
  <2>6. [run[d] EXCEPT !.pc = "aux", !.state = state, !.calm = calm] \in Runs
    BY <1>r, <2>3 DEF Runs
  <2>7. /\ run'[d].pc = "aux" /\ run'[d].state = state /\ run'[d].format = run[d].format
        /\ run'[d].asks = run[d].asks /\ run'[d].build = run[d].build
        /\ run'[d].place = run[d].place /\ run'[d].calm = calm /\ run'[d].key = run[d].key
    BY <1>r, <2>5 DEF Runs
  <2>8. Alone(d)
    BY <1>1, <1>t, <2>1, <2>5, <2>6 DEF Alone, TakePreamble
  <2>9. Now' = Now /\ Afresh' = Afresh /\ PreambleKey(Now)' = PreambleKey(Now)
    BY <2>1, <1>t, StillTheSame DEF Still
  <2> QED
    BY <1>t, <2>1, <2>3, <2>4, <2>7, <2>8, <2>9
       DEF Got, TrueRun, Begun, Placed, Keyed, Reads, Starts, Formatted
<1>2. ASSUME ReadFormat(d) PROVE Alone(d) /\ Got(run[d])' /\ TrueRun(run[d])'
  <2> DEFINE format == formats[run[d].format]
             state == FromFormat(format.what)
             calm == run[d].calm /\ format.calm
  <2>1. /\ run[d].pc = "engine" /\ world' = world
        /\ UNCHANGED <<cache, writers, budget>> /\ formats' = formats /\ inode' = inode
        /\ \/ run' = [run EXCEPT ![d].pc = "reading", ![d].state = state, ![d].calm = calm]
           \/ Stops(d)
    BY <1>2, <1>t DEF ReadFormat, At, cache
  <2>2. run[d].format \in DOMAIN formats
    BY <1>t, <2>1 DEF Got, Formatted, Starts
  <2>3. format \in KeptOf(Formats)
    BY <1>t, <2>2
  <2>4. state \in States /\ calm \in BOOLEAN
    BY <2>3 DEF KeptOf, FromFormat, States
  <2>5. calm => state = FromFormat(FormatOf(world.where)) /\ run[d].calm
    <3>1. format.calm => format.what = FormatUnder(run[d].format)
      BY <2>2 DEF Inv, CacheInv
    <3>2. run[d].calm => run[d].format = Now
      BY <1>t, <2>1 DEF TrueRun, Keyed
    <3> QED
      BY <3>1, <3>2, KeysSpeak
  <2> HIDE DEF format, state, calm
  <2>6. CASE Stops(d)
    BY <1>i, <2>1, <2>6
  <2>7. CASE run' = [run EXCEPT ![d].pc = "reading", ![d].state = state, ![d].calm = calm]
    <3>1. run'[d] = [run[d] EXCEPT !.pc = "reading", !.state = state, !.calm = calm]
      BY <1>t, <2>7
    <3>2. [run[d] EXCEPT !.pc = "reading", !.state = state, !.calm = calm] \in Runs
      BY <1>r, <2>4 DEF Runs
    <3>3. /\ run'[d].pc = "reading" /\ run'[d].state = state
          /\ run'[d].format = run[d].format
          /\ run'[d].asks = run[d].asks /\ run'[d].build = run[d].build
          /\ run'[d].place = run[d].place /\ run'[d].calm = calm /\ run'[d].key = run[d].key
      BY <1>r, <3>1 DEF Runs
    <3>4. Alone(d)
      BY <1>t, <2>1, <2>7, <3>1, <3>2 DEF Alone
    <3>5. /\ Now' = Now /\ PreambleKey(Now)' = PreambleKey(Now)
          /\ FormatOf(world.where)' = FormatOf(world.where)
      BY <2>1, <1>t, StillTheSame DEF Still
    <3>6. FromFormat(FormatOf(world.where))' = FromFormat(FormatOf(world.where))
      BY <3>5 DEF FromFormat
    <3> QED
      BY <1>t, <2>1, <2>2, <2>4, <2>5, <3>3, <3>4, <3>5, <3>6
         DEF Got, TrueRun, Begun, Placed, Keyed, Reads, Starts, Formatted
  <2> QED
    BY <2>1, <2>6, <2>7
<1>3. ASSUME PassEnds(d) PROVE Alone(d) /\ Got(run[d])' /\ TrueRun(run[d])'
  <2> DEFINE n == run[d].passes + 1
  <2>1. /\ run[d].pc = "ended" /\ world' = world
        /\ UNCHANGED <<cache, writers, budget>> /\ formats' = formats /\ inode' = inode
        /\ \/ Stops(d)
           \/ run' = [run EXCEPT ![d].pc = "engine", ![d].put = FALSE, ![d].state = None,
                                 ![d].passes = n]
    BY <1>3, <1>t DEF PassEnds, At, cache
  <2>2. n \in Nat
    BY <1>r
  <2> HIDE DEF n
  <2>3. CASE Stops(d)
    BY <1>i, <2>1, <2>3
  <2>4. CASE run' = [run EXCEPT ![d].pc = "engine", ![d].put = FALSE, ![d].state = None,
                                ![d].passes = n]
    <3>1. run'[d] = [run[d] EXCEPT !.pc = "engine", !.put = FALSE, !.state = None,
                                   !.passes = n]
      BY <1>t, <2>4
    <3>2. [run[d] EXCEPT !.pc = "engine", !.put = FALSE, !.state = None,
                         !.passes = n] \in Runs
      BY <1>r, <2>2 DEF Runs
    <3>3. /\ run'[d].pc = "engine" /\ run'[d].format = run[d].format
          /\ run'[d].asks = run[d].asks /\ run'[d].build = run[d].build
          /\ run'[d].place = run[d].place /\ run'[d].calm = run[d].calm
          /\ run'[d].key = run[d].key
      BY <1>r, <3>1 DEF Runs
    <3>4. Alone(d)
      BY <1>t, <2>1, <2>4, <3>1, <3>2 DEF Alone
    <3>5. Now' = Now /\ PreambleKey(Now)' = PreambleKey(Now)
      BY <2>1, <1>t, StillTheSame DEF Still
    <3> QED
      BY <1>t, <2>1, <3>3, <3>4, <3>5
         DEF Got, TrueRun, Begun, Placed, Keyed, Reads, Starts, Formatted
  <2> QED
    BY <2>1, <2>3, <2>4
<1> QED
  BY <1>1, <1>2, <1>3, AloneKeeps

\* And what it reads is.
LEMMA ReadPreambleKeeps == ASSUME Inv, NEW d \in Drivers, ReadPreamble(d) PROVE Inv'
<1>t. /\ run \in [Drivers -> Runs] /\ Got(run[d]) /\ TrueRun(run[d])
      /\ world \in Worlds /\ Len(inode) \in Nat
  BY DEF Inv, TypeInv, TypeOK
<1>r. run[d] \in Runs
  BY <1>t
<1> DEFINE next == IF world.aux THEN "aux" ELSE "body"
           state == PreambleRead(run[d].state)
<1>1. /\ run[d].pc = "reading"
      /\ run' = [run EXCEPT ![d].pc = next, ![d].state = state]
      /\ world' = [world EXCEPT !.aux = TRUE]
      /\ UNCHANGED <<inode, name, formats, preambles, writers, budget>>
  BY <1>t DEF ReadPreamble, At, cache
<1>2. next \in {"aux", "body"} /\ run[d].state \in States
  BY <1>1, <1>t DEF Got, Reads
<1>3. state \in States
  BY <1>2, <1>t DEF PreambleRead, States, Worlds
<1>4. run[d].calm => state = Afresh
  BY <1>1, <1>t DEF TrueRun, Afresh
<1> HIDE DEF next, state
<1>5. run'[d] = [run[d] EXCEPT !.pc = next, !.state = state]
  BY <1>1, <1>t
<1>6. [run[d] EXCEPT !.pc = next, !.state = state] \in Runs
  BY <1>r, <1>2, <1>3 DEF Runs
<1>7. /\ run'[d].pc = next /\ run'[d].state = state
      /\ run'[d].format = run[d].format
      /\ run'[d].asks = run[d].asks /\ run'[d].build = run[d].build
      /\ run'[d].place = run[d].place /\ run'[d].calm = run[d].calm
      /\ run'[d].key = run[d].key
  BY <1>r, <1>5 DEF Runs
<1>8. Moves(d)
  <2>1. run' \in [Drivers -> Runs] /\ \A e \in Drivers \ {d} : run'[e] = run[e]
    BY <1>1, <1>5, <1>6, <1>t
  <2> QED
    BY <1>1, <1>t, <2>1 DEF Moves, Still
<1>9. /\ world' \in Worlds /\ Now' = Now /\ Afresh' = Afresh
      /\ PreambleKey(Now)' = PreambleKey(Now)
      /\ world'.where = world.where /\ world'.build = world.build
  BY <1>8, <1>t, StillTheSame DEF Moves
<1>10. TypeOK'
  BY <1>1, <1>8, <1>9 DEF Inv, TypeInv, TypeOK, Moves
<1>11. CacheInv'
  BY <1>1, CacheStays DEF Still
<1>12. Got(run[d])' /\ TrueRun(run[d])'
  BY <1>t, <1>1, <1>2, <1>3, <1>4, <1>7, <1>9
     DEF Got, TrueRun, Begun, Placed, Keyed, Reads, Starts, Formatted
<1> QED
  BY <1>8, <1>10, <1>11, <1>12, PutKeeps

\* A run about to read its .aux sends a child with what it holds only where
\* that is what its key says.
LEMMA PushAuxKeeps ==
  ASSUME Inv, NEW d \in Drivers, NEW state \in States, NEW next \in {"body", "ended"},
         run[d].pc \in {"aux", "body"}, PushAux(d, state, next),
         UNCHANGED <<world, inode, name, formats, preambles, budget>>,
         run[d].calm /\ (Clean(state) \/ next = "body") => state = Afresh
  PROVE  Inv'
<1>t. /\ run \in [Drivers -> Runs] /\ Got(run[d]) /\ TrueRun(run[d])
      /\ world \in Worlds /\ Len(inode) \in Nat /\ writers \subseteq Writers
  BY DEF Inv, TypeInv, TypeOK
<1>r. /\ run[d] \in Runs /\ run[d].calm \in BOOLEAN /\ run[d].put \in BOOLEAN
      /\ run[d].id \in Nat /\ run[d].key \in PreambleKeys \cup {None}
  BY <1>t DEF Runs
<1>a. run[d].asks.small \in BOOLEAN
  BY <1>t DEF Got, Begun, Asked
<1> DEFINE writes == PutsBy(d, state)
           alone == run[d].asks.alone
           w == [run |-> run[d].id, key |-> run[d].key, opens |-> run[d].asks.small,
                 state |-> Kept(state, run[d].calm)]
           pc == IF writes /\ alone THEN "putting" ELSE next
           put == run[d].put \/ (writes /\ ~alone)
<1>1. /\ writers' = IF writes THEN writers \cup {w} ELSE writers
      /\ run' = [run EXCEPT ![d].pc = pc, ![d].put = put, ![d].state = state]
  BY <1>t DEF PushAux
<1>2. /\ pc \in {"putting", next} /\ put \in BOOLEAN
      /\ writes => run[d].key # None /\ Clean(state)
      /\ pc = "putting" => writes
  BY <1>r DEF PutsBy
<1>3. writes => /\ w \in Writers
                /\ w.state.calm => w.state.what = StateUnder(w.key)
  <2> SUFFICES ASSUME writes
               PROVE  /\ w \in Writers
                      /\ w.state.calm => w.state.what = StateUnder(w.key)
    OBVIOUS
  <2>1. run[d].key \in PreambleKeys
    BY <1>r, <1>2
  <2>2. Kept(state, run[d].calm) \in KeptOf(States)
    BY <1>r DEF Kept, KeptOf
  <2>3. w \in Writers
    BY <1>r, <1>a, <2>1, <2>2 DEF Writers
  <2>4. w.state.what = state /\ w.state.calm = run[d].calm /\ w.key = run[d].key
    BY DEF Kept
  <2>5. run[d].calm => run[d].key = PreambleKey(Now)
    BY <1>t, <1>2 DEF TrueRun, Starts, Reads
  <2> QED
    BY <1>2, <2>3, <2>4, <2>5, KeysSpeak
<1> HIDE DEF writes, alone, w, pc, put
<1>4. run'[d] = [run[d] EXCEPT !.pc = pc, !.put = put, !.state = state]
  BY <1>1, <1>t
<1>5. [run[d] EXCEPT !.pc = pc, !.put = put, !.state = state] \in Runs
  BY <1>r, <1>2 DEF Runs
<1>6. /\ run'[d].pc = pc /\ run'[d].state = state /\ run'[d].format = run[d].format
      /\ run'[d].asks = run[d].asks /\ run'[d].build = run[d].build
      /\ run'[d].place = run[d].place /\ run'[d].calm = run[d].calm
      /\ run'[d].key = run[d].key
  BY <1>r, <1>4 DEF Runs
<1>7. Moves(d)
  <2>1. run' \in [Drivers -> Runs] /\ \A e \in Drivers \ {d} : run'[e] = run[e]
    BY <1>1, <1>4, <1>5, <1>t
  <2> QED
    BY <1>t, <2>1 DEF Moves, Still
<1>8. TypeOK'
  <2>1. writers' \subseteq Writers
    BY <1>1, <1>3, <1>t
  <2> QED
    BY <1>7, <2>1 DEF Inv, TypeInv, TypeOK, Moves
<1>9. CacheInv'
  <2>1. \A x \in writers' : x.state.calm => x.state.what = StateUnder(x.key)
    BY <1>1, <1>3 DEF Inv, CacheInv
  <2>2. \A i \in 1 .. Len(inode) : TrueRecord(inode[i])'
    BY DEF Inv, CacheInv, TrueRecord
  <2> QED
    BY <2>1, <2>2 DEF Inv, CacheInv
<1>10. Got(run[d])' /\ TrueRun(run[d])'
  <2>1. Now' = Now /\ Afresh' = Afresh /\ PreambleKey(Now)' = PreambleKey(Now)
    BY <1>t, StillTheSame DEF Still
  <2>2. run[d].calm /\ pc \in {"putting", "body"} => state = Afresh
    BY <1>2
  <2> QED
    BY <1>t, <1>2, <1>6, <2>1, <2>2
       DEF Got, TrueRun, Begun, Placed, Keyed, Reads, Starts, Formatted
<1> QED
  BY <1>7, <1>8, <1>9, <1>10, PutKeeps

\* At the end of the document the .aux is read from where nothing is put by.
LEMMA AuxKeeps == ASSUME Inv, NEW d \in Drivers, ReadAux(d) \/ EndDocument(d) PROVE Inv'
<1>t. Got(run[d]) /\ TrueRun(run[d])
  BY DEF Inv, TypeInv
<1>1. CASE ReadAux(d)
  <2>1. /\ run[d].pc = "aux" /\ PushAux(d, run[d].state, "body")
        /\ UNCHANGED <<world, inode, name, formats, preambles, budget>>
    BY <1>1 DEF ReadAux, At, cache
  <2>2. run[d].state \in States /\ (run[d].calm => run[d].state = Afresh)
    BY <1>t, <2>1 DEF Got, TrueRun, Reads
  <2> QED
    BY <2>1, <2>2, PushAuxKeeps
<1>2. CASE EndDocument(d)
  <2> DEFINE state == [run[d].state EXCEPT !.at = "end"]
  <2>1. /\ run[d].pc = "body" /\ PushAux(d, state, "ended")
        /\ UNCHANGED <<world, inode, name, formats, preambles, budget>>
    BY <1>2 DEF EndDocument, At, cache
  <2>2. run[d].state \in States
    BY <1>t, <2>1 DEF Got, Reads
  <2>3. state \in States /\ ~Clean(state)
    BY <2>2 DEF States, Clean
  <2> HIDE DEF state
  <2> QED
    BY <2>1, <2>3, PushAuxKeeps
<1> QED
  BY <1>1, <1>2

-----------------------------------------------------------------------------
(* Children, kills and edits. *)

\* The run a child has been waited for by goes on with what it holds.
LEMMA ReturnsKeeps ==
  ASSUME Inv, NEW w, NEW written \in BOOLEAN, Returns(w, written),
         UNCHANGED <<world, inode, formats>>
  PROVE  /\ run' \in [Drivers -> Runs]
         /\ \A d \in Drivers : Got(run[d])' /\ TrueRun(run[d])'
<1> SUFFICES ASSUME NEW d \in Drivers
             PROVE  run'[d] \in Runs /\ Got(run[d])' /\ TrueRun(run[d])'
  BY DEF Returns
<1>t. run[d] \in Runs /\ Got(run[d]) /\ TrueRun(run[d]) /\ world \in Worlds
  BY DEF Inv, TypeInv, TypeOK
<1>n. Now' = Now /\ Afresh' = Afresh /\ PreambleKey(Now)' = PreambleKey(Now)
      /\ FormatOf(world.where)' = FormatOf(world.where)
  BY <1>t, StillTheSame DEF Still
<1>f. FromFormat(FormatOf(world.where))' = FromFormat(FormatOf(world.where))
  BY <1>n DEF FromFormat
<1>1. CASE run'[d] = run[d]
  BY <1>t, <1>n, <1>f, <1>1
     DEF Got, TrueRun, Begun, Placed, Keyed, Reads, Starts, Formatted
<1>2. CASE run[d].pc = "putting" /\ run'[d] = [run[d] EXCEPT !.pc = "body", !.put = written]
  <2>1. [run[d] EXCEPT !.pc = "body", !.put = written] \in Runs
    BY <1>t DEF Runs
  <2>2. /\ run'[d].pc = "body" /\ run'[d].state = run[d].state
        /\ run'[d].format = run[d].format
        /\ run'[d].asks = run[d].asks /\ run'[d].build = run[d].build
        /\ run'[d].place = run[d].place /\ run'[d].calm = run[d].calm
        /\ run'[d].key = run[d].key
    BY <1>t, <1>2 DEF Runs
  <2> QED
    BY <1>t, <1>n, <1>2, <2>1, <2>2
       DEF Got, TrueRun, Begun, Placed, Keyed, Reads, Starts, Formatted
<1> QED
  BY <1>1, <1>2 DEF Returns, At

\* A child puts under its key what it was sent with, or nothing.
LEMMA WriterKeeps == ASSUME Inv, NEW w \in writers, Writer(w) PROVE Inv'
<1>t. /\ writers \subseteq Writers /\ DOMAIN preambles \subseteq PreambleKeys
      /\ preambles \in [DOMAIN preambles -> KeptOf(States) \cup {None}]
      /\ world \in Worlds /\ run \in [Drivers -> Runs]
      /\ \A x \in writers : x.state.calm => x.state.what = StateUnder(x.key)
      /\ \A k \in DOMAIN preambles :
            preambles[k] # None /\ preambles[k].calm => preambles[k].what = StateUnder(k)
      /\ \A i \in 1 .. Len(inode) : TrueRecord(inode[i])
  BY DEF Inv, TypeInv, TypeOK, CacheInv
<1>w. w \in Writers /\ w.key \in PreambleKeys /\ w.state \in KeptOf(States)
  BY <1>t DEF Writers
<1>n. \A r : TrueRun(r) /\ world' = world => TrueRun(r)'
  <2>1. ASSUME world' = world
        PROVE  /\ Now' = Now /\ Afresh' = Afresh /\ PreambleKey(Now)' = PreambleKey(Now)
               /\ FormatOf(world.where)' = FormatOf(world.where)
    BY <1>t, <2>1, StillTheSame DEF Still
  <2>2. ASSUME world' = world
        PROVE  FromFormat(FormatOf(world.where))' = FromFormat(FormatOf(world.where))
    BY <2>1, <2>2 DEF FromFormat
  <2> QED
    BY <2>1, <2>2 DEF TrueRun
<1>p. ASSUME NEW content \in {None, w.state}, preambles' = Put(preambles, w.key, content)
      PROVE  /\ DOMAIN preambles' \subseteq PreambleKeys
             /\ preambles' \in [DOMAIN preambles' -> KeptOf(States) \cup {None}]
             /\ \A k \in DOMAIN preambles' : preambles'[k] # None /\ preambles'[k].calm
                                              => preambles'[k].what = StateUnder(k)
  <2>1. /\ DOMAIN preambles' = DOMAIN preambles \cup {w.key}
        /\ preambles' = [k \in DOMAIN preambles' |->
                           IF k = w.key THEN content ELSE preambles[k]]
    BY <1>p DEF Put
  <2>2. content # None => content = w.state
    BY <1>p
  <2> QED
    BY <1>t, <1>w, <2>1, <2>2
<1>1. CASE WriterOpens(w)
  <2> DEFINE v == [w EXCEPT !.opens = FALSE]
  <2>1. /\ preambles' = Put(preambles, w.key, None)
        /\ writers' = (writers \ {w}) \cup {v}
        /\ UNCHANGED <<world, inode, name, formats, run, budget>>
    BY <1>1 DEF WriterOpens
  <2>2. v \in Writers /\ v.state = w.state /\ v.key = w.key
    BY <1>w DEF Writers
  <2> HIDE DEF v
  <2>3. TypeOK'
    BY <1>p, <1>t, <2>1, <2>2 DEF Inv, TypeInv, TypeOK
  <2>4. CacheInv'
    <3>1. \A x \in writers' : x.state.calm => x.state.what = StateUnder(x.key)
      BY <1>t, <2>1, <2>2
    <3>2. \A i \in 1 .. Len(inode) : TrueRecord(inode[i])'
      BY <1>t, <2>1 DEF TrueRecord
    <3> QED
      BY <1>p, <2>1, <3>1, <3>2 DEF Inv, CacheInv
  <2>5. \A d \in Drivers : Got(run[d])' /\ TrueRun(run[d])'
    BY <1>n, <2>1 DEF Inv, TypeInv, Got
  <2> QED
    BY <2>3, <2>4, <2>5 DEF Inv, TypeInv
<1>2. CASE WriterEnds(w)
  <2>1. /\ preambles' = Put(preambles, w.key, w.state)
        /\ writers' = writers \ {w} /\ Returns(w, TRUE)
        /\ UNCHANGED <<world, inode, name, formats, budget>>
    BY <1>2 DEF WriterEnds
  <2>2. /\ run' \in [Drivers -> Runs]
        /\ \A d \in Drivers : Got(run[d])' /\ TrueRun(run[d])'
    BY <2>1, ReturnsKeeps
  <2>3. TypeOK'
    BY <1>p, <1>t, <2>1, <2>2 DEF Inv, TypeInv, TypeOK
  <2>4. CacheInv'
    <3>1. \A i \in 1 .. Len(inode) : TrueRecord(inode[i])'
      BY <1>t, <2>1 DEF TrueRecord
    <3> QED
      BY <1>p, <2>1, <3>1 DEF Inv, CacheInv
  <2> QED
    BY <2>2, <2>3, <2>4 DEF Inv, TypeInv
<1>3. CASE WriterFails(w)
  <2>1. /\ writers' = writers \ {w} /\ Returns(w, FALSE)
        /\ UNCHANGED <<world, inode, name, formats, preambles, budget>>
    BY <1>3 DEF WriterFails, cache
  <2>2. /\ run' \in [Drivers -> Runs]
        /\ \A d \in Drivers : Got(run[d])' /\ TrueRun(run[d])'
    BY <2>1, ReturnsKeeps
  <2>3. TypeOK'
    BY <1>t, <2>1, <2>2 DEF Inv, TypeInv, TypeOK
  <2>4. CacheInv'
    BY <2>1, CacheStays DEF Still
  <2> QED
    BY <2>2, <2>3, <2>4 DEF Inv, TypeInv
<1> QED
  BY <1>1, <1>2, <1>3 DEF Writer

\* A run that is killed holds nothing.
LEMMA KillKeeps == ASSUME Inv, NEW d \in Drivers, Kill(d) PROVE Inv'
<1>t. run \in [Drivers -> Runs] /\ Len(inode) \in Nat /\ writers \subseteq Writers
  BY DEF Inv, TypeInv, TypeOK
<1>1. /\ run' = [run EXCEPT ![d] = Idle] /\ writers' \subseteq writers
      /\ UNCHANGED <<world, inode, name, formats, preambles, budget>>
  BY DEF Kill, Stops, cache
<1>2. run'[d] = Idle /\ run'[d] \in Runs /\ run'[d].pc = "idle"
  BY <1>t, <1>1, IdleIsARun
<1>3. Moves(d)
  BY <1>t, <1>1, <1>2 DEF Moves, Still
<1>4. TypeOK'
  BY <1>t, <1>1, <1>3 DEF Inv, TypeInv, TypeOK, Moves
<1>5. CacheInv'
  BY <1>1, CacheStays DEF Still
<1>6. Got(run[d])' /\ TrueRun(run[d])'
  BY <1>2 DEF Got, TrueRun, Begun, Placed, Keyed, Reads, Starts, Formatted
<1> QED
  BY <1>3, <1>4, <1>5, <1>6, PutKeeps

\* An edit leaves nothing calm but what is kept, and lists do not come back.
LEMMA EditKeeps == ASSUME Inv, Edit PROVE Inv'
<1>t. /\ run \in [Drivers -> Runs] /\ world \in Worlds /\ budget \in BudgetsOf(Nat)
      /\ inode \in Seq(Records \cup {None})
      /\ \A i \in 1 .. Len(inode) : TrueRecord(inode[i])
  BY DEF Inv, TypeInv, TypeOK, CacheInv
<1>1. PICK kind \in Kinds : world' \in Edited(kind)
  BY DEF Edit
<1>2. /\ run' = [d \in Drivers |-> [run[d] EXCEPT !.calm = @ /\ At(d, "idle")]]
      /\ budget' = [budget EXCEPT !.edits = @ - 1] /\ budget.edits > 0
      /\ UNCHANGED <<inode, name, formats, preambles, writers>>
  BY DEF Edit, cache
<1>3. /\ world' \in Worlds
      /\ \/ world'.lists = world.lists /\ world'.where = world.where
         \/ world'.lists = world.lists + 1
  <2>w. /\ world.latex \in [Places -> Bit] /\ world.build \in Bit /\ world.text \in Bit
        /\ world.beside \in Bit /\ world.lists \in Nat
    BY <1>t DEF Worlds
  <2>1. CASE kind = "upgrade"
    <3>1. PICK p \in Places : world' = [world EXCEPT !.where = p, !.lists = @ + 1]
      BY <1>1, <2>1 DEF Edited
    <3> DEFINE n == world.lists + 1
    <3>2. n \in Nat /\ world' = [world EXCEPT !.where = p, !.lists = n]
      BY <1>t, <2>w, <3>1 DEF Worlds
    <3> HIDE DEF n
    <3>3. [world EXCEPT !.where = p, !.lists = n] \in Worlds
      BY <1>t, <3>2 DEF Worlds
    <3>4. world'.lists = n
      BY <1>t, <3>2 DEF Worlds
    <3> QED
      BY <3>2, <3>3, <3>4 DEF n
  <2>2. CASE kind = "latex"
    <3>1. PICK p \in Places : world' = [world EXCEPT !.latex[p] = 1 - @]
      BY <1>1, <2>2 DEF Edited
    <3>2. [world.latex EXCEPT ![p] = 1 - @] \in [Places -> Bit]
      BY <2>w DEF Bit
    <3> QED
      BY <1>t, <3>1, <3>2 DEF Worlds
  <2>3. CASE kind = "build"
    BY <1>1, <1>t, <2>w, <2>3 DEF Edited, Worlds, Bit
  <2>4. CASE kind = "text"
    BY <1>1, <1>t, <2>w, <2>4 DEF Edited, Worlds, Bit
  <2>5. CASE kind = "beside"
    BY <1>1, <1>t, <2>w, <2>5 DEF Edited, Worlds, Bit
  <2>6. CASE kind = "aux"
    BY <1>1, <1>t, <2>w, <2>6 DEF Edited, Worlds
  <2> QED
    BY <1>1, <2>1, <2>2, <2>3, <2>4, <2>5, <2>6 DEF Kinds
<1>4. ASSUME NEW d \in Drivers
      PROVE  run'[d] \in Runs /\ Got(run[d])' /\ TrueRun(run[d])'
  <2> DEFINE calm == run[d].calm /\ At(d, "idle")
  <2>1. run[d] \in Runs /\ Got(run[d])
    BY <1>t DEF Inv, TypeInv
  <2>2. run'[d] = [run[d] EXCEPT !.calm = calm]
    BY <1>2, <2>1 DEF Runs
  <2>3. calm \in BOOLEAN /\ (calm => run[d].pc = "idle")
    BY DEF At
  <2> HIDE DEF calm
  <2>4. [run[d] EXCEPT !.calm = calm] \in Runs
    BY <2>1, <2>3 DEF Runs
  <2>5. /\ run'[d].calm = calm /\ run'[d].pc = run[d].pc
        /\ run'[d].asks = run[d].asks /\ run'[d].build = run[d].build
        /\ run'[d].place = run[d].place /\ run'[d].format = run[d].format
        /\ run'[d].fd = run[d].fd /\ run'[d].making = run[d].making
        /\ run'[d].state = run[d].state
    BY <2>1, <2>2 DEF Runs
  <2>6. Got(run[d])'
    BY <1>2, <2>1, <2>5 DEF Got, Begun, Placed, Keyed, Reads, Starts, Formatted
  <2>7. TrueRun(run[d])'
    BY <2>3, <2>5 DEF TrueRun, Begun, Placed, Keyed, Reads, Starts
  <2> QED
    BY <2>2, <2>4, <2>6, <2>7
<1>5. TypeOK'
  <2>1. budget' \in BudgetsOf(Nat)
    <3>1. budget.edits \in Nat
      BY <1>t DEF BudgetsOf
    <3>2. budget.edits - 1 \in Nat
      BY <1>2, <3>1
    <3> QED
      BY <1>t, <1>2, <3>2 DEF BudgetsOf
  <2>2. run' \in [Drivers -> Runs]
    BY <1>2, <1>4
  <2> QED
    BY <1>2, <1>3, <2>1, <2>2 DEF Inv, TypeInv, TypeOK
<1>6. CacheInv'
  <2>1. ASSUME NEW i \in 1 .. Len(inode) PROVE TrueRecord(inode[i])'
    <3>1. CASE inode[i] # None
      <4>1. inode[i] \in Records /\ TrueRecord(inode[i])
        BY <1>t, <3>1
      <4>2. inode[i].what.lists \in Nat /\ world.lists \in Nat
        BY <1>t, <4>1 DEF Records, KeptOf, Worlds
      <4> QED
        BY <1>2, <1>3, <3>1, <4>1, <4>2 DEF TrueRecord
    <3>2. CASE inode[i] = None
      BY <1>2, <3>2 DEF TrueRecord
    <3> QED
      BY <3>1, <3>2
  <2> QED
    BY <1>2, <2>1 DEF Inv, CacheInv
<1> QED
  BY <1>4, <1>5, <1>6 DEF Inv, TypeInv

-----------------------------------------------------------------------------
(* The theorems. *)

\* At first the cache is empty.
LEMMA InitInv == ASSUME Init PROVE Inv
<1>1. TypeOK
  <2>1. world \in Worlds /\ budget \in BudgetsOf(Nat)
    BY BudgetsAssumption DEF Init, FirstWorld, Worlds, Bit
  <2>2. inode \in Seq(Records \cup {None}) /\ Len(inode) = 0
    BY DEF Init
  <2>3. name \in [tmp : 0 .. Len(inode), record : 0 .. Len(inode)]
    BY <2>2 DEF Init
  <2>4. run \in [Drivers -> Runs] /\ writers \subseteq Writers
    BY IdleIsARun DEF Init
  <2>5. DOMAIN formats = {} /\ DOMAIN preambles = {}
    BY DEF Init
  <2>6. /\ formats \in [DOMAIN formats -> KeptOf(Formats)]
        /\ preambles \in [DOMAIN preambles -> KeptOf(States) \cup {None}]
    BY DEF Init
  <2> QED
    BY <2>1, <2>2, <2>3, <2>4, <2>5, <2>6 DEF TypeOK
<1>2. CacheInv
  <2>1. 1 .. Len(inode) = {}
    BY DEF Init
  <2> QED
    BY <2>1 DEF Init, CacheInv
<1>3. \A d \in Drivers : Got(run[d]) /\ TrueRun(run[d])
  BY IdleIsARun DEF Init
<1> QED
  BY <1>1, <1>2, <1>3 DEF Inv, TypeInv

\* Every step keeps it.
LEMMA NextInv == ASSUME Inv, [Next]_vars PROVE Inv'
<1>1. ASSUME NEW d \in Drivers, Driver(d) PROVE Inv'
  BY <1>1, DriverKeeps, SaveOpensKeeps, SaveWritesKeeps, SaveRenamesKeeps,
     PublishFormatKeeps DEF Driver
<1>2. ASSUME NEW d \in Drivers, Engine(d) PROVE Inv'
  BY <1>2, EngineKeeps, ReadPreambleKeeps, AuxKeeps DEF Engine
<1>3. CASE UNCHANGED vars
  <2>1. /\ UNCHANGED <<world, inode, name, formats, preambles, writers, run, budget>>
    BY <1>3 DEF vars
  <2>2. Now' = Now /\ Afresh' = Afresh /\ PreambleKey(Now)' = PreambleKey(Now)
        /\ FormatOf(world.where)' = FormatOf(world.where)
    BY <2>1, StillTheSame DEF Still, Inv, TypeInv, TypeOK
  <2>3. FromFormat(FormatOf(world.where))' = FromFormat(FormatOf(world.where))
    BY <2>2 DEF FromFormat
  <2>4. \A d \in Drivers : Got(run[d])' /\ TrueRun(run[d])'
    BY <2>1, <2>2, <2>3 DEF Inv, TypeInv, Got, TrueRun
  <2>5. CacheInv'
    BY <2>1, CacheStays DEF Still
  <2>6. TypeOK'
    BY <2>1 DEF Inv, TypeInv, TypeOK
  <2> QED
    BY <2>4, <2>5, <2>6 DEF Inv, TypeInv
<1> QED
  BY <1>1, <1>2, <1>3, KillKeeps, WriterKeeps, EditKeeps DEF Next

\* For any drivers, places and bounds, what the record, the formats, the
\* preambles, the children and the runs hold is of its type, and a run never
\* lacks what it goes on with: a format that is named is there, a file that
\* is written to is one, a state that is put by was read.
THEOREM InstallationTypes == Spec => []TypeInv
<1>1. Init => Inv
  BY InitInv
<1>2. Inv /\ [Next]_vars => Inv'
  BY NextInv
<1>3. Inv => TypeInv
  BY DEF Inv
<1> QED
  BY <1>1, <1>2, <1>3, PTL DEF Spec

\* And a run beside which nothing was edited, and which takes nothing that
\* was made while something was, sets what it would have set from nothing
\* (installation_record_load, format_fingerprint, preamble_checkpoint_path,
\* put_by_preamble_before).
THEOREM RunsAreRight == Spec => []RightDocument
<1>1. Init => Inv
  BY InitInv
<1>2. Inv /\ [Next]_vars => Inv'
  BY NextInv
<1>3. Inv => RightDocument
  BY DEF Inv, RightDocument, TrueRun, At
<1> QED
  BY <1>1, <1>2, <1>3, PTL DEF Spec
=============================================================================
