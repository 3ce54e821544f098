---------------------------- MODULE DriverProofs ----------------------------
(***************************************************************************)
(* What each kind of run of the driver may be relied on for, for any       *)
(* document, any number of passes and any history of edits and kills.      *)
(***************************************************************************)
EXTENDS Driver, TLAPS, WellFoundedInduction

\* The checkpoints, their places and the preamble's bytes are those of a pass
\* over a text with a state.
Of(text, with) ==
    /\ \A c \in DOMAIN checkpoints : checkpoints[c] = Typeset(text, with, c)
    /\ \A c \in DOMAIN positions : positions[c] = Upto(text, c)
    /\ 0 \in DOMAIN checkpoints => prefix = Typeset(text, with, 0)

\* A manifest speaks of the checkpoints that lie beside it.
CacheInv ==
    manifest # None /\ ~hurt =>
        /\ sources # None
        /\ sources.text = manifest
        /\ Of(manifest, sources.state)

\* What is in the PDF is what the manifest was written with, where no history
\* says otherwise.
BaseInv ==
    /\ manifest # None /\ ~hurt /\ ~behind =>
         \A r \in Pieces : pdf[r].text = Upto(manifest, r)
    /\ pc = "chunks" => behind

\* A run whose sources stand still: what it found is what is there.
StillInv ==
    /\ Labels = {} => state = None
    /\ pc # "idle" => result = "none"
    /\ pc # "idle" /\ ~moved => began = src
    /\ pc = "typesetting" /\ ~moved => read.text = src
    /\ ~moved /\ (pc \in {"open", "chunks"}
                  \/ (pc \in {"typeset", "typesetting"} /\ how = "fallback")) =>
         manifest = src

\* A run from the top: the state before a pass is the one the pass finds.
ColdInv ==
    /\ pc = "clear" \/ (pc \in {"typeset", "typesetting"} /\ how = "cold") =>
         prev = state
    /\ pc \in {"typeset", "typesetting"} /\ how = "cold" => manifest = None
    /\ pc = "typesetting" => read.state = state
    /\ pc \in {"record", "manifest"} =>
         /\ manifest = None
         /\ Of(read.text, read.state)
         /\ passes < MaxPasses => state = read.state
         /\ ~moved => /\ read.text = src
                      /\ \A r \in Pieces : pdf[r] = Typeset(src, read.state, r)
    /\ pc = "manifest" => sources = read

\* A warm run: what no chunk is left to write is written.
WarmInv ==
    pc \in {"open", "chunks"} /\ how = "warm" /\ ~moved /\ ~hurt =>
        /\ manifest = src /\ manifest # None
        /\ sources.state = state
        /\ pc = "chunks" =>
             \A r \in Pieces : (\A c \in chunks : r \notin ChunkRegions(c)) =>
                               pdf[r] = Typeset(src, state, r)

\* An incremental run: nothing changed before the checkpoint.
IncrementalInv ==
    pc = "resume" /\ ~moved /\ ~hurt =>
        /\ manifest # None
        /\ \A p \in 0..reuse : manifest[p] = src[p]
        /\ ~onto => ~behind

Results == /\ SequentialIsRight /\ WarmOnItsSecondRun
           /\ WarmIsNeverWrong /\ IncrementalIsRight

Inv == /\ TypeOK /\ CacheInv /\ BaseInv /\ StillInv /\ ColdInv /\ WarmInv
       /\ IncrementalInv /\ Results

-----------------------------------------------------------------------------
(* The operators of the model. *)

LEMMA LeastNatural ==
    ASSUME NEW S \in SUBSET Nat, S # {}
    PROVE  \E n \in S : \A m \in S : n <= m
<1>1. PICK n \in S : \A m \in S : ~ (<<m, n>> \in OpToRel(<, Nat))
  BY WFMin, NatLessThanWellFounded, Zenon
<1>2. ASSUME NEW m \in S
      PROVE  ~ (m < n)
  BY <1>1 DEF OpToRel
<1> QED
  BY <1>2

LEMMA FirstComesFirst ==
    ASSUME NEW p \in Pieces
    PROVE  First(FileOf[p]) \in Pieces /\ First(FileOf[p]) <= p
<1> DEFINE S == {q \in Pieces : FileOf[q] = FileOf[p]}
<1>1. S \subseteq Nat /\ p \in S
  BY PiecesAssumption DEF Pieces
<1>2. PICK n \in S : \A m \in S : n <= m
  BY <1>1, LeastNatural
<1>3. \E q \in Pieces : /\ FileOf[q] = FileOf[p]
                        /\ \A m \in Pieces : FileOf[m] = FileOf[p] => q <= m
  BY <1>2
<1> QED
  BY <1>3 DEF First

LEMMA UptoOf ==
    ASSUME NEW text \in Texts, NEW r \in Pieces
    PROVE  /\ Upto(text, r) = [p \in 0..r |-> text[p]]
           /\ Upto(text, r) \in [0..r -> Versions]
BY PiecesAssumption DEF Upto, Restrict, Texts, Pieces

LEMMA TypesetType ==
    ASSUME NEW text \in Texts, NEW with \in Ages, NEW r \in Pieces
    PROVE  /\ Typeset(text, with, r) \in [text : [0..r -> Versions], with : Ages]
           /\ Typeset(text, with, r) \in Regions
BY UptoOf DEF Typeset, Regions

LEMMA LeftType ==
    ASSUME NEW text \in Texts, NEW found \in Ages
    PROVE  /\ Left(text, found) \in Ages /\ CutShort(text) \in Ages
           /\ Labels = {} => Left(text, found) = None /\ CutShort(text) = None
           /\ Labels # {} => Left(text, found) # None
<1>1. Restrict(text, Labels) \in [Labels -> Versions]
  BY PiecesAssumption DEF Restrict, Texts
<1>2. ASSUME found # None
      PROVE  found.age \in 0..Depth
  BY <1>2 DEF Ages
<1> QED
  BY <1>1, <1>2, PassesAssumption, NoneAssumption DEF Left, CutShort, Ages

LEMMA ResumedType ==
    ASSUME NEW c \in DOMAIN checkpoints, NEW r \in Pieces, c <= r, TypeOK
    PROVE  Resumed(c, r) \in Regions
<1>1. c \in 0..R-1 /\ checkpoints[c].text \in [0..c -> Versions]
  BY DEF TypeOK
<1>2. Resumed(c, r).text \in [0..r -> Versions]
  <2> DEFINE t == [p \in 0..r |-> IF p <= c THEN checkpoints[c].text[p]
                                  ELSE src[p]]
  <2>1. ASSUME NEW p \in 0..r
        PROVE  t[p] \in Versions
    <3>1. p \in Pieces /\ src[p] \in Versions
      BY PiecesAssumption DEF TypeOK, Texts, Pieces
    <3>2. p <= c => p \in 0..c
      BY <1>1, PiecesAssumption
    <3> QED
      BY <1>1, <3>1, <3>2
  <2>2. t \in [0..r -> Versions]
    BY <2>1
  <2> QED
    BY <2>2 DEF Resumed
<1> QED
  BY <1>2 DEF Resumed, Regions, TypeOK

LEMMA BlankType == Blank \in Regions
BY DEF Regions

\* Every region has a chunk that writes it, but for the preamble's when the
\* first chunk begins after the preamble.
LEMMA ChunksCover ==
    ASSUME NEW r \in Pieces, DOMAIN checkpoints \subseteq 0..R-1,
           r # 0 \/ 0 \notin DOMAIN checkpoints
    PROVE  \E c \in ChunkStarts : r \in ChunkRegions(c)
<1> DEFINE S == {d \in Nat : r - d - 1 \in ChunkStarts}
<1>1. \A c \in ChunkStarts : c \in -1..R-1
  BY PiecesAssumption DEF ChunkStarts
<1>2. \A d \in DOMAIN checkpoints : d \in ChunkStarts
  BY DEF ChunkStarts
<1>3. \E c \in ChunkStarts : c < r
  BY PiecesAssumption DEF ChunkStarts, Pieces
<1>4. S # {} /\ S \subseteq Nat
  <2>1. PICK c \in ChunkStarts : c < r
    BY <1>3
  <2>2. r - c - 1 \in Nat /\ r - (r - c - 1) - 1 = c
    BY <1>1, <2>1, PiecesAssumption DEF Pieces
  <2> QED
    BY <2>1, <2>2
<1>5. PICK n \in S : \A m \in S : n <= m
  BY <1>4, LeastNatural
<1> DEFINE c == r - n - 1
<1>6. c \in ChunkStarts /\ c < r /\ c \in Int
  BY <1>5, PiecesAssumption DEF Pieces
<1>7. ASSUME NEW d \in DOMAIN checkpoints, d > c
      PROVE  r <= d
  <2> SUFFICES ASSUME d < r
               PROVE  FALSE
    BY PiecesAssumption DEF Pieces
  <2>1. r - d - 1 \in Nat /\ r - (r - d - 1) - 1 = d
    BY PiecesAssumption DEF Pieces
  <2>2. r - d - 1 \in S
    BY <1>2, <2>1
  <2> QED
    BY <1>5, <1>7, <2>1, <2>2, PiecesAssumption DEF Pieces
<1> QED
  BY <1>6, <1>7 DEF ChunkRegions

-----------------------------------------------------------------------------
(* Type correctness. *)

LEMMA TypeInit == Init => TypeOK
<1> SUFFICES ASSUME Init
             PROVE  TypeOK
  OBVIOUS
<1>1. src \in Texts /\ pdf \in [Pieces -> Regions] /\ prefix \in Regions
  BY DraftAssumption, BlankType DEF Init, Texts
<1>2. DOMAIN positions = {} /\ DOMAIN checkpoints = {}
  BY DEF Init, Empty
<1>3. 0 \in 0..R-1 /\ 0 \in 0..MaxPasses /\ 0 \in 0..MaxEvents
  BY PiecesAssumption, PassesAssumption
<1> QED
  BY <1>1, <1>2, <1>3 DEF Init, TypeOK, Ages, Places

LEMMA TypeStart == TypeOK /\ Start => TypeOK'
<1> SUFFICES ASSUME TypeOK, Start
             PROVE  TypeOK'
  OBVIOUS
<1>1. reuse' \in 0..R-1 /\ passes' \in 0..MaxPasses
  BY PassesAssumption DEF TypeOK, Start, GoCold, ReusePages
<1>2. began' \in Texts /\ began' # None
  BY NoneAssumption DEF TypeOK, Start
<1>3. pc' = "clear" => passes' < MaxPasses
  BY PassesAssumption DEF TypeOK, Start, GoCold
<1> QED
  BY <1>1, <1>2, <1>3 DEF TypeOK, Start, GoCold, disk, cache, Places

LEMMA TypeOpenShared == TypeOK /\ OpenShared => TypeOK'
<1> SUFFICES ASSUME TypeOK, OpenShared
             PROVE  TypeOK'
  OBVIOUS
<1>1. pdf' \in [Pieces -> Regions]
  BY BlankType DEF OpenShared, TypeOK
<1>2. chunks' \subseteq -1..R-1 /\ chunks' \subseteq DOMAIN checkpoints \cup {-1}
  BY PiecesAssumption DEF OpenShared, ChunkStarts, TypeOK
<1> QED
  BY <1>1, <1>2 DEF TypeOK, OpenShared, cache, Places

LEMMA TilesType ==
    ASSUME TypeOK, NEW c \in -1..R-1, c \in chunks, pc = "chunks",
           NEW last \in Int, Tiles(c, last)
    PROVE  pdf' \in [Pieces -> Regions]
<1>1. ASSUME NEW r \in Pieces
      PROVE  pdf'[r] \in Regions
  <2>1. CASE r \notin ChunkRegions(c) \/ r > last
    BY <2>1 DEF Tiles, TypeOK
  <2>2. CASE ~(r \notin ChunkRegions(c) \/ r > last) /\ c = -1
    BY <2>2, TypesetType DEF Tiles, TypeOK
  <2>3. CASE ~(r \notin ChunkRegions(c) \/ r > last) /\ c # -1
    <3>1. c <= r /\ c \in DOMAIN checkpoints
      BY <2>3, PiecesAssumption DEF ChunkRegions, Pieces, TypeOK
    <3> QED
      BY <2>3, <3>1, ResumedType DEF Tiles
  <2> QED
    BY <2>1, <2>2, <2>3
<1> QED
  BY <1>1 DEF Tiles

LEMMA TypeChunk == ASSUME NEW c \in -1..R-1, TypeOK, Chunk(c)
                   PROVE  TypeOK'
<1>1. pdf' \in [Pieces -> Regions]
  BY TilesType, PiecesAssumption DEF Chunk
<1>2. CASE chunks = {c} /\ how = "warm"
  <2>1. 0 \in 0..R-1
    BY PiecesAssumption
  <2> QED
    BY <1>1, <1>2, <2>1 DEF TypeOK, Chunk, Ends, cache, Places, Ages
<1>3. CASE ~(chunks = {c} /\ how = "warm")
  <2>1. chunks' = chunks \ {c} /\ pc' \in {"typeset", "chunks"}
    BY <1>3 DEF Chunk
  <2>2. pc' = "typeset" => how = "fallback"
    BY <1>3 DEF Chunk, TypeOK
  <2> QED
    BY <1>1, <1>3, <2>1, <2>2 DEF TypeOK, Chunk, cache, Places
<1> QED
  BY <1>2, <1>3

LEMMA TypeChunkFails ==
    ASSUME NEW c \in -1..R-1, TypeOK, ChunkFails(c)
    PROVE  TypeOK'
<1>1. pc' \in {"typeset", "chunks"} /\ how' = "fallback"
  BY DEF ChunkFails
<1>2. chunks' \subseteq -1..R-1 /\ chunks' \subseteq DOMAIN checkpoints \cup {-1}
  BY DEF ChunkFails, TypeOK
<1>3. pdf' \in [Pieces -> Regions]
  <2>1. PICK last \in c..R : Tiles(c, last)
    BY DEF ChunkFails
  <2> QED
    BY <2>1, TilesType, PiecesAssumption DEF ChunkFails
<1> QED
  BY <1>1, <1>2, <1>3 DEF TypeOK, ChunkFails, cache, history, Places

LEMMA ForwardType ==
    ASSUME TypeOK, reuse \in DOMAIN checkpoints, NEW last \in Int, Forward(last)
    PROVE  pdf' \in [Pieces -> Regions]
<1>1. ASSUME NEW r \in Pieces
      PROVE  pdf'[r] \in Regions
  <2>1. CASE r \in reuse + 1..last
    <3>1. reuse <= r
      BY <2>1, PiecesAssumption DEF TypeOK, Pieces
    <3> QED
      BY <2>1, <3>1, ResumedType DEF Forward
  <2>2. CASE r \notin reuse + 1..last
    BY <2>2 DEF Forward, TypeOK
  <2> QED
    BY <2>1, <2>2
<1> QED
  BY <1>1 DEF Forward

LEMMA TypeTakeUp == TypeOK /\ TakeUp => TypeOK'
<1> SUFFICES ASSUME TypeOK, TakeUp
             PROVE  TypeOK'
  OBVIOUS
<1>1. pdf' \in [Pieces -> Regions]
  BY ForwardType, PiecesAssumption DEF TakeUp
<1>2. 0 \in 0..R-1
  BY PiecesAssumption
<1> QED
  BY <1>1, <1>2 DEF TypeOK, TakeUp, Ends, cache, Places, Ages

LEMMA TypeTakeUpFails == TypeOK /\ TakeUpFails => TypeOK'
<1> SUFFICES ASSUME TypeOK, TakeUpFails
             PROVE  TypeOK'
  OBVIOUS
<1>1. pdf' \in [Pieces -> Regions]
  <2>1. CASE UNCHANGED pdf
    BY <2>1 DEF TypeOK
  <2>2. ASSUME reuse \in DOMAIN checkpoints, NEW last \in reuse..R, Forward(last)
        PROVE  pdf' \in [Pieces -> Regions]
    BY <2>2, ForwardType, PiecesAssumption DEF TypeOK
  <2> QED
    BY <2>1, <2>2 DEF TakeUpFails
<1>2. 0 \in 0..MaxPasses /\ 0 < MaxPasses
  BY PassesAssumption
<1>3. deaf' \in BOOLEAN /\ behind' \in BOOLEAN
  BY DEF TypeOK, TakeUpFails
<1>4. state' \in Ages /\ prev' \in Ages
  <2>1. state \in Ages /\ CutShort(src) \in Ages
    BY LeftType DEF TypeOK
  <2> QED
    BY <2>1 DEF TakeUpFails, GoCold
<1>5. pc' = "clear" /\ how' = "cold" /\ passes' = 0
  BY DEF TakeUpFails, GoCold
<1> QED
  BY <1>1, <1>2, <1>3, <1>4, <1>5 DEF TypeOK, TakeUpFails, cache, Places

LEMMA TypeClear == TypeOK /\ Clear => TypeOK'
<1> SUFFICES ASSUME TypeOK, Clear
             PROVE  TypeOK'
  OBVIOUS
<1>1. DOMAIN positions' = {} /\ DOMAIN checkpoints' = {} /\ prefix' \in Regions
  BY BlankType DEF Clear, ClearCache, Empty
<1> QED
  BY <1>1 DEF TypeOK, Clear, ClearCache, run, memory, Places

LEMMA TypeBegin == TypeOK /\ Begin => TypeOK'
<1> SUFFICES ASSUME TypeOK, Begin
             PROVE  TypeOK'
  OBVIOUS
<1>1. pdf' \in [Pieces -> Regions]
  BY BlankType DEF Begin
<1>2. read' \in Reads /\ read' # None
  BY NoneAssumption DEF Begin, Reads, TypeOK
<1> QED
  BY <1>1, <1>2 DEF TypeOK, Begin, cache, Places

LEMMA FoundType ==
    ASSUME TypeOK, pc = "typesetting", NEW k \in Pieces
    PROVE  /\ read.text \in Texts /\ read.state \in Ages
           /\ Found(k) \in Texts
           /\ read.text = src => Found(k) = src
<1>1. read \in Reads
  BY DEF TypeOK
<1>2. read.text \in Texts /\ read.state \in Ages
  BY <1>1 DEF Reads
<1> QED
  BY <1>2 DEF TypeOK, Texts, Found

\* What a pass that ends leaves, whoever ran it.
LEMMA FinishType ==
    ASSUME TypeOK, pc = "typesetting", NEW text \in Texts,
           pdf' = [r \in Pieces |-> Typeset(text, read.state, r)],
           state' = Left(text, read.state)
    PROVE  pdf' \in [Pieces -> Regions] /\ state' \in Ages
<1>1. read.state \in Ages
  BY DEF TypeOK, Reads
<1> QED
  BY <1>1, TypesetType, LeftType

LEMMA DropsType ==
    ASSUME NEW text \in Texts, NEW taken \in SUBSET (0..R-1), read.state \in Ages,
           Drops(text, taken)
    PROVE  /\ DOMAIN positions' = taken /\ DOMAIN checkpoints' = taken
           /\ prefix' \in Regions
           /\ \A c \in taken :
                /\ positions'[c] \in [0..c -> Versions]
                /\ checkpoints'[c] \in [text : [0..c -> Versions], with : Ages]
<1>1. taken \subseteq Pieces /\ 0 \in Pieces
  BY PiecesAssumption DEF Pieces
<1> QED
  BY <1>1, TypesetType, UptoOf, BlankType DEF Drops

\* The two ways in which Finish goes on, with the text that was found named.
LEMMA FinishCases ==
    ASSUME TypeOK, Finish
    PROVE  \E k \in Pieces :
             /\ Found(k) \in Texts
             /\ pdf' = [r \in Pieces |-> Typeset(Found(k), read.state, r)]
             /\ state' = Left(Found(k), read.state)
             /\ \/ /\ how = "fallback"
                   /\ Ends("ok") /\ behind' = moved
                   /\ UNCHANGED <<cache, passes>>
                \/ /\ how = "cold"
                   /\ \E taken \in SUBSET (0..R-1) : Drops(Found(k), taken)
                   /\ passes' = passes + 1
                   /\ read' = [read EXCEPT !.text = Found(k)]
                   /\ prev' = state'
                   /\ pc' = IF Settled(state') \/ passes' = MaxPasses
                            THEN "record" ELSE "clear"
                   /\ UNCHANGED <<result, behind, began, reuse, chunks, deaf>>
<1>1. how \in {"cold", "fallback"} /\ pc = "typesetting"
  BY DEF TypeOK, Finish
<1>2. PICK k \in Pieces :
        /\ pdf' = [r \in Pieces |-> Typeset(Found(k), read.state, r)]
        /\ state' = Left(Found(k), read.state)
        /\ IF how = "fallback"
           THEN /\ Ends("ok")
                /\ behind' = moved
                /\ UNCHANGED <<cache, passes>>
           ELSE /\ \E declined \in Declined :
                     Drops(Found(k), IF deaf THEN {} ELSE (0..R-1) \ declined)
                /\ passes' = passes + 1
                /\ read' = [read EXCEPT !.text = Found(k)]
                /\ prev' = Left(Found(k), read.state)
                /\ pc' = IF Settled(Left(Found(k), read.state)) \/ passes' = MaxPasses
                         THEN "record" ELSE "clear"
                /\ UNCHANGED <<result, behind, began, reuse, chunks, deaf>>
  BY DEF Finish
<1>3. Found(k) \in Texts
  BY <1>1, FoundType
<1>4. CASE how = "fallback"
  BY <1>2, <1>3, <1>4
<1>5. CASE how = "cold"
  <2>1. PICK declined \in Declined :
          Drops(Found(k), IF deaf THEN {} ELSE (0..R-1) \ declined)
    BY <1>2, <1>5
  <2>2. (IF deaf THEN {} ELSE (0..R-1) \ declined) \in SUBSET (0..R-1)
    OBVIOUS
  <2>3. \E taken \in SUBSET (0..R-1) : Drops(Found(k), taken)
    BY <2>1, <2>2
  <2> QED
    BY <1>2, <1>3, <1>5, <2>3
<1> QED
  BY <1>1, <1>4, <1>5

LEMMA TypeFinish == TypeOK /\ Finish => TypeOK'
<1> SUFFICES ASSUME TypeOK, Finish
             PROVE  TypeOK'
  OBVIOUS
<1>1. PICK k \in Pieces :
        /\ Found(k) \in Texts
        /\ pdf' = [r \in Pieces |-> Typeset(Found(k), read.state, r)]
        /\ state' = Left(Found(k), read.state)
        /\ \/ /\ how = "fallback"
              /\ Ends("ok") /\ behind' = moved
              /\ UNCHANGED <<cache, passes>>
           \/ /\ how = "cold"
              /\ \E taken \in SUBSET (0..R-1) : Drops(Found(k), taken)
              /\ passes' = passes + 1
              /\ read' = [read EXCEPT !.text = Found(k)]
              /\ prev' = state'
              /\ pc' = IF Settled(state') \/ passes' = MaxPasses
                       THEN "record" ELSE "clear"
              /\ UNCHANGED <<result, behind, began, reuse, chunks, deaf>>
  BY FinishCases
<1>2. pdf' \in [Pieces -> Regions] /\ state' \in Ages
  BY <1>1, FinishType DEF Finish
<1>3. CASE Ends("ok") /\ behind' = moved /\ UNCHANGED <<cache, passes>>
  <2>1. 0 \in 0..R-1
    BY PiecesAssumption
  <2> QED
    BY <1>2, <1>3, <2>1 DEF TypeOK, Finish, Ends, cache, Places, Ages
<1>4. ASSUME how = "cold", NEW taken \in SUBSET (0..R-1), Drops(Found(k), taken),
             passes' = passes + 1, read' = [read EXCEPT !.text = Found(k)],
             prev' = state',
             pc' = IF Settled(state') \/ passes' = MaxPasses THEN "record" ELSE "clear",
             UNCHANGED <<result, behind, began, reuse, chunks, deaf>>
      PROVE  TypeOK'
  <2>1. read \in Reads /\ read # None /\ began # None /\ passes < MaxPasses
    BY <1>4 DEF TypeOK, Finish
  <2>2. read' \in Reads /\ read' # None
    BY <1>1, <1>4, <2>1, NoneAssumption DEF Reads
  <2>3. passes' \in 0..MaxPasses /\ (pc' = "clear" => passes' < MaxPasses)
    BY <1>4, <2>1, PassesAssumption DEF TypeOK
  <2>4. /\ DOMAIN positions' \subseteq 0..R-1 /\ DOMAIN checkpoints' \subseteq 0..R-1
        /\ prefix' \in Regions
        /\ \A c \in DOMAIN positions' : positions'[c] \in [0..c -> Versions]
        /\ \A c \in DOMAIN checkpoints' :
             checkpoints'[c] \in [text : [0..c -> Versions], with : Ages]
    <3>1. read.state \in Ages
      BY <2>1 DEF Reads
    <3> QED
      BY <1>1, <1>4, <3>1, DropsType
  <2> QED
    BY <1>2, <1>4, <2>1, <2>2, <2>3, <2>4 DEF TypeOK, Finish, Drops, Places
<1> QED
  BY <1>1, <1>3, <1>4

LEMMA TypeFinishFails == TypeOK /\ FinishFails => TypeOK'
<1> SUFFICES ASSUME TypeOK, FinishFails
             PROVE  TypeOK'
  OBVIOUS
<1>1. read.text \in Texts /\ read.state \in Ages
  BY DEF TypeOK, FinishFails, Reads
<1>2. CutShort(read.text) \in Ages /\ Left(read.text, read.state) \in Ages
  BY <1>1, LeftType
<1>3. state' \in Ages
  BY <1>2 DEF FinishFails, TypeOK
<1>4. 0 \in 0..R-1
  BY PiecesAssumption
<1> QED
  BY <1>3, <1>4 DEF TypeOK, FinishFails, Ends, cache, history, Places, Ages

LEMMA TypeRecord == TypeOK /\ Record => TypeOK'
BY DEF TypeOK, Record, run, memory, history, Places

LEMMA TypeWriteManifest == TypeOK /\ WriteManifest => TypeOK'
<1>1. 0 \in 0..R-1
  BY PiecesAssumption
<1> QED
  BY <1>1 DEF TypeOK, WriteManifest, Ends, Places, Ages

LEMMA TypeEdit == TypeOK /\ Edit => TypeOK'
<1> SUFFICES ASSUME TypeOK, Edit
             PROVE  TypeOK'
  OBVIOUS
<1>1. src' \in Texts
  BY DEF TypeOK, Edit, Texts
<1>2. moved' \in BOOLEAN /\ result' \in {"none", "ok", "failed", "killed"}
  BY DEF TypeOK, Edit
<1>3. events' \in 0..MaxEvents
  BY PassesAssumption DEF TypeOK, Edit, Happens
<1> QED
  BY <1>1, <1>2, <1>3 DEF TypeOK, Edit, cache, run, memory

LEMMA TypeLoseState == TypeOK /\ LoseState => TypeOK'
<1>1. TypeOK /\ Happens => events' \in 0..MaxEvents
  BY PassesAssumption DEF TypeOK, Happens
<1> QED
  BY <1>1 DEF TypeOK, LoseState, cache, run, memory, Ages

LEMMA TypeKill == TypeOK /\ Kill => TypeOK'
<1> SUFFICES ASSUME TypeOK, Kill
             PROVE  TypeOK'
  OBVIOUS
<1>1. events' \in 0..MaxEvents /\ 0 \in 0..R-1 /\ Ends("killed")
  BY PassesAssumption, PiecesAssumption
     DEF TypeOK, Kill, Happens, Killed, KillClearing, KillTypesetting,
         KillTakingUp, KillElsewhere
<1>2. CASE KillClearing
  <2>1. /\ manifest' \in Texts \cup {None} /\ sources' \in Reads \cup {None}
        /\ prefix' \in Regions
    BY <1>2, BlankType DEF TypeOK, KillClearing, ClearCache
  <2>2. /\ DOMAIN positions' \subseteq 0..R-1
        /\ \A c \in DOMAIN positions' : positions'[c] \in [0..c -> Versions]
    BY <1>2 DEF TypeOK, KillClearing, ClearCache, Empty
  <2>3. /\ DOMAIN checkpoints' \subseteq 0..R-1
        /\ \A c \in DOMAIN checkpoints' :
             checkpoints'[c] \in [text : [0..c -> Versions], with : Ages]
    BY <1>2 DEF TypeOK, KillClearing, ClearCache, Empty, Restrict
  <2> QED
    BY <1>1, <1>2, <2>1, <2>2, <2>3 DEF TypeOK, KillClearing, Ends, Places, Ages
<1>3. CASE KillTypesetting
  <2>1. read.text \in Texts
    BY <1>3 DEF TypeOK, KillTypesetting, Reads
  <2>2. state' \in Ages
    BY <1>3, <2>1, LeftType DEF TypeOK, KillTypesetting
  <2> QED
    BY <1>1, <1>3, <2>2 DEF TypeOK, KillTypesetting, Ends, cache, Places, Ages
<1>4. CASE KillTakingUp
  <2>1. pdf' \in [Pieces -> Regions]
    BY <1>4, ForwardType, PiecesAssumption DEF KillTakingUp, TypeOK
  <2>2. state' \in Ages
    <3>1. state \in Ages /\ CutShort(src) \in Ages
      BY LeftType DEF TypeOK
    <3> QED
      BY <1>4, <3>1 DEF KillTakingUp
  <2> QED
    BY <1>1, <1>4, <2>1, <2>2 DEF TypeOK, KillTakingUp, Ends, cache, Places, Ages
<1>5. CASE KillElsewhere
  BY <1>1, <1>5 DEF TypeOK, KillElsewhere, Ends, disk, cache, Places, Ages
<1> QED
  BY <1>2, <1>3, <1>4, <1>5 DEF Kill

LEMMA TypeStep == TypeOK /\ [Next]_vars => TypeOK'
<1>1. TypeOK /\ UNCHANGED vars => TypeOK'
  BY DEF TypeOK, vars, disk, cache, run, memory, history
<1> QED
  BY <1>1, TypeStart, TypeOpenShared, TypeChunk, TypeChunkFails, TypeTakeUp,
     TypeTakeUpFails, TypeClear, TypeBegin, TypeFinish, TypeFinishFails,
     TypeRecord, TypeWriteManifest, TypeEdit, TypeLoseState, TypeKill
     DEF Next, Step

\* Every variable of the driver is of its type, and where a process stands
\* agrees with the kind of run it is.
THEOREM DriverTypeCorrect == Spec => []TypeOK
<1> QED
  BY TypeInit, TypeStep, PTL DEF Spec

-----------------------------------------------------------------------------
(* The invariant. *)

LEMMA InvInit == Init => Inv
<1> SUFFICES ASSUME Init
             PROVE  Inv
  OBVIOUS
<1>1. TypeOK
  BY TypeInit
<1>2. CacheInv /\ BaseInv /\ StillInv /\ ColdInv /\ WarmInv /\ IncrementalInv
  BY DEF Init, CacheInv, BaseInv, StillInv, ColdInv, WarmInv, IncrementalInv
<1>3. Results
  BY DEF Init, Results, SequentialIsRight, WarmOnItsSecondRun, WarmIsNeverWrong,
         IncrementalIsRight
<1> QED
  BY <1>1, <1>2, <1>3 DEF Inv

\* A step that is not the successful end of a run says nothing of its result.
LEMMA NoResult == ASSUME result' # "ok"
                  PROVE  Results'
BY DEF Results, SequentialIsRight, WarmOnItsSecondRun, WarmIsNeverWrong,
       IncrementalIsRight

\* When no run is under way there is nothing to say of one.
LEMMA AtRest == ASSUME pc' = "idle"
                PROVE  ColdInv' /\ WarmInv' /\ IncrementalInv'
BY DEF ColdInv, WarmInv, IncrementalInv

\* Of two texts that agree, what comes up to a place agrees.
LEMMA UptoEqual ==
    ASSUME NEW s \in Texts, NEW t \in Texts, NEW r \in Pieces,
           \A p \in 0..r : s[p] = t[p]
    PROVE  Upto(s, r) = Upto(t, r)
<1>1. /\ Upto(s, r) = [p \in 0..r |-> s[p]]
      /\ Upto(t, r) = [p \in 0..r |-> t[p]]
  BY UptoOf
<1> QED
  BY <1>1

\* A checkpoint taken of a text that is the same up to there, with a state that
\* is the same, is as good as the text.
LEMMA ResumedIsRight ==
    ASSUME NEW c \in DOMAIN checkpoints, NEW r \in Pieces, c \in Pieces, c <= r,
           NEW text \in Texts, NEW with,
           checkpoints[c] = Typeset(text, with, c),
           src \in Texts, \A p \in 0..c : text[p] = src[p]
    PROVE  /\ Resumed(c, r).text = Upto(src, r)
           /\ with = state => Resumed(c, r) = Typeset(src, state, r)
<1>1. \A p \in 0..c : checkpoints[c].text[p] = src[p]
  <2>1. Upto(text, c) = [p \in 0..c |-> text[p]]
    BY UptoOf
  <2>2. checkpoints[c].text = Upto(text, c)
    BY DEF Typeset
  <2> QED
    BY <2>1, <2>2
<1>2. checkpoints[c].with = with
  BY DEF Typeset
<1>3. \A p \in 0..r : p <= c => p \in 0..c
  BY PiecesAssumption DEF Pieces
<1>4. Upto(src, r) = [p \in 0..r |-> src[p]]
  BY UptoOf
<1>5. [p \in 0..r |-> IF p <= c THEN checkpoints[c].text[p] ELSE src[p]]
        = [p \in 0..r |-> src[p]]
  BY <1>1, <1>3
<1> QED
  BY <1>2, <1>4, <1>5 DEF Resumed, Typeset

LEMMA InvStart == Inv /\ Start => Inv'
<1> SUFFICES ASSUME Inv, Start
             PROVE  Inv'
  OBVIOUS
<1> USE DEF Inv
<1>1. TypeOK' /\ Results'
  BY TypeStart, NoResult DEF Start
<1>2. CacheInv' /\ BaseInv'
  BY DEF Start, GoCold, CacheInv, BaseInv, Of, disk, cache
<1>3. StillInv'
  BY DEF Start, GoCold, StillInv, Warm, disk, cache
<1>4. ColdInv'
  BY DEF Start, GoCold, ColdInv, disk
<1>5. WarmInv'
  BY DEF Start, GoCold, WarmInv, Warm, StateChanged, CacheInv, disk, cache
<1>6. ASSUME pc' = "resume", ~hurt
      PROVE  /\ manifest # None
             /\ \A p \in 0..reuse' : manifest[p] = src[p]
             /\ onto' = behind
  <2>1. manifest # None /\ reuse' \in ReusePages /\ onto' = behind
    BY <1>6 DEF Start, GoCold, Incremental
  <2>2. /\ sources # None /\ reuse' \in DOMAIN positions /\ Reusable(reuse')
        /\ sources.text = manifest /\ positions[reuse'] = Upto(manifest, reuse')
    BY <1>6, <2>1 DEF ReusePages, CacheInv, Of
  <2>3. ASSUME NEW p \in 0..reuse'
        PROVE  manifest[p] = src[p]
    <3>1. p \in Pieces /\ p <= reuse' /\ reuse' \in Pieces
      BY <2>2, PiecesAssumption DEF TypeOK, Pieces
    <3>2. manifest \in Texts
      BY <2>1 DEF TypeOK
    <3>3. positions[reuse'][p] = manifest[p]
      <4>1. Upto(manifest, reuse') = [q \in 0..reuse' |-> manifest[q]]
        BY <3>1, <3>2, UptoOf
      <4> QED
        BY <2>2, <4>1
    <3> SUFFICES ASSUME manifest[p] # src[p]
                 PROVE  FALSE
      OBVIOUS
    <3>4. FileOf[p] \in Changed
      <4>1. FileOf[p] \in Range(FileOf)
        BY <3>1, PiecesAssumption
      <4> QED
        BY <2>2, <3>1, <4>1 DEF Changed
    <3>5. ~(First(FileOf[p]) > reuse')
      BY <3>1, FirstComesFirst, PiecesAssumption DEF Pieces
    <3> QED
      BY <2>2, <3>3, <3>4, <3>5 DEF Reusable
  <2> QED
    BY <2>1, <2>3
<1>7. IncrementalInv'
  BY <1>6 DEF IncrementalInv, Start, disk, cache
<1> QED
  BY <1>1, <1>2, <1>3, <1>4, <1>5, <1>7

LEMMA InvOpenShared == Inv /\ OpenShared => Inv'
<1> SUFFICES ASSUME Inv, OpenShared
             PROVE  Inv'
  OBVIOUS
<1> USE DEF Inv
<1>1. TypeOK'
  BY TypeOpenShared
<1>2. Results'
  <2>1. result' # "ok"
    BY DEF OpenShared, StillInv
  <2> QED
    BY <2>1, NoResult
<1>3. CacheInv' /\ BaseInv' /\ StillInv' /\ ColdInv' /\ IncrementalInv'
  BY DEF OpenShared, CacheInv, BaseInv, StillInv, ColdInv, IncrementalInv, Of,
         cache
<1>4. ASSUME ~moved, ~hurt, NEW r \in Pieces,
             \A c \in ChunkStarts : r \notin ChunkRegions(c)
      PROVE  pdf'[r] = Typeset(src, state, r)
  <2>1. r = 0 /\ 0 \in DOMAIN checkpoints
    BY <1>4, ChunksCover DEF TypeOK
  <2>2. manifest = src /\ manifest # None /\ sources.state = state
    BY <1>4 DEF OpenShared, WarmInv, TypeOK
  <2>3. prefix = Typeset(manifest, sources.state, 0)
    BY <1>4, <2>1, <2>2 DEF CacheInv, Of
  <2> QED
    BY <2>1, <2>2, <2>3 DEF OpenShared
<1>5. WarmInv'
  <2>1. \A c : ChunkRegions(c)' = ChunkRegions(c)
    BY DEF OpenShared, ChunkRegions, cache
  <2> QED
    BY <1>4, <2>1 DEF WarmInv, OpenShared, cache, TypeOK, Typeset, Upto, Restrict
<1> QED
  BY <1>1, <1>2, <1>3, <1>5

\* What a chunk of a warm run writes, where the sources stand still.
LEMMA ChunkIsRight ==
    ASSUME Inv, NEW c \in -1..R-1, Chunk(c), how = "warm", ~moved, ~hurt,
           NEW r \in Pieces,
           r \in ChunkRegions(c) \/ pdf[r] = Typeset(src, state, r)
    PROVE  pdf'[r] = Typeset(src, state, r)
<1> USE DEF Inv
<1>1. /\ manifest = src /\ manifest # None /\ sources.state = state
      /\ Of(manifest, sources.state) /\ src \in Texts
  BY DEF Chunk, WarmInv, CacheInv, TypeOK
<1>2. ~(r > R)
  BY PiecesAssumption DEF Pieces
<1>3. CASE r \notin ChunkRegions(c)
  BY <1>3 DEF Chunk, Tiles
<1>4. CASE r \in ChunkRegions(c) /\ c = -1
  BY <1>2, <1>4 DEF Chunk, Tiles
<1>5. CASE r \in ChunkRegions(c) /\ c # -1
  <2>1. c \in DOMAIN checkpoints /\ c \in Pieces /\ c <= r
    BY <1>5, PiecesAssumption DEF Chunk, TypeOK, ChunkRegions, Pieces
  <2>2. checkpoints[c] = Typeset(src, state, c)
    BY <1>1, <2>1 DEF Of
  <2>3. Resumed(c, r) = Typeset(src, state, r)
    BY <1>1, <2>1, <2>2, ResumedIsRight
  <2> QED
    BY <1>2, <1>5, <2>3 DEF Chunk, Tiles
<1> QED
  BY <1>3, <1>4, <1>5

LEMMA InvChunk == ASSUME NEW c \in -1..R-1, Inv, Chunk(c)
                  PROVE  Inv'
<1> USE DEF Inv
<1>1. TypeOK'
  BY TypeChunk
<1>2. CacheInv'
  BY DEF Chunk, CacheInv, Of, cache
<1>3. CASE chunks = {c} /\ how = "warm"
  <2>1. /\ pc' = "idle" /\ result' = "ok" /\ behind' = moved
        /\ UNCHANGED <<src, state, cache, how, moved, hurt>>
    BY <1>3 DEF Chunk, Ends
  <2>2. ASSUME ~moved, ~hurt, NEW r \in Pieces
        PROVE  pdf'[r] = Typeset(src, state, r)
    BY <1>3, <2>2, ChunkIsRight DEF WarmInv, Chunk
  <2>3. BaseInv'
    <3>1. ~moved => manifest = src
      BY DEF StillInv, Chunk
    <3>2. ASSUME ~moved, ~hurt, NEW r \in Pieces
          PROVE  pdf'[r].text = Upto(manifest, r)
      <4>1. pdf'[r] = Typeset(src, state, r)
        BY <2>2, <3>2
      <4>2. manifest = src
        BY <3>1, <3>2
      <4> QED
        BY <4>1, <4>2 DEF Typeset
    <3>3. /\ manifest' = manifest /\ hurt' = hurt /\ behind' = moved
          /\ pc' = "idle"
      BY <2>1 DEF cache
    <3>4. \A r \in Pieces : Upto(manifest, r)' = Upto(manifest', r)
      BY DEF Upto, Restrict
    <3> QED
      BY <3>2, <3>3, <3>4 DEF BaseInv
  <2>4. StillInv'
    BY <2>1 DEF StillInv
  <2>5. Results'
    <3>1. how' = "warm"
      BY <1>3, <2>1
    <3>2. WarmIsNeverWrong'
      BY <2>1, <2>2 DEF WarmIsNeverWrong, AsTypeset, Typeset, Upto, Restrict
    <3> QED
      BY <3>1, <3>2 DEF Results, SequentialIsRight, WarmOnItsSecondRun,
                        IncrementalIsRight
  <2> QED
    BY <1>1, <1>2, <2>1, <2>3, <2>4, <2>5, AtRest
<1>4. CASE ~(chunks = {c} /\ how = "warm")
  <2>1. /\ chunks' = chunks \ {c}
        /\ pc' = IF chunks' = {} THEN "typeset" ELSE "chunks"
        /\ UNCHANGED <<result, behind, began, read, prev, reuse, deaf>>
        /\ UNCHANGED <<src, state, cache, how, moved, hurt>>
    BY <1>4 DEF Chunk
  <2>2. Results'
    <3>1. result' # "ok"
      BY <2>1 DEF StillInv, Chunk
    <3> QED
      BY <3>1, NoResult
  <2>3. BaseInv'
    BY <2>1 DEF BaseInv, Chunk
  <2>4. StillInv'
    BY <2>1 DEF StillInv, Chunk, cache
  <2>5. how = "cold" => FALSE
    BY DEF Chunk, TypeOK
  <2>6. ColdInv' /\ IncrementalInv'
    BY <2>1, <2>5 DEF ColdInv, IncrementalInv
  <2>7. WarmInv'
    <3>1. \A d : ChunkRegions(d)' = ChunkRegions(d)
      BY <2>1 DEF ChunkRegions, cache
    <3>2. ASSUME how = "warm", ~moved, ~hurt, NEW r \in Pieces,
                 \A d \in chunks' : r \notin ChunkRegions(d)
          PROVE  pdf'[r] = Typeset(src, state, r)
      <4>1. r \in ChunkRegions(c) \/ pdf[r] = Typeset(src, state, r)
        BY <2>1, <3>2 DEF WarmInv, Chunk
      <4> QED
        BY <3>2, <4>1, ChunkIsRight
    <3>3. pc' = "chunks" /\ how = "warm" /\ ~moved /\ ~hurt =>
            manifest = src /\ manifest # None /\ sources.state = state
      BY DEF WarmInv, Chunk
    <3>4. pc' # "open"
      BY <2>1
    <3> QED
      BY <2>1, <3>1, <3>2, <3>3, <3>4 DEF WarmInv, Typeset, Upto, Restrict, cache
  <2> QED
    BY <1>1, <1>2, <2>2, <2>3, <2>4, <2>6, <2>7
<1> QED
  BY <1>3, <1>4

LEMMA InvChunkFails == ASSUME NEW c \in -1..R-1, Inv, ChunkFails(c)
                       PROVE  Inv'
<1> USE DEF Inv
<1>1. TypeOK'
  BY TypeChunkFails
<1>2. Results'
  <2>1. result' # "ok"
    BY DEF ChunkFails, StillInv
  <2> QED
    BY <2>1, NoResult
<1>3. CacheInv' /\ BaseInv'
  BY DEF ChunkFails, CacheInv, BaseInv, Of, cache, history
<1>4. StillInv'
  BY DEF ChunkFails, StillInv, cache, history
<1>5. ColdInv' /\ WarmInv' /\ IncrementalInv'
  BY DEF ChunkFails, ColdInv, WarmInv, IncrementalInv
<1> QED
  BY <1>1, <1>2, <1>3, <1>4, <1>5

LEMMA InvTakeUp == Inv /\ TakeUp => Inv'
<1> SUFFICES ASSUME Inv, TakeUp
             PROVE  Inv'
  OBVIOUS
<1> USE DEF Inv
<1>1. TypeOK'
  BY TypeTakeUp
<1>2. /\ pc' = "idle" /\ behind' = TRUE /\ how' = "incremental"
      /\ UNCHANGED <<src, state, cache, moved, hurt, onto>>
  BY DEF TakeUp, Ends, TypeOK
<1>3. CacheInv' /\ BaseInv' /\ StillInv'
  BY <1>2 DEF CacheInv, BaseInv, StillInv, Of, cache
<1>4. ASSUME ~moved, ~hurt, ~onto, NEW r \in Pieces
      PROVE  pdf'[r].text = Upto(src, r)
  <2>1. /\ manifest # None /\ manifest \in Texts /\ src \in Texts /\ ~behind
        /\ Of(manifest, sources.state)
        /\ \A p \in 0..reuse : manifest[p] = src[p]
    BY <1>4 DEF TakeUp, IncrementalInv, CacheInv, TypeOK
  <2>2. reuse \in DOMAIN checkpoints /\ reuse \in Pieces
    BY PiecesAssumption DEF TakeUp, TypeOK, Pieces
  <2>3. CASE r \in reuse + 1..R
    <3>1. reuse <= r
      BY <2>2, <2>3, PiecesAssumption DEF Pieces
    <3>2. checkpoints[reuse] = Typeset(manifest, sources.state, reuse)
      BY <2>1, <2>2 DEF Of
    <3>3. Resumed(reuse, r).text = Upto(src, r)
      BY <2>1, <2>2, <3>1, <3>2, ResumedIsRight
    <3> QED
      BY <2>3, <3>3 DEF TakeUp, Forward
  <2>4. CASE r \notin reuse + 1..R
    <3>1. r <= reuse
      BY <2>2, <2>4, PiecesAssumption DEF Pieces
    <3>2. \A p \in 0..r : p \in 0..reuse
      BY <2>2, <3>1, PiecesAssumption DEF Pieces
    <3>3. Upto(manifest, r) = Upto(src, r)
      BY <2>1, <3>2, UptoEqual
    <3>4. pdf[r].text = Upto(manifest, r)
      BY <1>4, <2>1 DEF BaseInv
    <3> QED
      BY <2>4, <3>3, <3>4 DEF TakeUp, Forward
  <2> QED
    BY <2>3, <2>4
<1>5. Results'
  <2>1. IncrementalIsRight'
    BY <1>2, <1>4 DEF IncrementalIsRight, TextIsRight, Upto, Restrict
  <2> QED
    BY <1>2, <2>1 DEF Results, SequentialIsRight, WarmOnItsSecondRun,
                      WarmIsNeverWrong
<1> QED
  BY <1>1, <1>2, <1>3, <1>5, AtRest

LEMMA InvTakeUpFails == Inv /\ TakeUpFails => Inv'
<1> SUFFICES ASSUME Inv, TakeUpFails
             PROVE  Inv'
  OBVIOUS
<1> USE DEF Inv
<1>1. TypeOK'
  BY TypeTakeUpFails
<1>2. /\ pc' = "clear" /\ how' = "cold" /\ prev' = state' /\ result' # "ok"
      /\ UNCHANGED <<src, cache, result, began, read, moved, hurt>>
      /\ UNCHANGED <<pdf, behind>> \/ behind' = TRUE
      /\ Labels = {} => state' = None
  <2>1. Labels = {} => state = None /\ CutShort(src) = None
    BY LeftType DEF TypeOK, StillInv
  <2> QED
    BY <2>1 DEF TakeUpFails, GoCold, StillInv
<1>3. CacheInv' /\ BaseInv'
  BY <1>2 DEF CacheInv, BaseInv, Of, cache
<1>4. StillInv' /\ ColdInv' /\ WarmInv' /\ IncrementalInv'
  BY <1>2 DEF StillInv, ColdInv, WarmInv, IncrementalInv, TakeUpFails
<1>5. Results'
  BY <1>2, NoResult
<1> QED
  BY <1>1, <1>3, <1>4, <1>5

LEMMA InvClear == Inv /\ Clear => Inv'
<1> SUFFICES ASSUME Inv, Clear
             PROVE  Inv'
  OBVIOUS
<1> USE DEF Inv
<1>1. TypeOK'
  BY TypeClear
<1>2. /\ manifest' = None /\ pc' = "typeset" /\ how' = "cold" /\ result' # "ok"
      /\ UNCHANGED <<src, state, result, began, read, prev, moved>>
  BY DEF Clear, ClearCache, run, memory, StillInv, TypeOK
<1>3. prev = state /\ (~moved => began = src)
  BY DEF ColdInv, StillInv, Clear
<1>4. CacheInv' /\ BaseInv'
  BY <1>2 DEF CacheInv, BaseInv
<1>5. StillInv'
  BY <1>2, <1>3 DEF StillInv, Clear
<1>6. ColdInv' /\ WarmInv' /\ IncrementalInv'
  BY <1>2, <1>3 DEF ColdInv, WarmInv, IncrementalInv
<1>7. Results'
  BY <1>2, NoResult
<1> QED
  BY <1>1, <1>4, <1>5, <1>6, <1>7

LEMMA InvBegin == Inv /\ Begin => Inv'
<1> SUFFICES ASSUME Inv, Begin
             PROVE  Inv'
  OBVIOUS
<1> USE DEF Inv
<1>1. TypeOK'
  BY TypeBegin
<1>2. /\ pc' = "typesetting" /\ result' # "ok" /\ behind' = TRUE
      /\ read'.text = src /\ read'.state = state
      /\ UNCHANGED <<src, state, cache, result, how, began, prev, moved, hurt>>
  BY DEF Begin, StillInv
<1>3. CacheInv' /\ BaseInv'
  BY <1>2 DEF CacheInv, BaseInv, Of, cache
<1>4. StillInv'
  BY <1>2 DEF StillInv, Begin, cache
<1>5. ColdInv' /\ WarmInv' /\ IncrementalInv'
  BY <1>2 DEF ColdInv, WarmInv, IncrementalInv, Begin, cache
<1>6. Results'
  BY <1>2, NoResult
<1> QED
  BY <1>1, <1>3, <1>4, <1>5, <1>6

LEMMA InvFinish == Inv /\ Finish => Inv'
<1> SUFFICES ASSUME Inv, Finish
             PROVE  Inv'
  OBVIOUS
<1> USE DEF Inv
<1>1. TypeOK' /\ pc = "typesetting" /\ UNCHANGED <<src, how, moved, hurt>>
  BY TypeFinish DEF Finish
<1>2. PICK k \in Pieces :
        /\ Found(k) \in Texts
        /\ pdf' = [r \in Pieces |-> Typeset(Found(k), read.state, r)]
        /\ state' = Left(Found(k), read.state)
        /\ \/ /\ how = "fallback"
              /\ Ends("ok") /\ behind' = moved
              /\ UNCHANGED <<cache, passes>>
           \/ /\ how = "cold"
              /\ \E taken \in SUBSET (0..R-1) : Drops(Found(k), taken)
              /\ passes' = passes + 1
              /\ read' = [read EXCEPT !.text = Found(k)]
              /\ prev' = state'
              /\ pc' = IF Settled(state') \/ passes' = MaxPasses
                       THEN "record" ELSE "clear"
              /\ UNCHANGED <<result, behind, began, reuse, chunks, deaf>>
  BY FinishCases
<1>3. /\ read \in Reads /\ read.state \in Ages /\ read.state = state
      /\ ~moved => Found(k) = src
      /\ Labels = {} => state' = None /\ state = None
  <2>1. read.text \in Texts /\ read.state \in Ages
    BY <1>1, FoundType
  <2>2. ~moved => Found(k) = src
    BY <1>1, FoundType DEF StillInv
  <2>3. Labels = {} => state' = None
    BY <1>2, <2>1, LeftType
  <2> QED
    BY <1>1, <2>1, <2>2, <2>3 DEF TypeOK, ColdInv, StillInv
<1>4. CASE how = "fallback" /\ Ends("ok") /\ behind' = moved
           /\ UNCHANGED <<cache, passes>>
  <2>1. pc' = "idle" /\ CacheInv'
    BY <1>1, <1>4 DEF Ends, CacheInv, Of, cache
  <2>2. ASSUME ~moved, NEW r \in Pieces
        PROVE  pdf'[r].text = Upto(src, r) /\ manifest = src
    <3>1. pdf'[r] = Typeset(src, read.state, r)
      BY <1>2, <1>3, <2>2
    <3>2. manifest = src
      BY <1>1, <1>4, <2>2 DEF StillInv
    <3> QED
      BY <3>1, <3>2 DEF Typeset
  <2>3. BaseInv'
    <3>1. \A r \in Pieces : Upto(manifest, r)' = Upto(manifest, r)
      BY <1>4 DEF Upto, Restrict, cache
    <3> QED
      BY <1>4, <2>1, <2>2, <3>1 DEF BaseInv, cache
  <2>4. StillInv'
    BY <1>3, <2>1 DEF StillInv
  <2>5. Results'
    <3>1. how' = "fallback" /\ moved' = moved
      BY <1>1, <1>4
    <3>2. ~moved => TextIsRight'
      BY <1>1, <2>2 DEF TextIsRight, Upto, Restrict
    <3> QED
      BY <3>1, <3>2 DEF Results, SequentialIsRight, WarmOnItsSecondRun,
                        WarmIsNeverWrong, IncrementalIsRight
  <2> QED
    BY <1>1, <2>1, <2>3, <2>4, <2>5, AtRest
<1>5. ASSUME how = "cold", NEW taken \in SUBSET (0..R-1), Drops(Found(k), taken),
             read' = [read EXCEPT !.text = Found(k)], prev' = state',
             pc' = IF Settled(state') \/ passes' = MaxPasses THEN "record" ELSE "clear",
             UNCHANGED <<result, behind, began, reuse, chunks, deaf>>
      PROVE  Inv'
  <2>1. /\ how' = "cold" /\ manifest' = None /\ prev = state
        /\ passes' \in 0..MaxPasses
    BY <1>1, <1>5 DEF ColdInv, Drops, TypeOK
  <2>2. pc' \in {"record", "clear"} /\ result' # "ok"
    BY <1>1, <1>5 DEF StillInv
  <2>3. read'.text = Found(k) /\ read'.state = read.state
    BY <1>3, <1>5 DEF Reads
  <2>4. CacheInv' /\ BaseInv'
    BY <2>1, <2>2 DEF CacheInv, BaseInv
  <2>5. StillInv'
    BY <1>1, <1>3, <1>5, <2>1, <2>2 DEF StillInv
  <2>6. ASSUME Settled(state') \/ passes' = MaxPasses, passes' < MaxPasses
        PROVE  state' = read.state
    <3>1. Settled(state')
      BY <2>1, <2>6, PassesAssumption
    <3>2. CASE state' = None
      <4>1. Labels = {}
        BY <1>1, <1>2, <1>3, <3>2, LeftType
      <4> QED
        BY <1>3, <3>2, <4>1
    <3>3. CASE state' = prev
      BY <1>3, <2>1, <3>3
    <3> QED
      BY <3>1, <3>2, <3>3 DEF Settled
  <2>7. Of(read.text, read.state)'
    <3>1. /\ DOMAIN checkpoints' = taken /\ DOMAIN positions' = taken
          /\ \A c \in taken : checkpoints'[c] = Typeset(Found(k), read.state, c)
          /\ \A c \in taken : positions'[c] = Upto(Found(k), c)
          /\ 0 \in taken => prefix' = Typeset(Found(k), read.state, 0)
      BY <1>5 DEF Drops
    <3>2. /\ \A c \in taken : checkpoints'[c] = Typeset(read'.text, read'.state, c)
          /\ \A c \in taken : positions'[c] = Upto(read'.text, c)
          /\ 0 \in taken => prefix' = Typeset(read'.text, read'.state, 0)
      BY <2>3, <3>1
    <3> QED
      BY <3>1, <3>2, Zenon DEF Of, Typeset, Upto, Restrict
  <2>8. ~moved => \A r \in Pieces : pdf'[r] = Typeset(src, read'.state, r)
    BY <1>2, <1>3, <2>3
  <2>9. ColdInv'
    <3>1. CASE pc' = "clear"
      BY <1>5, <2>1, <3>1 DEF ColdInv
    <3>2. CASE pc' = "record"
      <4>1. Settled(state') \/ passes' = MaxPasses
        BY <1>5, <3>2
      <4>2. passes' < MaxPasses => state' = read'.state
        BY <2>3, <2>6, <4>1
      <4>3. ~moved => read'.text = src
        BY <1>3, <2>3
      <4> QED
        BY <1>1, <2>1, <2>7, <2>8, <3>2, <4>2, <4>3
           DEF ColdInv, Typeset, Upto, Restrict
    <3> QED
      BY <2>2, <3>1, <3>2
  <2>10. WarmInv' /\ IncrementalInv'
    BY <2>2 DEF WarmInv, IncrementalInv
  <2>11. Results'
    BY <2>2, NoResult
  <2> QED
    BY <1>1, <2>4, <2>5, <2>9, <2>10, <2>11
<1> QED
  BY <1>2, <1>4, <1>5

LEMMA InvFinishFails == Inv /\ FinishFails => Inv'
<1> SUFFICES ASSUME Inv, FinishFails
             PROVE  Inv'
  OBVIOUS
<1> USE DEF Inv
<1>1. TypeOK'
  BY TypeFinishFails
<1>2. /\ pc' = "idle" /\ result' # "ok"
      /\ UNCHANGED <<src, pdf, cache, moved, hurt, behind>>
  BY DEF FinishFails, Ends, history
<1>3. Labels = {} => state' = None
  <2>1. read.text \in Texts /\ read.state \in Ages
    BY DEF FinishFails, TypeOK, Reads
  <2>2. Labels = {} => Left(read.text, read.state) = None /\ CutShort(read.text) = None
    BY <2>1, LeftType
  <2> QED
    BY <2>2 DEF FinishFails, StillInv
<1>4. CacheInv' /\ BaseInv'
  BY <1>2 DEF CacheInv, BaseInv, Of, cache
<1>5. StillInv'
  BY <1>2, <1>3 DEF StillInv
<1> QED
  BY <1>1, <1>2, <1>4, <1>5, AtRest, NoResult

LEMMA InvRecord == Inv /\ Record => Inv'
<1> SUFFICES ASSUME Inv, Record
             PROVE  Inv'
  OBVIOUS
<1> USE DEF Inv
<1>1. TypeOK'
  BY TypeRecord
<1>2. /\ pc = "record" /\ pc' = "manifest" /\ result' = "none" /\ sources' = read
      /\ manifest' = None /\ manifest = None
      /\ UNCHANGED <<src, state, pdf, prefix, positions, checkpoints,
                     how, passes, began, read, moved>>
  BY DEF Record, StillInv, ColdInv, run, memory, history
<1>3. CacheInv' /\ BaseInv'
  BY <1>2 DEF CacheInv, BaseInv
<1>4. StillInv'
  BY <1>2 DEF StillInv
<1>5. ColdInv'
  <2>1. Of(read.text, read.state)' = Of(read.text, read.state)
    BY <1>2 DEF Of
  <2>2. /\ Of(read.text, read.state)
        /\ passes < MaxPasses => state = read.state
        /\ ~moved => /\ read.text = src
                     /\ \A r \in Pieces : pdf[r] = Typeset(src, read.state, r)
    BY <1>2 DEF ColdInv
  <2> QED
    BY <1>2, <2>1, <2>2 DEF ColdInv, Typeset, Upto, Restrict
<1>6. WarmInv' /\ IncrementalInv'
  BY <1>2 DEF WarmInv, IncrementalInv
<1> QED
  BY <1>1, <1>2, <1>3, <1>4, <1>5, <1>6, NoResult

LEMMA InvWriteManifest == Inv /\ WriteManifest => Inv'
<1> SUFFICES ASSUME Inv, WriteManifest
             PROVE  Inv'
  OBVIOUS
<1> USE DEF Inv
<1>1. TypeOK'
  BY TypeWriteManifest
<1>2. /\ pc = "manifest" /\ pc' = "idle" /\ how = "cold"
      /\ manifest' = began /\ hurt' = moved /\ behind' = FALSE
      /\ UNCHANGED <<src, state, pdf, sources, positions, prefix, checkpoints,
                     how, passes, moved, onto>>
  BY DEF WriteManifest, Ends, TypeOK
<1>3. /\ sources = read /\ read # None /\ Of(read.text, read.state)
      /\ passes < MaxPasses => state = read.state
      /\ ~moved => /\ read.text = src /\ began = src
                   /\ \A r \in Pieces : pdf[r] = Typeset(src, read.state, r)
  BY <1>2 DEF ColdInv, StillInv, TypeOK
<1>4. CacheInv'
  <2>1. ~moved => Of(began, sources.state)
    BY <1>3
  <2> QED
    BY <1>2, <1>3, <2>1 DEF CacheInv, Of, Typeset, Upto, Restrict
<1>5. ~moved => \A r \in Pieces : pdf[r].text = Upto(src, r)
  <2>1. ASSUME ~moved, NEW r \in Pieces
        PROVE  pdf[r].text = Upto(src, r)
    <3>1. pdf[r] = Typeset(src, read.state, r)
      BY <1>3, <2>1
    <3> QED
      BY <3>1 DEF Typeset
  <2> QED
    BY <2>1
<1>6. BaseInv'
  BY <1>2, <1>3, <1>5 DEF BaseInv, Upto, Restrict
<1>7. StillInv'
  BY <1>2 DEF StillInv
<1>8. ~moved /\ passes < MaxPasses => AsTypeset
  BY <1>3 DEF AsTypeset
<1>9. SequentialIsRight'
  BY <1>2, <1>5, <1>8 DEF SequentialIsRight, TextIsRight, AsTypeset, Typeset, Upto,
                         Restrict
<1>10. WarmOnItsSecondRun'
  BY <1>2, <1>3 DEF WarmOnItsSecondRun, StateChanged
<1>11. Results'
  BY <1>2, <1>9, <1>10 DEF Results, WarmIsNeverWrong, IncrementalIsRight
<1> QED
  BY <1>1, <1>2, <1>4, <1>6, <1>7, <1>11, AtRest

LEMMA InvEdit == Inv /\ Edit => Inv'
<1> SUFFICES ASSUME Inv, Edit
             PROVE  Inv'
  OBVIOUS
<1> USE DEF Inv
<1>1. TypeOK'
  BY TypeEdit
<1>2. /\ result' # "ok" /\ (pc # "idle" => moved' = TRUE /\ result' = "none")
      /\ UNCHANGED <<state, pdf, cache, pc, run, hurt, behind, onto>>
  BY DEF Edit, StillInv
<1>3. CacheInv' /\ BaseInv'
  BY <1>2 DEF CacheInv, BaseInv, Of, cache
<1>4. StillInv'
  BY <1>2 DEF StillInv, run, memory
<1>5. ColdInv'
  BY <1>2 DEF ColdInv, Of, run, memory, cache
<1>6. WarmInv' /\ IncrementalInv'
  BY <1>2 DEF WarmInv, IncrementalInv
<1> QED
  BY <1>1, <1>2, <1>3, <1>4, <1>5, <1>6, NoResult

LEMMA InvLoseState == Inv /\ LoseState => Inv'
<1> SUFFICES ASSUME Inv, LoseState
             PROVE  Inv'
  OBVIOUS
<1> USE DEF Inv
<1>1. TypeOK'
  BY TypeLoseState
<1>2. CacheInv' /\ BaseInv' /\ StillInv'
  BY DEF LoseState, CacheInv, BaseInv, StillInv, Of, cache
<1>3. result' # "ok" /\ pc' = "idle"
  BY DEF LoseState
<1> QED
  BY <1>1, <1>2, <1>3, AtRest, NoResult

LEMMA InvKill == Inv /\ Kill => Inv'
<1> SUFFICES ASSUME Inv, Kill
             PROVE  Inv'
  OBVIOUS
<1> USE DEF Inv
<1>1. TypeOK'
  BY TypeKill
<1>2. pc' = "idle" /\ result' # "ok"
  BY DEF Kill, KillClearing, KillTypesetting, KillTakingUp, KillElsewhere,
         Killed, Ends
<1>3. CacheInv' /\ BaseInv'
  <2>1. CASE KillClearing
    BY <1>2, <2>1 DEF KillClearing, CacheInv, BaseInv
  <2>2. CASE KillTypesetting
    BY <1>2, <2>2 DEF KillTypesetting, CacheInv, BaseInv, Of, cache
  <2>3. CASE KillTakingUp
    BY <1>2, <2>3 DEF KillTakingUp, CacheInv, BaseInv, Of, cache
  <2>4. CASE KillElsewhere
    BY <1>2, <2>4 DEF KillElsewhere, CacheInv, BaseInv, Of, disk, cache
  <2> QED
    BY <2>1, <2>2, <2>3, <2>4 DEF Kill
<1>4. Labels = {} => state' = None
  <2>1. CASE KillTypesetting
    <3>1. read.text \in Texts /\ read.state \in Ages
      BY <2>1 DEF KillTypesetting, TypeOK, Reads
    <3>2. Labels = {} => CutShort(read.text) = None
      BY <3>1, LeftType
    <3> QED
      BY <2>1, <3>2 DEF KillTypesetting, StillInv
  <2>2. CASE KillTakingUp
    <3>1. Labels = {} => CutShort(src) = None
      BY LeftType DEF TypeOK
    <3> QED
      BY <2>2, <3>1 DEF KillTakingUp, StillInv
  <2>3. CASE KillClearing \/ KillElsewhere
    BY <2>3 DEF KillClearing, KillElsewhere, StillInv, disk
  <2> QED
    BY <2>1, <2>2, <2>3 DEF Kill
<1>5. StillInv'
  BY <1>2, <1>4 DEF StillInv
<1> QED
  BY <1>1, <1>2, <1>3, <1>5, AtRest, NoResult

LEMMA InvStep == Inv /\ [Next]_vars => Inv'
<1> SUFFICES ASSUME Inv, [Next]_vars
             PROVE  Inv'
  OBVIOUS
<1>1. CASE UNCHANGED vars
  <2> USE <1>1 DEF Inv, vars, disk, cache, run, memory, history
  <2>1. TypeOK' /\ CacheInv' /\ BaseInv' /\ StillInv'
    BY TypeStep DEF CacheInv, BaseInv, StillInv, Of
  <2>2. ColdInv' /\ IncrementalInv'
    BY DEF ColdInv, IncrementalInv, Of
  <2>3. WarmInv'
    BY DEF WarmInv, ChunkRegions
  <2>4. Results'
    BY DEF Results, SequentialIsRight, WarmOnItsSecondRun, WarmIsNeverWrong,
           IncrementalIsRight, TextIsRight, AsTypeset, StateChanged
  <2> QED
    BY <2>1, <2>2, <2>3, <2>4
<1>2. CASE Step
  BY <1>2, InvOpenShared, InvTakeUp, InvTakeUpFails, InvClear, InvBegin,
     InvFinish, InvFinishFails, InvRecord, InvWriteManifest, InvChunk,
     InvChunkFails DEF Step
<1>3. CASE Start \/ Edit \/ LoseState \/ Kill
  BY <1>3, InvStart, InvEdit, InvLoseState, InvKill
<1> QED
  BY <1>1, <1>2, <1>3 DEF Next

LEMMA InvAlways == Spec => []Inv
<1> QED
  BY InvInit, InvStep, PTL DEF Spec

-----------------------------------------------------------------------------
(* The theorems. *)

\* A run from the top whose sources stood still leaves their PDF, and unless it
\* gave up the state the PDF was set with is the state the next run finds.
THEOREM DriverSequentialIsRight == Spec => []SequentialIsRight
<1>1. Inv => SequentialIsRight
  BY DEF Inv, Results
<1> QED
  BY <1>1, InvAlways, PTL

\* Nothing that a document which settled left behind makes the next run take it
\* for edited.
THEOREM DriverWarmOnItsSecondRun == Spec => []WarmOnItsSecondRun
<1>1. Inv => WarmOnItsSecondRun
  BY DEF Inv, Results
<1> QED
  BY <1>1, InvAlways, PTL

\* The chunks of a warm run, in whatever order they end, leave what one pass
\* over the sources leaves: no region is left out and none is out of date.
THEOREM DriverWarmIsNeverWrong == Spec => []WarmIsNeverWrong
<1>1. Inv => WarmIsNeverWrong
  BY DEF Inv, Results
<1> QED
  BY <1>1, InvAlways, PTL

\* The checkpoint that an incremental run takes up has read nothing that was
\* edited, whatever was edited and wherever the files open.
THEOREM DriverIncrementalIsRight == Spec => []IncrementalIsRight
<1>1. Inv => IncrementalIsRight
  BY DEF Inv, Results
<1> QED
  BY <1>1, InvAlways, PTL

=============================================================================
