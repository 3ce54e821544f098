---------------------------- MODULE GroupsProofs ----------------------------
(***************************************************************************)
(* Proofs about the groups: type correctness, no local outlives its group; *)
(* about the records definitions live in: each is counted once for every   *)
(* meaning, save and frame that names it, and is free when, and only when, *)
(* nobody does; and that the save stack is a stack of scopes: what is      *)
(* assigned, saved and restored binds and unbinds as Scopes says, the text *)
(* of a definition stands as long as anything names it, and what is read   *)
(* is what the scopes bring.                                               *)
(***************************************************************************)
EXTENDS Groups, ListLemmas, SequenceTheorems, FiniteSetTheorems, TLAPS

(***************************************************************************)
(* The inductive invariant.  The save stack is sorted by level, so that    *)
(* the saves of the group being left are all on top; and a level that      *)
(* stands, or that a save would bring back, is that of a save further down *)
(* which the end of that group will undo.                                  *)
(***************************************************************************)
Sorted == \A i, j \in 1 .. Len(saves) :
             i <= j => saves[i].level <= saves[j].level

Backed(x, l, n) ==
    l = 0 \/ \E i \in 1 .. n : saves[i].what = x /\ saves[i].level = l

StandingBacked == \A x \in Locs : Backed(x, lev[x], Len(saves))

SavedBacked == \A i \in 1 .. Len(saves) :
    saves[i].what # AfterGroup =>
        Backed(saves[i].what, saves[i].prevLevel, i - 1)

GroupInv == /\ TypeOK
            /\ unwinding => level # 0
            /\ Sorted /\ StandingBacked /\ SavedBacked

-----------------------------------------------------------------------------
(* What is done to the records keeps them records. *)

\* A reference taken: the records stay well formed.
LEMMA RetainType ==
    ASSUME NEW m \in Macros, NEW d \in 0 .. MaxDefs
    PROVE  Retain(m, d) \in Macros
<1>1. CASE d = 0
  BY <1>1 DEF Retain
<1>2. CASE d # 0
  <2>1. d \in Defs /\ m.refs \in [Defs -> Nat]
    BY <1>2, BoundsAssumption DEF Defs, Macros
  <2>2. [m.refs EXCEPT ![d] = @ + 1] \in [Defs -> Nat]
    BY <2>1
  <2>3. Retain(m, d) = [m EXCEPT !.refs = [m.refs EXCEPT ![d] = @ + 1]]
    BY <1>2 DEF Retain, Macros
  <2> QED BY <2>2, <2>3 DEF Macros
<1> QED BY <1>1, <1>2

\* A reference let go: the records stay well formed.
LEMMA ReleaseType ==
    ASSUME NEW m \in Macros, NEW d \in 0 .. MaxDefs
    PROVE  Release(m, d) \in Macros
<1>1. CASE d = 0 \/ m.refs[d] = 0
  BY <1>1 DEF Release
<1>2. CASE ~(d = 0 \/ m.refs[d] = 0)
  <2>1. d \in Defs /\ m.refs \in [Defs -> Nat] /\ m.free \in Seq(Defs)
        /\ m.body \in [Defs -> Bodies \cup {"cleared"}]
    BY <1>2, BoundsAssumption DEF Defs, Macros
  <2>2. /\ [m.refs EXCEPT ![d] = 0] \in [Defs -> Nat]
        /\ m.refs[d] > 1 => [m.refs EXCEPT ![d] = @ - 1] \in [Defs -> Nat]
        /\ <<d>> \o m.free \in Seq(Defs)
        /\ [m.body EXCEPT ![d] = "cleared"] \in [Defs -> Bodies \cup {"cleared"}]
    BY <2>1
  <2>3. CASE m.refs[d] > 1
    <3>1. Release(m, d) = [m EXCEPT !.refs = [m.refs EXCEPT ![d] = @ - 1]]
      BY <1>2, <2>3 DEF Release, Macros
    <3> QED BY <3>1, <2>2, <2>3 DEF Macros
  <2>4. CASE ~(m.refs[d] > 1)
    <3>1. Release(m, d) = [m EXCEPT !.refs = [m.refs EXCEPT ![d] = 0],
                                    !.body = [m.body EXCEPT ![d] = "cleared"],
                                    !.free = <<d>> \o m.free]
      BY <1>2, <2>4 DEF Release, Macros
    <3> QED BY <3>1, <2>2 DEF Macros
  <2> QED BY <2>3, <2>4
<1> QED BY <1>1, <1>2

\* A record handed out again: a text, a count of none.
LEMMA ReusedType ==
    ASSUME NEW m \in Macros, NEW b \in Bodies, NEW d, d = Head(m.free),
           m.free # <<>>
    PROVE  Reused(m, d, b) \in Macros /\ d \in 0 .. MaxDefs
<1>1. d \in Defs /\ Tail(m.free) \in Seq(Defs)
  BY DEF Macros
<1>2. /\ [m.refs EXCEPT ![d] = 0] \in [Defs -> Nat]
      /\ [m.body EXCEPT ![d] = b] \in [Defs -> Bodies \cup {"cleared"}]
  BY <1>1 DEF Macros
<1>3. Reused(m, d, b) = [m EXCEPT !.free = Tail(m.free),
                                  !.body = [m.body EXCEPT ![d] = b],
                                  !.refs = [m.refs EXCEPT ![d] = 0]]
  BY <1>1 DEF Reused, Macros
<1>4. Reused(m, d, b) \in Macros
  BY <1>1, <1>2, <1>3 DEF Macros
<1> QED BY <1>1, <1>4, BoundsAssumption DEF Defs

\* Another record made, within the bound.
LEMMA MadeType ==
    ASSUME NEW m \in Macros, NEW b \in Bodies, m.made < MaxDefs
    PROVE  Made(m, b) \in Macros /\ m.made + 1 \in 0 .. MaxDefs
<1>1. m.made + 1 \in Defs /\ m.made + 1 \in 0 .. MaxDefs
  BY BoundsAssumption DEF Macros, Defs
<1> QED BY <1>1 DEF Made, Macros

-----------------------------------------------------------------------------
(* What is done to the save stack keeps it sorted and backed. *)

\* One save of the current group put on top.
LEMMA PushKeeps ==
    ASSUME GroupInv, level # 0,
           NEW s \in Saves, s.level = level, IsSave(s),
           s.what # AfterGroup => /\ s.what \in Locs
                                  /\ s.prevLevel = lev[s.what],
           saves' = Append(saves, s), level' = level
    PROVE  /\ saves' \in Seq(Saves)
           /\ \A i \in 1 .. Len(saves') : IsSave(saves'[i])
           /\ Sorted' /\ SavedBacked'
           /\ \A x : \A l : Backed(x, l, Len(saves)) => Backed(x, l, Len(saves))'
<1> USE DEF GroupInv, TypeOK
<1>1. /\ saves' \in Seq(Saves) /\ Len(saves') = Len(saves) + 1
      /\ saves'[Len(saves) + 1] = s
      /\ \A i \in 1 .. Len(saves) : saves'[i] = saves[i]
  OBVIOUS
<1>2. \A i \in 1 .. Len(saves') : IsSave(saves'[i])
  BY <1>1
<1>3. Sorted'
  <2> SUFFICES ASSUME NEW i \in 1 .. Len(saves'), NEW j \in 1 .. Len(saves'),
                      i <= j
               PROVE  saves'[i].level <= saves'[j].level
    BY DEF Sorted
  <2>1. CASE j = Len(saves) + 1
    BY <2>1, <1>1, <1>2 DEF IsSave, Saves
  <2>2. CASE j # Len(saves) + 1
    BY <2>2, <1>1 DEF Sorted
  <2> QED BY <2>1, <2>2
<1>4. \A x : \A l : \A n \in 0 .. Len(saves) : Backed(x, l, n) => Backed(x, l, n)'
  BY <1>1 DEF Backed
<1>5. SavedBacked'
  <2> SUFFICES ASSUME NEW i \in 1 .. Len(saves'), saves'[i].what # AfterGroup
               PROVE  Backed(saves[i].what, saves[i].prevLevel, i - 1)'
    BY DEF SavedBacked
  <2>1. CASE i = Len(saves) + 1
    <3>1. Backed(s.what, s.prevLevel, Len(saves))
      BY <2>1, <1>1 DEF StandingBacked
    <3> QED BY <3>1, <2>1, <1>1 DEF Backed
  <2>2. CASE i # Len(saves) + 1
    <3>1. Backed(saves[i].what, saves[i].prevLevel, i - 1)
      BY <2>2, <1>1 DEF SavedBacked
    <3> QED BY <3>1, <2>2, <1>1 DEF Backed
  <2> QED BY <2>1, <2>2
<1>6. \A x : \A l : Backed(x, l, Len(saves)) => Backed(x, l, Len(saves))'
  BY <1>1 DEF Backed
<1> QED BY <1>1, <1>2, <1>3, <1>5, <1>6

\* The save on top taken off.
LEMMA PopKeeps ==
    ASSUME GroupInv, saves # <<>>, saves' = Front(saves), level' = level
    PROVE  /\ saves' \in Seq(Saves) /\ Len(saves') = Len(saves) - 1
           /\ \A i \in 1 .. Len(saves') : saves'[i] = saves[i]
           /\ \A i \in 1 .. Len(saves') : IsSave(saves'[i])
           /\ Sorted' /\ SavedBacked'
<1>1. /\ saves \in Seq(Saves) /\ Len(saves) \in Nat /\ Len(saves) > 0
      /\ \A i \in 1 .. Len(saves) : saves[i] \in Saves /\ IsSave(saves[i])
      /\ Sorted /\ SavedBacked
  BY DEF GroupInv, TypeOK
<1> DEFINE n == Len(saves) - 1
<1>2. n \in Nat /\ n < Len(saves) /\ \A i \in 1 .. n : i \in 1 .. Len(saves)
  BY <1>1
<1>3. SubSeq(saves, 1, n) \in Seq(Saves) /\ Len(SubSeq(saves, 1, n)) = n
      /\ \A i \in 1 .. n : SubSeq(saves, 1, n)[i] = saves[1 + i - 1]
  <2>1. 1 \in Int /\ n \in Int /\ \A i \in 1 .. n : saves[i] \in Saves
    BY <1>1, <1>2
  <2> HIDE DEF n
  <2>2. /\ SubSeq(saves, 1, n) \in Seq(Saves)
        /\ Len(SubSeq(saves, 1, n)) = IF 1 <= n THEN n - 1 + 1 ELSE 0
        /\ \A i \in 1 .. n - 1 + 1 : SubSeq(saves, 1, n)[i] = saves[1 + i - 1]
    BY <2>1, SubSeqProperties
  <2>3. n - 1 + 1 = n
    BY <1>2
  <2> QED BY <2>2, <2>3, <1>2
<1>4. saves' = SubSeq(saves, 1, n)
  BY DEF Front
<1>5. saves' \in Seq(Saves) /\ Len(saves') = n
      /\ \A i \in 1 .. n : saves'[i] = saves[i]
  BY <1>3, <1>4
<1> HIDE DEF n
<1>6. \A i \in 1 .. n : IsSave(saves'[i])
  BY <1>1, <1>2, <1>5
<1>7. Sorted'
  BY <1>1, <1>2, <1>5 DEF Sorted
<1>8. SavedBacked'
  <2> SUFFICES ASSUME NEW i \in 1 .. n, saves'[i].what # AfterGroup
               PROVE  Backed(saves[i].what, saves[i].prevLevel, i - 1)'
    BY <1>5 DEF SavedBacked
  <2>1. Backed(saves[i].what, saves[i].prevLevel, i - 1)
    BY <1>1, <1>2, <1>5 DEF SavedBacked
  <2>2. \A j \in 1 .. i - 1 : j \in 1 .. n
    BY <1>2
  <2> QED BY <2>1, <2>2, <1>5 DEF Backed
<1> QED BY <1>5, <1>6, <1>7, <1>8 DEF n, IsSave

-----------------------------------------------------------------------------
(* Every step keeps the invariant. *)

\* The initial state.
LEMMA InitGroups == Init => GroupInv
<1> SUFFICES ASSUME Init PROVE GroupInv
  OBVIOUS
<1> USE DEF Init
<1>1. saves \in Seq(Saves) /\ Len(saves) = 0
  OBVIOUS
<1>2. value \in [Locs -> Values \cup Settings \cup 0 .. MaxDefs]
      /\ \A x \in Locs : value[x] \in Held(x)
  BY KindsAssumption, BoundsAssumption DEF Held, Locs
<1>3. macros \in Macros
  BY BoundsAssumption DEF Macros
<1>4. /\ level \in 0 .. MaxLevel /\ lev \in [Locs -> Nat]
      /\ input \in Seq(Frames) /\ unwinding \in BOOLEAN
  <2>1. level \in 0 .. MaxLevel /\ lev \in [Locs -> Nat]
    BY BoundsAssumption
  <2>2. input \in Seq(Frames)
    OBVIOUS
  <2>3. unwinding \in BOOLEAN
    BY Zenon
  <2> QED BY <2>1, <2>2, <2>3
<1>5. Sorted /\ StandingBacked /\ SavedBacked
  BY <1>1 DEF Sorted, StandingBacked, SavedBacked, Backed
<1> HIDE DEF Init
<1>6. TypeOK
  BY <1>1, <1>2, <1>3, <1>4 DEF TypeOK
<1>7. unwinding => level # 0
  BY DEF Init
<1> QED BY <1>5, <1>6, <1>7 DEF GroupInv

\* An assignment that saves when it must, whatever it does to the records.
LEMMA AssignKeeps ==
    ASSUME GroupInv, NEW x \in Locs, NEW v \in Held(x), NEW prefix,
           Place(x, v, prefix),
           \/ saves' = saves /\ (IsLocal(prefix) => lev[x] = level)
           \/ saves' = Saved(x) /\ IsLocal(prefix),
           level' = level, unwinding' = unwinding, input' = input,
           macros' \in Macros
    PROVE  GroupInv'
<1>1. /\ TypeOK /\ StandingBacked /\ level \in Nat /\ Len(saves) \in Nat
      /\ lev \in [Locs -> Nat]
  BY BoundsAssumption DEF GroupInv, TypeOK
<1>2. /\ value' \in [Locs -> Values \cup Settings \cup 0 .. MaxDefs]
      /\ \A y \in Locs : value'[y] \in Held(y)
  <2>1. v \in Values \cup Settings \cup 0 .. MaxDefs
    BY BoundsAssumption DEF Held
  <2> QED BY <1>1, <2>1 DEF TypeOK, Place
<1>3. lev' \in [Locs -> Nat]
  BY <1>1 DEF Place
<1>4. /\ saves' \in Seq(Saves)
      /\ \A i \in 1 .. Len(saves') : IsSave(saves'[i])
      /\ Sorted' /\ SavedBacked'
      /\ \A y : \A l : Backed(y, l, Len(saves)) => Backed(y, l, Len(saves))'
  <2>1. CASE saves' = saves
    BY <2>1 DEF GroupInv, TypeOK, Sorted, SavedBacked, Backed, IsSave
  <2>2. CASE saves' = Saved(x) /\ IsLocal(prefix)
    <3> DEFINE s == [what |-> x, level |-> level,
                     prevLevel |-> lev[x], prev |-> value[x]]
    <3>1. level # 0 /\ level \in 1 .. level
      BY <1>1, <2>2 DEF IsLocal
    <3>2. /\ s \in Saves /\ s.level = level /\ s.what = x
          /\ s.prevLevel = lev[x] /\ x # AfterGroup
      BY <1>1, KindsAssumption DEF Saves, TypeOK
    <3>3. IsSave(s)
      BY <1>1, <3>1, KindsAssumption DEF IsSave, TypeOK
    <3>4. saves' = Append(saves, s)
      BY <2>2 DEF Saved
    <3> HIDE DEF s
    <3> QED BY <3>1, <3>2, <3>3, <3>4, PushKeeps
  <2> QED BY <2>1, <2>2
<1>5. (\A i \in 1 .. Len(saves) : IsSave(saves[i]))'
  BY <1>4 DEF IsSave
<1>6. StandingBacked'
  <2> SUFFICES ASSUME NEW y \in Locs PROVE Backed(y, lev[y], Len(saves))'
    BY DEF StandingBacked
  <2>1. CASE y # x \/ lev'[y] = lev[y]
    <3>1. lev'[y] = lev[y]
      BY <2>1, <1>1 DEF Place
    <3>2. Backed(y, lev[y], Len(saves))
      BY <1>1 DEF StandingBacked
    <3> QED BY <3>1, <3>2, <1>4 DEF Backed
  <2>2. CASE y = x /\ ~IsLocal(prefix)
    <3>1. lev'[y] = 0
      BY <2>2, <1>1 DEF Place
    <3> QED BY <3>1 DEF Backed
  <2>3. CASE y = x /\ IsLocal(prefix) /\ lev[x] # level
    <3>1. lev'[y] = level
      BY <2>3, <1>1 DEF Place
    <3>2. saves' = Saved(x)
      BY <2>3
    <3>3. /\ Len(saves') = Len(saves) + 1
          /\ saves'[Len(saves')].what = x /\ saves'[Len(saves')].level = level
      BY <1>1, <3>2 DEF Saved, TypeOK
    <3> QED BY <2>3, <3>1, <3>3, <1>1 DEF Backed
  <2>4. CASE y = x /\ IsLocal(prefix) /\ lev[x] = level
    BY <2>4, <2>1, <1>1 DEF Place
  <2> QED BY <2>1, <2>2, <2>3, <2>4
<1>7. TypeOK'
  <2>1. /\ level' \in 0 .. MaxLevel /\ unwinding' \in BOOLEAN
        /\ input' \in Seq(Frames)
    BY <1>1 DEF TypeOK
  <2>2. (\A y \in Locs : value[y] \in Held(y))'
    BY <1>2 DEF Held
  <2> QED BY <2>1, <2>2, <1>2, <1>3, <1>4, <1>5 DEF TypeOK
<1> QED BY <1>4, <1>6, <1>7 DEF GroupInv

\* The definitions and \let: set_meaning is such an assignment.
LEMMA MeaningKeeps ==
    ASSUME GroupInv, NEW m \in Macros, NEW x \in Names,
           NEW d \in 0 .. MaxDefs, NEW prefix, SetMeaning(m, x, d, prefix),
           level' = level, unwinding' = unwinding, input' = input
    PROVE  GroupInv'
<1>1. x \in Locs /\ Held(x) = 0 .. MaxDefs /\ value[x] \in 0 .. MaxDefs
  BY DEF Locs, Held, GroupInv, TypeOK
<1>2. macros' \in Macros
  <2>1. Retain(m, d) \in Macros
    BY RetainType
  <2>2. Release(Retain(m, d), value[x]) \in Macros
    BY <2>1, <1>1, ReleaseType
  <2> QED BY <2>1, <2>2 DEF SetMeaning
<1>3. \/ saves' = saves /\ (IsLocal(prefix) => lev[x] = level)
      \/ saves' = Saved(x) /\ IsLocal(prefix)
  BY DEF SetMeaning, SaveValue
<1>4. Place(x, d, prefix)
  BY DEF SetMeaning
<1> QED BY <1>1, <1>2, <1>3, <1>4, AssignKeeps

\* Assignments of every kind.
LEMMA AssignsKeep ==
    ASSUME GroupInv, NEW prefix \in BOOLEAN, Assign(prefix)
    PROVE  GroupInv'
<1>0. macros \in Macros
  BY DEF GroupInv, TypeOK
<1>1. ASSUME NEW x \in Locs, x \notin Names, NEW v \in Held(x),
             AssignRegister(x, v, prefix)
      PROVE  GroupInv'
  <2>1. \/ saves' = saves /\ (IsLocal(prefix) => lev[x] = level)
        \/ saves' = Saved(x) /\ IsLocal(prefix)
    BY <1>1 DEF AssignRegister, SaveValue
  <2> QED BY <1>0, <1>1, <2>1, AssignKeeps DEF AssignRegister
<1>2. ASSUME NEW x \in Params, NEW v \in Values,
             AssignParameter(x, v, prefix)
      PROVE  GroupInv'
  <2>1. x \in Locs /\ v \in Held(x)
    BY KindsAssumption DEF Locs, Held
  <2>2. level \in Nat /\ (level = 0 => ~IsLocal(prefix))
    BY BoundsAssumption DEF GroupInv, TypeOK, IsLocal
  <2>3. \/ saves' = saves /\ ~IsLocal(prefix)
        \/ saves' = Saved(x) /\ IsLocal(prefix)
    BY <1>2 DEF AssignParameter
  <2> QED BY <1>0, <1>2, <2>1, <2>3, AssignKeeps DEF AssignParameter
<1>3. ASSUME NEW x \in Names, NEW b \in Bodies, Define(x, b, prefix)
      PROVE  GroupInv'
  <2>1. CASE macros.free # <<>>
    <3> DEFINE d == Head(macros.free)
    <3>1. SetMeaning(Reused(macros, d, b), x, d, prefix)
      BY <1>3, <2>1 DEF Define
    <3>2. Reused(macros, d, b) \in Macros /\ d \in 0 .. MaxDefs
      BY <1>0, <2>1, ReusedType
    <3> HIDE DEF d
    <3> QED BY <1>3, <3>1, <3>2, MeaningKeeps DEF Define
  <2>2. CASE macros.free = <<>>
    <3>1. /\ SetMeaning(Made(macros, b), x, macros.made + 1, prefix)
          /\ macros.made < MaxDefs
      BY <1>3, <2>2 DEF Define
    <3>2. Made(macros, b) \in Macros /\ macros.made + 1 \in 0 .. MaxDefs
      BY <1>0, <3>1, MadeType
    <3> QED BY <1>3, <3>1, <3>2, MeaningKeeps DEF Define
  <2> QED BY <2>1, <2>2
<1>4. ASSUME NEW x \in Names, NEW b \in Bodies, DefineRead(x, b, prefix)
      PROVE  GroupInv'
  <2>1. Made(macros, b) \in Macros /\ macros.made + 1 \in 0 .. MaxDefs
    BY <1>0, <1>4, MadeType DEF DefineRead
  <2> QED BY <1>4, <2>1, MeaningKeeps DEF DefineRead
<1>5. ASSUME NEW x \in Names, NEW y \in Names, Let(x, y, prefix)
      PROVE  GroupInv'
  <2>1. value[y] \in 0 .. MaxDefs
    BY DEF Locs, Held, GroupInv, TypeOK
  <2> QED BY <1>0, <1>5, <2>1, MeaningKeeps DEF Let
<1>6. /\ \A x \in Regs \cup Boxes : x \in Locs \ Names /\ Values \subseteq Held(x)
      /\ GlobalDefs \in Locs \ Names /\ Settings \subseteq Held(GlobalDefs)
  BY KindsAssumption DEF Locs, Held
<1> QED BY <1>1, <1>2, <1>3, <1>4, <1>5, <1>6
        DEF Assign, AssignBox, AssignGlobalDefs

\* Steps that touch neither the levels nor the save stack.
LEMMA QuietKeeps ==
    ASSUME GroupInv, UNCHANGED <<level, lev, saves, unwinding>>,
           value' \in [Locs -> Values \cup Settings \cup 0 .. MaxDefs],
           \A x \in Locs : value'[x] \in Held(x),
           macros' \in Macros, input' \in Seq(Frames)
    PROVE  GroupInv'
<1>1. (\A i \in 1 .. Len(saves) : IsSave(saves[i]))'
  BY DEF GroupInv, TypeOK, IsSave, Held
<1>2. (\A x \in Locs : value[x] \in Held(x))'
  BY DEF Held
<1>3. TypeOK'
  BY <1>1, <1>2 DEF GroupInv, TypeOK
<1>4. Sorted' /\ StandingBacked' /\ SavedBacked'
  BY DEF GroupInv, Sorted, StandingBacked, SavedBacked, Backed
<1> QED BY <1>3, <1>4 DEF GroupInv

\* One turn of end_group's loop: the save on top comes off, and what stands
\* is this group's no longer, or was not.
LEMMA UnwindKeeps ==
    ASSUME GroupInv, Unwinds, saves' = Front(saves),
           UNCHANGED <<level, unwinding>>,
           value' \in [Locs -> Values \cup Settings \cup 0 .. MaxDefs],
           \A x \in Locs : value'[x] \in Held(x),
           macros' \in Macros, input' \in Seq(Frames),
           lev' \in [Locs -> Nat],
           \A x \in Locs :
              \/ lev'[x] = lev[x]
                 /\ ~(Last(saves).what = x /\ lev[x] = level)
              \/ /\ Last(saves).what = x
                 /\ x # AfterGroup
                 /\ lev'[x] = Last(saves).prevLevel
    PROVE  GroupInv'
<1>1. /\ saves' \in Seq(Saves) /\ Len(saves') = Len(saves) - 1
      /\ \A i \in 1 .. Len(saves') : saves'[i] = saves[i]
      /\ \A i \in 1 .. Len(saves') : IsSave(saves'[i])
      /\ Sorted' /\ SavedBacked'
  BY PopKeeps DEF Unwinds
<1>2. /\ Len(saves) \in Nat /\ Len(saves) > 0 /\ Last(saves) = saves[Len(saves)]
      /\ Last(saves).level = level
      /\ StandingBacked /\ SavedBacked
  BY DEF GroupInv, TypeOK, Unwinds, Last
<1>3. ASSUME NEW x \in Locs PROVE Backed(x, lev[x], Len(saves))'
  <2>1. CASE /\ lev'[x] = lev[x]
             /\ ~(Last(saves).what = x /\ lev[x] = level)
    <3>1. CASE lev[x] = 0
      BY <2>1, <3>1 DEF Backed
    <3>2. CASE lev[x] # 0
      <4>1. PICK i \in 1 .. Len(saves) :
               saves[i].what = x /\ saves[i].level = lev[x]
        BY <1>2, <3>2 DEF StandingBacked, Backed
      <4>2. i # Len(saves)
        BY <2>1, <4>1, <1>2
      <4>3. i \in 1 .. Len(saves')
        BY <4>2, <1>1, <1>2
      <4> QED BY <2>1, <4>1, <4>3, <1>1 DEF Backed
    <3> QED BY <3>1, <3>2
  <2>2. CASE /\ Last(saves).what = x /\ x # AfterGroup
             /\ lev'[x] = Last(saves).prevLevel
    <3>1. Len(saves) \in 1 .. Len(saves)
      BY <1>2
    <3>2. Backed(x, lev'[x], Len(saves) - 1)
      BY <2>2, <3>1, <1>2 DEF SavedBacked
    <3> QED BY <3>2, <1>1, <1>2 DEF Backed
  <2> QED BY <2>1, <2>2
<1>4. StandingBacked'
  BY <1>3 DEF StandingBacked
<1>5. (\A i \in 1 .. Len(saves) : IsSave(saves[i]))'
  BY <1>1 DEF IsSave
<1>6. (\A x \in Locs : value[x] \in Held(x))'
  BY DEF Held
<1>7. TypeOK'
  BY <1>1, <1>5, <1>6 DEF GroupInv, TypeOK
<1> QED BY <1>1, <1>4, <1>7 DEF GroupInv

\* When nothing of the group is left on the stack, nothing that stands is
\* of the group either.
LEMMA LeaveKeeps == ASSUME GroupInv, Leave PROVE GroupInv'
<1>1. /\ level \in Nat /\ level # 0 /\ level \in 0 .. MaxLevel
      /\ Len(saves) \in Nat /\ lev \in [Locs -> Nat]
      /\ \A i \in 1 .. Len(saves) : saves[i] \in Saves /\ IsSave(saves[i])
      /\ Sorted
      /\ UNCHANGED <<value, lev, saves, macros, input>> /\ level' = level - 1
      /\ unwinding' = FALSE
  BY BoundsAssumption DEF GroupInv, TypeOK, Leave
<1>2. ASSUME NEW i \in 1 .. Len(saves) PROVE saves[i].level \in 1 .. level - 1
  <2>1. Len(saves) \in 1 .. Len(saves) /\ saves # <<>>
    BY <1>1
  <2>2. saves[Len(saves)].level # level
    BY <1>1, <2>1 DEF Leave, Unwinds, Last, GroupInv
  <2>3. saves[i].level <= saves[Len(saves)].level
    BY <1>1, <2>1 DEF Sorted
  <2>4. saves[Len(saves)].level \in 1 .. level /\ saves[i].level \in 1 .. level
    BY <1>1, <2>1 DEF IsSave
  <2> QED BY <1>1, <2>2, <2>3, <2>4
<1>3. (\A i \in 1 .. Len(saves) : IsSave(saves[i]))'
  BY <1>1, <1>2 DEF IsSave
<1>4. (\A x \in Locs : value[x] \in Held(x))'
  BY <1>1 DEF Held, GroupInv, TypeOK
<1>5. level' \in 0 .. MaxLevel /\ unwinding' \in BOOLEAN
  <2>1. level' \in 0 .. MaxLevel
    BY <1>1, BoundsAssumption
  <2>2. unwinding' \in BOOLEAN
    BY <1>1, Zenon
  <2> QED BY <2>1, <2>2
<1>6. TypeOK'
  BY <1>1, <1>3, <1>4, <1>5 DEF GroupInv, TypeOK
<1>7. Sorted' /\ StandingBacked' /\ SavedBacked'
  BY <1>1 DEF GroupInv, Sorted, StandingBacked, SavedBacked, Backed
<1> QED BY <1>1, <1>6, <1>7 DEF GroupInv

-----------------------------------------------------------------------------
\* Every step, one action at a time.
LEMMA NextGroups == GroupInv /\ [Next]_vars => GroupInv'
<1> SUFFICES ASSUME GroupInv, [Next]_vars PROVE GroupInv'
  OBVIOUS
<1>0. /\ value \in [Locs -> Values \cup Settings \cup 0 .. MaxDefs]
      /\ \A x \in Locs : value[x] \in Held(x)
      /\ macros \in Macros /\ input \in Seq(Frames) /\ lev \in [Locs -> Nat]
      /\ Names \subseteq Locs /\ \A x \in Names : Held(x) = 0 .. MaxDefs
      /\ level \in Nat /\ level \in 0 .. MaxLevel
  BY BoundsAssumption DEF GroupInv, TypeOK, Locs, Held
<1>1. ASSUME NEW prefix \in BOOLEAN, Assign(prefix) PROVE GroupInv'
  BY <1>1, AssignsKeep
<1>2. ASSUME NEW x \in Boxes, EmptyBox(x) PROVE GroupInv'
  <2>1. x \in Locs /\ Void \in Held(x)
    BY KindsAssumption DEF Locs, Held
  <2>2. /\ value' \in [Locs -> Values \cup Settings \cup 0 .. MaxDefs]
        /\ \A y \in Locs : value'[y] \in Held(y)
    BY <1>0, <1>2, <2>1, KindsAssumption DEF EmptyBox
  <2> QED BY <1>0, <1>2, <2>2, QuietKeeps DEF EmptyBox
<1>3. ASSUME NEW x \in Names, Call(x) PROVE GroupInv'
  <2>1. value[x] \in Defs
    BY <1>0, <1>3, BoundsAssumption DEF Call, Defs
  <2>2. macros' \in Macros
    BY <1>0, <1>3, RetainType DEF Call
  <2>3. input' \in Seq(Frames)
    BY <1>0, <1>3, <2>1 DEF Call, Frames
  <2> QED BY <1>0, <1>3, <2>2, <2>3, QuietKeeps DEF Call
<1>4. CASE PopFrame
  <2>1. /\ Last(input) \in Frames /\ Front(input) \in Seq(Frames)
    <3>1. Len(input) \in Nat /\ Len(input) > 0
      BY <1>0, <1>4 DEF PopFrame
    <3>2. \A i \in 1 .. Len(input) - 1 : input[i] \in Frames
      BY <1>0, <3>1
    <3>3. SubSeq(input, 1, Len(input) - 1) \in Seq(Frames)
      BY <3>1, <3>2, SubSeqProperties
    <3> QED BY <1>0, <3>1, <3>3 DEF Last, Front
  <2>2. Last(input).kind = "definition" => Last(input).of \in 0 .. MaxDefs
    BY <2>1, BoundsAssumption DEF Frames, Defs
  <2>3. macros' \in Macros
    BY <1>0, <1>4, <2>2, ReleaseType DEF PopFrame
  <2> QED BY <1>0, <1>4, <2>1, <2>3, QuietKeeps DEF PopFrame
<1>5. CASE BeginGroup
  <2>1. level' \in 0 .. MaxLevel /\ level' = level + 1
    BY <1>0, <1>5, BoundsAssumption DEF BeginGroup
  <2>2. (\A i \in 1 .. Len(saves) : IsSave(saves[i]))'
    BY <1>0, <1>5, <2>1 DEF GroupInv, TypeOK, BeginGroup, IsSave, Held
  <2>3. (\A x \in Locs : value[x] \in Held(x))'
    BY <1>0, <1>5 DEF BeginGroup, Held
  <2>4. TypeOK'
    BY <1>5, <2>1, <2>2, <2>3 DEF GroupInv, TypeOK, BeginGroup
  <2>5. Sorted' /\ StandingBacked' /\ SavedBacked' /\ ~unwinding'
    BY <1>5 DEF BeginGroup, GroupInv, Sorted, StandingBacked, SavedBacked, Backed
  <2> QED BY <2>4, <2>5 DEF GroupInv
<1>6. CASE EndGroup
  <2>2. (\A i \in 1 .. Len(saves) : IsSave(saves[i]))'
    BY <1>6 DEF GroupInv, TypeOK, EndGroup, IsSave, Held
  <2>3. (\A x \in Locs : value[x] \in Held(x))'
    BY <1>0, <1>6 DEF EndGroup, Held
  <2>4. TypeOK'
    BY <1>6, <2>2, <2>3 DEF GroupInv, TypeOK, EndGroup
  <2>5. Sorted' /\ StandingBacked' /\ SavedBacked' /\ level' # 0
    BY <1>6 DEF EndGroup, GroupInv, Sorted, StandingBacked, SavedBacked, Backed
  <2> QED BY <2>4, <2>5 DEF GroupInv
<1>7. CASE Leave
  BY <1>7, LeaveKeeps
<1>8. ASSUME NEW t \in Tokens, ScanAfterGroup(t) PROVE GroupInv'
  <2> DEFINE s == [what |-> AfterGroup, level |-> level,
                   prevLevel |-> 0, prev |-> t]
  <2>1. /\ s \in Saves /\ s.level = level /\ s.what = AfterGroup /\ s.prev = t
        /\ level # 0 /\ saves' = Append(saves, s) /\ level' = level
    BY <1>0, <1>8 DEF Saves, ScanAfterGroup
  <2>2. IsSave(s)
    BY <1>0, <2>1 DEF IsSave
  <2> HIDE DEF s
  <2>3. /\ saves' \in Seq(Saves)
        /\ \A i \in 1 .. Len(saves') : IsSave(saves'[i])
        /\ Sorted' /\ SavedBacked'
        /\ \A x : \A l : Backed(x, l, Len(saves)) => Backed(x, l, Len(saves))'
    BY <2>1, <2>2, PushKeeps
  <2>4. (\A i \in 1 .. Len(saves) : IsSave(saves[i]))'
    BY <2>1, <2>3 DEF IsSave
  <2>5. (\A x \in Locs : value[x] \in Held(x))'
    BY <1>0, <1>8 DEF ScanAfterGroup, Held
  <2>6. TypeOK'
    BY <1>8, <2>3, <2>4, <2>5 DEF GroupInv, TypeOK, ScanAfterGroup
  <2>7. StandingBacked' /\ (unwinding => level # 0)'
    BY <1>8, <2>3 DEF GroupInv, StandingBacked, Backed, ScanAfterGroup
  <2> QED BY <2>3, <2>6, <2>7 DEF GroupInv
<1>9. ASSUME Unwinds
      PROVE  /\ Last(saves) \in Saves /\ IsSave(Last(saves))
             /\ Last(saves).what # AfterGroup => Last(saves).what \in Locs
  <2>1. Len(saves) \in 1 .. Len(saves) /\ saves \in Seq(Saves)
    BY <1>9 DEF Unwinds, GroupInv, TypeOK
  <2>2. Last(saves) = saves[Len(saves)]
    BY DEF Last
  <2>3. saves[Len(saves)] \in Saves /\ IsSave(saves[Len(saves)])
    BY <2>1 DEF GroupInv, TypeOK
  <2> QED BY <2>2, <2>3 DEF Saves
<1>10. CASE Restore
  <2> DEFINE s == Last(saves)
  <2>1. /\ s \in Saves /\ s.what \in Locs /\ s.what # AfterGroup
        /\ s.prev \in Held(s.what) /\ s.prevLevel \in Nat
        /\ lev[s.what] = level
    BY <1>9, <1>10 DEF Restore, IsSave, Saves
  <2>2. /\ value' = [value EXCEPT ![s.what] = s.prev]
        /\ lev' = [lev EXCEPT ![s.what] = s.prevLevel]
        /\ macros' = IF s.what \in Names THEN Release(macros, value[s.what])
                     ELSE macros
        /\ saves' = Front(saves) /\ UNCHANGED <<level, input, unwinding>>
        /\ Unwinds
    BY <1>10 DEF Restore
  <2> HIDE DEF s
  <2>3. /\ value' \in [Locs -> Values \cup Settings \cup 0 .. MaxDefs]
        /\ \A x \in Locs : value'[x] \in Held(x)
    <3>1. Held(s.what) \subseteq Values \cup Settings \cup 0 .. MaxDefs
      BY BoundsAssumption DEF Held
    <3> QED BY <1>0, <2>1, <2>2, <3>1
  <2>4. macros' \in Macros
    BY <1>0, <2>1, <2>2, ReleaseType
  <2>5. lev' \in [Locs -> Nat]
    BY <1>0, <2>1, <2>2
  <2>6. \A x \in Locs : IF x = s.what THEN lev'[x] = s.prevLevel
                        ELSE lev'[x] = lev[x]
    BY <1>0, <2>2
  <2> QED BY <1>0, <2>1, <2>2, <2>3, <2>4, <2>5, <2>6, UnwindKeeps DEF s
<1>11. CASE LetGo
  <2> DEFINE s == Last(saves)
  <2>1. /\ s \in Saves /\ s.what \in Locs /\ s.what # AfterGroup
        /\ s.prev \in Held(s.what) /\ lev[s.what] # level
    BY <1>9, <1>11 DEF LetGo, IsSave
  <2>2. /\ macros' = IF s.what \in Names THEN Release(macros, s.prev)
                     ELSE macros
        /\ saves' = Front(saves)
        /\ UNCHANGED <<level, value, lev, input, unwinding>>
        /\ Unwinds
    BY <1>11 DEF LetGo
  <2> HIDE DEF s
  <2>3. macros' \in Macros
    BY <1>0, <2>1, <2>2, ReleaseType
  <2> QED BY <1>0, <2>1, <2>2, <2>3, UnwindKeeps DEF s
<1>12. CASE PutBack
  <2>1. Unwinds /\ Last(saves).what = AfterGroup /\ Last(saves).prev \in Tokens
    BY <1>9, <1>12 DEF PutBack, IsSave
  <2>2. input' \in Seq(Frames)
    BY <1>0, <1>12, <2>1 DEF PutBack, Frames
  <2>3. AfterGroup \notin Locs
    BY KindsAssumption
  <2> QED BY <1>0, <1>12, <2>1, <2>2, <2>3, UnwindKeeps DEF PutBack
<1>13. CASE UNCHANGED vars
  BY <1>0, <1>13, QuietKeeps DEF vars
<1> QED BY <1>1, <1>2, <1>3, <1>4, <1>5, <1>6, <1>7, <1>8, <1>10, <1>11,
           <1>12, <1>13 DEF Next

\* The whole invariant holds of every behaviour of the groups.
THEOREM GroupInvariant == Spec => []GroupInv
  BY InitGroups, NextGroups, PTL DEF Spec

\* For any names, registers, texts, tokens and bounds, the groups' state is
\* of its types: every save belongs to an open group.
THEOREM GroupsTypeCorrect == Spec => []TypeOK
<1>1. GroupInv => TypeOK
  BY DEF GroupInv
<1> QED BY <1>1, GroupInvariant, PTL

\* For any of them, an assignment made in a group never outlives it.
THEOREM LocalsEndWithTheirGroup == Spec => []NoLocalOutlives
<1>1. GroupInv => NoLocalOutlives
  <2> SUFFICES ASSUME GroupInv, NEW x \in Locs PROVE lev[x] <= level
    BY DEF NoLocalOutlives
  <2>1. lev[x] \in Nat /\ level \in Nat
    BY BoundsAssumption DEF GroupInv, TypeOK
  <2>2. lev[x] = 0 \/ \E i \in 1 .. Len(saves) : saves[i].level = lev[x]
    BY DEF GroupInv, StandingBacked, Backed
  <2>3. \A i \in 1 .. Len(saves) : saves[i].level \in 1 .. level
    BY DEF GroupInv, TypeOK, IsSave
  <2> QED BY <2>1, <2>2, <2>3
<1> QED BY <1>1, GroupInvariant, PTL

-----------------------------------------------------------------------------
(* The records of definitions. *)

\* Holders(d), of given meanings v, saves s and frames f.
HoldersOf(v, s, f, d) ==
    {<<"meaning", x>> : x \in {y \in Names : v[y] = d}}
    \cup {<<"save", i>> : i \in {j \in 1 .. Len(s) :
             s[j].what \in Names /\ s[j].prev = d}}
    \cup {<<"frame", i>> : i \in {j \in 1 .. Len(f) :
             f[j].kind = "definition" /\ f[j].of = d}}

Count(v, s, f, d) == Cardinality(HoldersOf(v, s, f, d))

\* One for what is so.
One(b) == IF b THEN 1 ELSE 0

\* It is a number, whichever way round the equation is written.
LEMMA OneEither ==
    ASSUME NEW a, NEW b
    PROVE  One(a = b) \in {0, 1} /\ One(a = b) = One(b = a)
<1>1. CASE a = b
  BY <1>1 DEF One
<1>2. CASE a # b
  BY <1>2 DEF One
<1> QED
  BY <1>1, <1>2

-----------------------------------------------------------------------------
(* Counting what holds a record, one change at a time. *)

\* There are finitely many holders.
LEMMA HoldersFinite ==
    ASSUME NEW v, NEW s, NEW f, NEW d, Len(s) \in Nat, Len(f) \in Nat
    PROVE  IsFiniteSet(HoldersOf(v, s, f, d)) /\ Count(v, s, f, d) \in Nat
<1> DEFINE A == {"meaning"} \X Names
           B == {"save"} \X (1 .. Len(s))
           C == {"frame"} \X (1 .. Len(f))
<1>1. IsFiniteSet(A)
  BY NamesAssumption, FS_Singleton, FS_Product
<1>2. IsFiniteSet(B) /\ IsFiniteSet(C)
  <2>1. IsFiniteSet(1 .. Len(s)) /\ IsFiniteSet(1 .. Len(f))
    BY FS_Interval
  <2>2. IsFiniteSet({"save"}) /\ IsFiniteSet({"frame"})
    BY FS_Singleton
  <2> QED
    BY <2>1, <2>2, FS_Product
<1>3. IsFiniteSet(A \cup B)
  BY <1>1, <1>2, FS_Union
<1>4. IsFiniteSet((A \cup B) \cup C)
  BY <1>2, <1>3, FS_Union
<1>5. HoldersOf(v, s, f, d) \subseteq (A \cup B) \cup C
  BY DEF HoldersOf
<1> HIDE DEF A, B, C
<1>6. IsFiniteSet(HoldersOf(v, s, f, d))
  BY <1>4, <1>5, FS_Subset
<1> QED
  BY <1>6, FS_CardinalityType DEF Count

\* A meaning changed: one holder less of what stood, one more of what stands.
LEMMA CountMeaning ==
    ASSUME NEW v, NEW w, NEW s, NEW f, Len(s) \in Nat, Len(f) \in Nat,
           NEW x \in Names, NEW d, NEW e,
           w[x] = d, \A y \in Names \ {x} : w[y] = v[y]
    PROVE  Count(w, s, f, e)
              = Count(v, s, f, e) - One(v[x] = e) + One(d = e)
<1> DEFINE H == HoldersOf(v, s, f, e)
           h == <<"meaning", x>>
           K == HoldersOf(w, s, f, e)
<1>3. K = (H \ {h}) \cup (IF d = e THEN {h} ELSE {})
  BY DEF HoldersOf
<1>4. h \in H <=> v[x] = e
  BY DEF HoldersOf
<1> HIDE DEF H, K, h
<1>5. IsFiniteSet(H) /\ Cardinality(H) \in Nat
  BY HoldersFinite DEF H, Count
<1>6. /\ IsFiniteSet(H \ {h})
      /\ Cardinality(H \ {h}) = IF h \in H THEN Cardinality(H) - 1
                                ELSE Cardinality(H)
  BY <1>5, FS_RemoveElement
<1>7. Cardinality((H \ {h}) \cup {h}) = Cardinality(H \ {h}) + 1
  BY <1>6, FS_AddElement
<1>8. Cardinality(H \ {h}) = Cardinality(H) - One(v[x] = e)
  <2>1. CASE v[x] = e
    BY <1>4, <1>6, <2>1 DEF One
  <2>2. CASE v[x] # e
    BY <1>4, <1>5, <1>6, <2>2 DEF One
  <2> QED
    BY <2>1, <2>2
<1>9. Cardinality(K) = Cardinality(H \ {h}) + One(d = e)
  <2>1. CASE d = e
    BY <1>3, <1>7, <2>1 DEF One
  <2>2. CASE d # e
    <3>1. K = H \ {h}
      BY <1>3, <2>2
    <3>2. Cardinality(H \ {h}) \in Nat
      BY <1>6, FS_CardinalityType
    <3> QED
      BY <2>2, <3>1, <3>2 DEF One
  <2> QED
    BY <2>1, <2>2
<1> QED
  BY <1>8, <1>9 DEF Count, H, K

\* What is no name holds no record.
LEMMA CountOther ==
    ASSUME NEW v, NEW w, NEW s, NEW f, NEW e, \A y \in Names : w[y] = v[y]
    PROVE  Count(w, s, f, e) = Count(v, s, f, e)
  BY DEF Count, HoldersOf

\* A save put on top.
LEMMA CountPush ==
    ASSUME NEW v, NEW s \in Seq(Saves), NEW f, Len(f) \in Nat,
           NEW r \in Saves, NEW e
    PROVE  Count(v, Append(s, r), f, e)
              = Count(v, s, f, e) + One(r.what \in Names /\ r.prev = e)
<1> DEFINE t == Append(s, r)
           H == HoldersOf(v, s, f, e)
           h == <<"save", Len(s) + 1>>
           K == HoldersOf(v, t, f, e)
<1>1. /\ Len(s) \in Nat /\ Len(t) = Len(s) + 1 /\ t[Len(s) + 1] = r
      /\ \A i \in 1 .. Len(s) : t[i] = s[i]
  OBVIOUS
<1> HIDE DEF t
<1>2. K = H \cup (IF r.what \in Names /\ r.prev = e THEN {h} ELSE {})
  <2>1. {j \in 1 .. Len(t) : t[j].what \in Names /\ t[j].prev = e}
        = {j \in 1 .. Len(s) : s[j].what \in Names /\ s[j].prev = e}
          \cup (IF r.what \in Names /\ r.prev = e THEN {Len(s) + 1} ELSE {})
    BY <1>1
  <2> QED
    BY <2>1 DEF HoldersOf
<1>3. h \notin H
  BY <1>1 DEF HoldersOf
<1> HIDE DEF H, K, h
<1>4. IsFiniteSet(H) /\ Cardinality(H) \in Nat
  BY <1>1, HoldersFinite DEF H, Count
<1>5. Cardinality(H \cup {h}) = Cardinality(H) + 1
  BY <1>3, <1>4, FS_AddElement
<1>6. CASE r.what \in Names /\ r.prev = e
  BY <1>2, <1>5, <1>6 DEF One, Count, H, K, t
<1>7. CASE ~(r.what \in Names /\ r.prev = e)
  <2>1. K = H
    BY <1>2, <1>7
  <2> QED
    BY <1>4, <1>7, <2>1 DEF One, Count, H, K, t
<1> QED
  BY <1>6, <1>7

\* A frame put on top.
LEMMA CountPushFrame ==
    ASSUME NEW v, NEW s, Len(s) \in Nat, NEW f \in Seq(Frames),
           NEW r \in Frames, NEW e
    PROVE  Count(v, s, Append(f, r), e)
              = Count(v, s, f, e) + One(r.kind = "definition" /\ r.of = e)
<1> DEFINE t == Append(f, r)
           H == HoldersOf(v, s, f, e)
           h == <<"frame", Len(f) + 1>>
           K == HoldersOf(v, s, t, e)
<1>1. /\ Len(f) \in Nat /\ Len(t) = Len(f) + 1 /\ t[Len(f) + 1] = r
      /\ \A i \in 1 .. Len(f) : t[i] = f[i]
  OBVIOUS
<1> HIDE DEF t
<1>2. K = H \cup (IF r.kind = "definition" /\ r.of = e THEN {h} ELSE {})
  <2>1. {j \in 1 .. Len(t) : t[j].kind = "definition" /\ t[j].of = e}
        = {j \in 1 .. Len(f) : f[j].kind = "definition" /\ f[j].of = e}
          \cup (IF r.kind = "definition" /\ r.of = e THEN {Len(f) + 1} ELSE {})
    BY <1>1
  <2> QED
    BY <2>1 DEF HoldersOf
<1>3. h \notin H
  BY <1>1 DEF HoldersOf
<1> HIDE DEF H, K, h
<1>4. IsFiniteSet(H) /\ Cardinality(H) \in Nat
  BY <1>1, HoldersFinite DEF H, Count
<1>5. Cardinality(H \cup {h}) = Cardinality(H) + 1
  BY <1>3, <1>4, FS_AddElement
<1>6. CASE r.kind = "definition" /\ r.of = e
  BY <1>2, <1>5, <1>6 DEF One, Count, H, K, t
<1>7. CASE ~(r.kind = "definition" /\ r.of = e)
  <2>1. K = H
    BY <1>2, <1>7
  <2> QED
    BY <1>4, <1>7, <2>1 DEF One, Count, H, K, t
<1> QED
  BY <1>6, <1>7

\* A sequence without its last element.
LEMMA FrontIs ==
    ASSUME NEW S, NEW s \in Seq(S), s # <<>>
    PROVE  /\ Front(s) \in Seq(S) /\ Last(s) \in S
           /\ s = Append(Front(s), Last(s))
<1>1. Len(s) \in Nat /\ Len(s) > 0
  OBVIOUS
<1> DEFINE n == Len(s) - 1
<1>2. n \in Nat /\ n < Len(s) /\ \A i \in 1 .. n : s[i] \in S
  BY <1>1
<1>3. /\ SubSeq(s, 1, n) \in Seq(S) /\ Len(SubSeq(s, 1, n)) = n
      /\ \A i \in 1 .. n : SubSeq(s, 1, n)[i] = s[i]
  <2> HIDE DEF n
  <2>2. /\ SubSeq(s, 1, n) \in Seq(S)
        /\ Len(SubSeq(s, 1, n)) = IF 1 <= n THEN n - 1 + 1 ELSE 0
        /\ \A i \in 1 .. n - 1 + 1 : SubSeq(s, 1, n)[i] = s[1 + i - 1]
    BY <1>2, SubSeqProperties
  <2> QED
    BY <2>2, <1>2
<1>4. Front(s) = SubSeq(s, 1, n) /\ Last(s) = s[Len(s)]
  BY DEF Front, Last
<1>5. Front(s) \in Seq(S) /\ Last(s) \in S
  BY <1>1, <1>3, <1>4
<1> DEFINE t == Append(Front(s), Last(s))
<1>6. /\ t \in Seq(S) /\ Len(t) = n + 1 /\ t[n + 1] = Last(s)
      /\ \A i \in 1 .. n : t[i] = s[i]
  BY <1>2, <1>3, <1>4, <1>5
<1> HIDE DEF t
<1>7. Len(t) = Len(s) /\ \A i \in 1 .. Len(s) : t[i] = s[i]
  BY <1>1, <1>4, <1>6
<1>8. t = s
  BY <1>6, <1>7
<1> QED
  BY <1>5, <1>8 DEF t

\* The save on top taken off.
LEMMA CountPop ==
    ASSUME NEW v, NEW s \in Seq(Saves), s # <<>>, NEW f, Len(f) \in Nat,
           NEW e
    PROVE  Count(v, Front(s), f, e) = Count(v, s, f, e)
              - One(Last(s).what \in Names /\ Last(s).prev = e)
<1>1. Front(s) \in Seq(Saves) /\ Last(s) \in Saves
      /\ s = Append(Front(s), Last(s))
  BY FrontIs
<1>2. Count(v, s, f, e) = Count(v, Front(s), f, e)
         + One(Last(s).what \in Names /\ Last(s).prev = e)
  <2> DEFINE t == Front(s)
             r == Last(s)
  <2>1. t \in Seq(Saves) /\ r \in Saves /\ s = Append(t, r)
    BY <1>1
  <2> HIDE DEF t, r
  <2>2. Count(v, Append(t, r), f, e)
           = Count(v, t, f, e) + One(r.what \in Names /\ r.prev = e)
    BY <2>1, CountPush
  <2> QED
    BY <2>1, <2>2 DEF t, r
<1>3. Count(v, Front(s), f, e) \in Nat
  BY <1>1, HoldersFinite
<1> QED
  BY <1>2, <1>3 DEF One

\* The frame on top taken off.
LEMMA CountPopFrame ==
    ASSUME NEW v, NEW s, Len(s) \in Nat, NEW f \in Seq(Frames), f # <<>>,
           NEW e
    PROVE  Count(v, s, Front(f), e) = Count(v, s, f, e)
              - One(Last(f).kind = "definition" /\ Last(f).of = e)
<1>1. Front(f) \in Seq(Frames) /\ Last(f) \in Frames
      /\ f = Append(Front(f), Last(f))
  BY FrontIs
<1>2. Count(v, s, f, e) = Count(v, s, Front(f), e)
         + One(Last(f).kind = "definition" /\ Last(f).of = e)
  <2> DEFINE t == Front(f)
             r == Last(f)
  <2>1. t \in Seq(Frames) /\ r \in Frames /\ f = Append(t, r)
    BY <1>1
  <2> HIDE DEF t, r
  <2>2. Count(v, s, Append(t, r), e)
           = Count(v, s, t, e) + One(r.kind = "definition" /\ r.of = e)
    BY <2>1, CountPushFrame
  <2> QED
    BY <2>1, <2>2 DEF t, r
<1>3. Count(v, s, Front(f), e) \in Nat
  BY <1>1, HoldersFinite
<1> QED
  BY <1>2, <1>3 DEF One

\* A holder is counted.
LEMMA CountedMeaning ==
    ASSUME NEW v, NEW s, NEW f, Len(s) \in Nat, Len(f) \in Nat,
           NEW x \in Names
    PROVE  Count(v, s, f, v[x]) > 0
<1>1. <<"meaning", x>> \in HoldersOf(v, s, f, v[x])
  BY DEF HoldersOf
<1>2. Count(v, s, f, v[x]) # 0 /\ Count(v, s, f, v[x]) \in Nat
  BY <1>1, HoldersFinite, FS_EmptySet DEF Count
<1> QED
  BY <1>2

-----------------------------------------------------------------------------
(* The free list. *)

InFree(m, d) == \E i \in 1 .. Len(m.free) : m.free[i] = d

\* Nothing is on the free list twice, and what is there was made and is held
\* by nobody.
FreeOnce(m) ==
    /\ \A i, j \in 1 .. Len(m.free) : m.free[i] = m.free[j] => i = j
    /\ \A d \in Defs : InFree(m, d) => d <= m.made /\ m.refs[d] = 0
    /\ \A d \in Defs : d > m.made => m.refs[d] = 0

\* Everything that was made is held or free.
FreeInv(m) ==
    FreeOnce(m)
    /\ \A d \in Defs : d <= m.made /\ m.refs[d] = 0 => InFree(m, d)

\* Everything but z, which has just been taken and is held by nobody yet.
Handed(m, z) ==
    /\ FreeOnce(m)
    /\ z \in Defs /\ z <= m.made /\ m.refs[z] = 0 /\ ~InFree(m, z)
    /\ \A d \in Defs \ {z} : d <= m.made /\ m.refs[d] = 0 => InFree(m, d)

\* Counts are counts, and 0 is no record.
LEMMA CountsAreNat ==
    ASSUME NEW m \in Macros, NEW e \in Defs
    PROVE  m.refs[e] \in Nat /\ e # 0
<1>1. m.refs \in [Defs -> Nat]
  BY DEF Macros
<1>2. e # 0
  BY BoundsAssumption DEF Defs
<1> QED
  BY <1>1, <1>2

\* A reference taken counts one more, and moves no record.
LEMMA RetainCounts ==
    ASSUME NEW m \in Macros, NEW d \in 0 .. MaxDefs
    PROVE  /\ \A e \in Defs : Retain(m, d).refs[e] = m.refs[e] + One(e = d)
           /\ Retain(m, d).free = m.free /\ Retain(m, d).made = m.made
<1>1. CASE d = 0
  <2>1. Retain(m, d) = m
    BY <1>1 DEF Retain
  <2>2. \A e \in Defs : e # d /\ m.refs[e] \in Nat
    BY <1>1, CountsAreNat
  <2> QED
    BY <2>1, <2>2 DEF One
<1>2. CASE d # 0
  <2>1. Retain(m, d) = [m EXCEPT !.refs = [m.refs EXCEPT ![d] = @ + 1]]
    BY <1>2 DEF Retain, Macros
  <2> QED
    BY <2>1 DEF One, Macros
<1> QED
  BY <1>1, <1>2

\* A reference let go counts one less, and the record of the last one is on
\* the free list.
LEMMA ReleaseCounts ==
    ASSUME NEW m \in Macros, NEW d \in 0 .. MaxDefs,
           d # 0 => m.refs[d] > 0
    PROVE  /\ \A e \in Defs : Release(m, d).refs[e] = m.refs[e] - One(e = d)
           /\ Release(m, d).made = m.made
           /\ Release(m, d).free = IF d # 0 /\ m.refs[d] = 1
                                   THEN <<d>> \o m.free ELSE m.free
<1>1. CASE d = 0
  <2>1. Release(m, d) = m
    BY <1>1 DEF Release
  <2>2. \A e \in Defs : e # d /\ m.refs[e] \in Nat
    BY <1>1, CountsAreNat
  <2> QED
    BY <1>1, <2>1, <2>2 DEF One
<1>2. CASE d # 0
  <2>1. d \in Defs /\ m.refs[d] \in Nat /\ m.refs \in [Defs -> Nat]
    BY <1>2, BoundsAssumption DEF Defs, Macros
  <2>2. CASE m.refs[d] > 1
    <3>1. Release(m, d) = [m EXCEPT !.refs = [m.refs EXCEPT ![d] = @ - 1]]
      BY <1>2, <2>1, <2>2 DEF Release, Macros
    <3> QED
      BY <2>1, <2>2, <3>1 DEF One, Macros
  <2>3. CASE m.refs[d] = 1
    <3>1. Release(m, d) = [m EXCEPT !.refs = [m.refs EXCEPT ![d] = 0],
                                    !.body = [m.body EXCEPT ![d] = "cleared"],
                                    !.free = <<d>> \o m.free]
      BY <1>2, <2>3 DEF Release, Macros
    <3> QED
      BY <1>2, <2>1, <2>3, <3>1 DEF One, Macros
  <2> QED
    BY <1>2, <2>1, <2>2, <2>3
<1> QED
  BY <1>1, <1>2

\* Holding what is held moves nothing on or off the free list.
LEMMA RetainKeepsFree ==
    ASSUME NEW m \in Macros, FreeInv(m), NEW d \in 0 .. MaxDefs,
           d # 0 => m.refs[d] > 0
    PROVE  FreeInv(Retain(m, d))
<1>1. /\ \A e \in Defs : Retain(m, d).refs[e] = m.refs[e] + One(e = d)
      /\ Retain(m, d).free = m.free /\ Retain(m, d).made = m.made
  BY RetainCounts
<1>2. \A e \in Defs : Retain(m, d).refs[e] = 0 <=> m.refs[e] = 0
  BY <1>1, BoundsAssumption DEF One, Macros, Defs
<1> QED
  BY <1>1, <1>2 DEF FreeInv, FreeOnce, InFree

\* Holding the one that has just been taken leaves everything held or free.
LEMMA RetainHanded ==
    ASSUME NEW m \in Macros, NEW z, Handed(m, z)
    PROVE  FreeInv(Retain(m, z)) /\ z \in 0 .. MaxDefs
<1>0. z \in Defs /\ z \in 0 .. MaxDefs
  BY BoundsAssumption DEF Handed, Defs
<1>1. /\ \A e \in Defs : Retain(m, z).refs[e] = m.refs[e] + One(e = z)
      /\ Retain(m, z).free = m.free /\ Retain(m, z).made = m.made
  BY <1>0, RetainCounts
<1>2. \A e \in Defs : Retain(m, z).refs[e] = 0 <=> m.refs[e] = 0 /\ e # z
  BY <1>1 DEF One, Macros
<1>3. m.made \in Nat /\ z \in Nat /\ \A e \in Defs : e \in Nat
  BY <1>0, BoundsAssumption DEF Macros, Defs
<1>4. \A e \in Defs : InFree(Retain(m, z), e) <=> InFree(m, e)
  BY <1>1 DEF InFree
<1>5. FreeOnce(Retain(m, z))
  BY <1>1, <1>2, <1>3, <1>4 DEF Handed, FreeOnce
<1> QED
  BY <1>0, <1>1, <1>2, <1>4, <1>5 DEF FreeInv, Handed

\* Letting go of what is held keeps everything held or free.
LEMMA ReleaseKeepsFree ==
    ASSUME NEW m \in Macros, FreeInv(m), NEW d \in 0 .. MaxDefs,
           d # 0 => m.refs[d] > 0
    PROVE  FreeInv(Release(m, d))
<1> DEFINE n == Release(m, d)
<1>1. /\ \A e \in Defs : n.refs[e] = m.refs[e] - One(e = d)
      /\ n.made = m.made
      /\ n.free = IF d # 0 /\ m.refs[d] = 1 THEN <<d>> \o m.free ELSE m.free
  BY ReleaseCounts
<1>2. m.free \in Seq(Defs) /\ Len(m.free) \in Nat /\ m.refs \in [Defs -> Nat]
      /\ m.made \in Nat
  BY BoundsAssumption DEF Macros
<1> HIDE DEF n
<1>3. CASE d # 0 /\ m.refs[d] = 1
  <2>1. d \in Defs /\ d <= m.made /\ ~InFree(m, d)
    <3>1. d \in Defs /\ d \in Nat
      BY <1>3, BoundsAssumption DEF Defs
    <3>2. m.refs[d] # 0
      BY <1>3
    <3> QED
      BY <1>2, <3>1, <3>2 DEF FreeInv, FreeOnce
  <2>2. /\ Len(n.free) = Len(m.free) + 1 /\ n.free[1] = d
        /\ \A i \in 1 .. Len(m.free) : n.free[i + 1] = m.free[i]
        /\ \A i \in 2 .. Len(n.free) : /\ i - 1 \in 1 .. Len(m.free)
                                       /\ n.free[i] = m.free[i - 1]
    BY <1>1, <1>2, <1>3, <2>1
  <2>3. \A e \in Defs : InFree(n, e) <=> e = d \/ InFree(m, e)
    <3>1. InFree(n, d)
      BY <1>2, <2>2 DEF InFree
    <3>2. ASSUME NEW e \in Defs, InFree(m, e) PROVE InFree(n, e)
      <4>1. PICK i \in 1 .. Len(m.free) : m.free[i] = e
        BY <3>2 DEF InFree
      <4>2. i + 1 \in 1 .. Len(n.free)
        <5>1. Len(n.free) = Len(m.free) + 1 /\ Len(m.free) \in Nat
          BY <1>2, <2>2
        <5> QED
          BY <5>1
      <4>3. n.free[i + 1] = e
        <5>1. n.free[i + 1] = m.free[i]
          BY <2>2
        <5> QED
          BY <4>1, <5>1
      <4> QED
        BY <4>2, <4>3 DEF InFree
    <3>3. ASSUME NEW e \in Defs, InFree(n, e) PROVE e = d \/ InFree(m, e)
      <4>1. PICK i \in 1 .. Len(n.free) : n.free[i] = e
        BY <3>3 DEF InFree
      <4>2. i = 1 \/ i \in 2 .. Len(n.free)
        BY <1>2, <2>2, <4>1
      <4> QED
        BY <2>2, <4>1, <4>2 DEF InFree
    <3> QED
      BY <2>1, <3>1, <3>2, <3>3
  <2>4. \A e \in Defs : n.refs[e] = 0 <=> m.refs[e] = 0 \/ e = d
    BY <1>1, <1>2, <1>3 DEF One
  <2>5. \A i, j \in 1 .. Len(n.free) : n.free[i] = n.free[j] => i = j
    <3> SUFFICES ASSUME NEW i \in 1 .. Len(n.free), NEW j \in 1 .. Len(n.free),
                        n.free[i] = n.free[j]
                 PROVE  i = j
      OBVIOUS
    <3>1. /\ i = 1 \/ (i \in 2 .. Len(n.free) /\ n.free[i] # d)
          /\ j = 1 \/ (j \in 2 .. Len(n.free) /\ n.free[j] # d)
      <4>1. \A k \in 2 .. Len(n.free) : n.free[k] # d
        BY <2>1, <2>2 DEF InFree
      <4>2. \A k \in 1 .. Len(n.free) : k = 1 \/ k \in 2 .. Len(n.free)
        BY <1>2, <2>2
      <4> QED
        BY <4>1, <4>2
    <3>2. CASE i \in 2 .. Len(n.free) /\ j \in 2 .. Len(n.free)
      <4>1. /\ i - 1 \in 1 .. Len(m.free) /\ n.free[i] = m.free[i - 1]
            /\ j - 1 \in 1 .. Len(m.free) /\ n.free[j] = m.free[j - 1]
        BY <2>2, <3>2
      <4>2. \A k, l \in 1 .. Len(m.free) : m.free[k] = m.free[l] => k = l
        BY DEF FreeInv, FreeOnce
      <4>3. m.free[i - 1] = m.free[j - 1]
        BY <4>1
      <4>4. i - 1 = j - 1
        BY <4>1, <4>2, <4>3
      <4> QED
        BY <3>2, <4>4
    <3> QED
      BY <2>2, <3>1, <3>2
  <2> QED
    BY <1>1, <2>1, <2>3, <2>4, <2>5 DEF n, FreeInv, FreeOnce
<1>4. CASE ~(d # 0 /\ m.refs[d] = 1)
  <2>1. \A e \in Defs : n.refs[e] = 0 <=> m.refs[e] = 0
    <3> SUFFICES ASSUME NEW e \in Defs
                 PROVE  n.refs[e] = 0 <=> m.refs[e] = 0
      OBVIOUS
    <3>1. m.refs[e] \in Nat /\ n.refs[e] = m.refs[e] - One(e = d) /\ e # 0
      BY <1>1, CountsAreNat
    <3>2. CASE e = d
      <4>1. m.refs[e] > 1
        BY <1>4, <3>1, <3>2
      <4> QED
        BY <3>1, <3>2, <4>1 DEF One
    <3>3. CASE e # d
      BY <3>1, <3>3 DEF One
    <3> QED
      BY <3>2, <3>3
  <2> QED
    BY <1>1, <1>4, <2>1 DEF n, FreeInv, FreeOnce, InFree
<1> QED
  BY <1>3, <1>4

\* The head of the free list taken: nothing else changes hands.
LEMMA ReusedHanded ==
    ASSUME NEW m \in Macros, FreeInv(m), m.free # <<>>, NEW b,
           NEW z, z = Head(m.free)
    PROVE  /\ Handed(Reused(m, z, b), z)
           /\ \A e \in Defs : Reused(m, z, b).refs[e] = m.refs[e]
<1> DEFINE n == Reused(m, z, b)
<1>1. /\ m.free \in Seq(Defs) /\ Len(m.free) \in Nat /\ Len(m.free) > 0
      /\ z \in Defs /\ z = m.free[1] /\ m.refs \in [Defs -> Nat]
  BY DEF Macros
<1>2. InFree(m, z)
  BY <1>1 DEF InFree
<1>3. z <= m.made /\ m.refs[z] = 0
  BY <1>1, <1>2 DEF FreeInv, FreeOnce
<1>4. /\ n.free = Tail(m.free) /\ n.made = m.made
      /\ n.refs = [m.refs EXCEPT ![z] = 0]
  BY DEF Reused, Macros
<1> HIDE DEF n
<1>5. \A e \in Defs : n.refs[e] = m.refs[e]
  BY <1>1, <1>3, <1>4
<1>6. /\ Len(n.free) = Len(m.free) - 1
      /\ \A i \in 1 .. Len(n.free) : /\ i + 1 \in 2 .. Len(m.free)
                                     /\ n.free[i] = m.free[i + 1]
  BY <1>1, <1>4
<1>7. \A e \in Defs : InFree(n, e) <=> InFree(m, e) /\ e # z
  <2>1. ASSUME NEW e \in Defs, InFree(n, e) PROVE InFree(m, e) /\ e # z
    <3>1. PICK i \in 1 .. Len(n.free) : n.free[i] = e
      BY <2>1 DEF InFree
    <3>2. /\ i + 1 \in 1 .. Len(m.free) /\ 1 \in 1 .. Len(m.free)
          /\ i + 1 # 1 /\ m.free[i + 1] = e
      BY <1>1, <1>6, <3>1
    <3> QED
      BY <1>1, <3>2 DEF InFree, FreeInv, FreeOnce
  <2>2. ASSUME NEW e \in Defs, InFree(m, e), e # z PROVE InFree(n, e)
    <3>1. PICK i \in 1 .. Len(m.free) : m.free[i] = e
      BY <2>2 DEF InFree
    <3>2. i - 1 \in 1 .. Len(n.free) /\ n.free[i - 1] = m.free[i - 1 + 1]
      BY <1>1, <1>6, <2>2, <3>1
    <3>3. i - 1 + 1 = i
      BY <3>1
    <3> QED
      BY <3>1, <3>2, <3>3 DEF InFree
  <2> QED
    BY <2>1, <2>2
<1>8. \A i, j \in 1 .. Len(n.free) : n.free[i] = n.free[j] => i = j
  <2> SUFFICES ASSUME NEW i \in 1 .. Len(n.free), NEW j \in 1 .. Len(n.free),
                      n.free[i] = n.free[j]
               PROVE  i = j
    OBVIOUS
  <2>1. i + 1 \in 1 .. Len(m.free) /\ j + 1 \in 1 .. Len(m.free)
        /\ m.free[i + 1] = m.free[j + 1]
    BY <1>1, <1>6
  <2>2. i + 1 = j + 1
    BY <2>1 DEF FreeInv, FreeOnce
  <2> QED
    BY <2>2
<1>9. Handed(n, z)
  BY <1>1, <1>3, <1>4, <1>5, <1>7, <1>8 DEF Handed, FreeInv, FreeOnce
<1> QED
  BY <1>5, <1>9 DEF n

\* Another record made: nothing else changes hands.
LEMMA MadeHanded ==
    ASSUME NEW m \in Macros, FreeInv(m), m.made < MaxDefs, NEW b
    PROVE  /\ Handed(Made(m, b), m.made + 1)
           /\ \A e \in Defs : Made(m, b).refs[e] = m.refs[e]
<1>1. m.made \in Nat /\ m.made + 1 \in Defs /\ m.refs \in [Defs -> Nat]
  BY BoundsAssumption DEF Macros, Defs
<1>2. /\ Made(m, b).free = m.free /\ Made(m, b).refs = m.refs
      /\ Made(m, b).made = m.made + 1
  BY DEF Made, Macros
<1>3. \A e \in Defs : e <= m.made + 1 <=> e <= m.made \/ e = m.made + 1
  BY <1>1 DEF Defs
<1>4. ~(m.made + 1 <= m.made)
  BY <1>1
<1>5. m.refs[m.made + 1] = 0
  BY <1>1 DEF FreeInv, FreeOnce
<1> QED
  BY <1>1, <1>2, <1>3, <1>4, <1>5 DEF Handed, FreeInv, FreeOnce, InFree, Defs

-----------------------------------------------------------------------------
(* Every step keeps the counts exact. *)

Exact(m) == \A e \in Defs : m.refs[e] = Count(value, saves, input, e)

RecordsInv == Exact(macros) /\ FreeInv(macros)

\* Nobody holds anything at the start, and nothing was made.
LEMMA InitRecords == Init => RecordsInv
<1> SUFFICES ASSUME Init PROVE RecordsInv
  OBVIOUS
<1>1. Exact(macros)
  <2> SUFFICES ASSUME NEW e \in Defs
               PROVE  macros.refs[e] = Count(value, saves, input, e)
    BY DEF Exact
  <2>1. e # 0 /\ saves = <<>> /\ input = <<>> /\ \A x \in Names : value[x] = 0
    BY BoundsAssumption DEF Init, Defs, Locs
  <2>2. HoldersOf(value, saves, input, e) = {}
    BY <2>1 DEF HoldersOf
  <2> QED
    BY <2>2, FS_EmptySet DEF Init, Count
<1>2. FreeInv(macros)
  <2>1. \A e \in Defs : ~(e <= 0)
    BY BoundsAssumption DEF Defs
  <2> QED
    BY <2>1 DEF Init, FreeInv, FreeOnce, InFree
<1> QED
  BY <1>1, <1>2 DEF RecordsInv

\* What the type invariant says of the parts the counts are about.
LEMMA RecordTypes ==
    ASSUME GroupInv
    PROVE  /\ value \in [Locs -> Values \cup Settings \cup 0 .. MaxDefs]
           /\ \A x \in Names : x \in Locs /\ value[x] \in 0 .. MaxDefs
           /\ saves \in Seq(Saves) /\ Len(saves) \in Nat
           /\ input \in Seq(Frames) /\ Len(input) \in Nat
           /\ macros \in Macros
<1>1. \A x \in Names : x \in Locs /\ Held(x) = 0 .. MaxDefs
  BY DEF Locs, Held
<1>2. /\ value \in [Locs -> Values \cup Settings \cup 0 .. MaxDefs]
      /\ \A x \in Locs : value[x] \in Held(x)
      /\ saves \in Seq(Saves) /\ input \in Seq(Frames) /\ macros \in Macros
  BY DEF GroupInv, TypeOK
<1>3. Len(saves) \in Nat /\ Len(input) \in Nat
  BY <1>2
<1>4. \A x \in Names : x \in Locs /\ value[x] \in 0 .. MaxDefs
  BY <1>1, <1>2, Zenon
<1> QED
  BY <1>2, <1>3, <1>4

\* set_meaning, of a record that is held or has just been taken: one holder
\* less of the old meaning unless a save takes it over, one more of the new.
LEMMA MeaningRecords ==
    ASSUME GroupInv, NEW m \in Macros, Exact(m),
           NEW x \in Names, NEW d \in 0 .. MaxDefs, FreeInv(Retain(m, d)),
           NEW prefix, SetMeaning(m, x, d, prefix), input' = input
    PROVE  RecordsInv'
<1>t. /\ value \in [Locs -> Values \cup Settings \cup 0 .. MaxDefs]
      /\ x \in Locs /\ value[x] \in 0 .. MaxDefs
      /\ saves \in Seq(Saves) /\ Len(saves) \in Nat /\ Len(input) \in Nat
  BY RecordTypes
<1> DEFINE r == Retain(m, d)
           old == value[x]
<1>r. /\ r \in Macros
      /\ \A e \in Defs : r.refs[e] = Count(value, saves, input, e) + One(e = d)
  <2>1. \A e \in Defs : r.refs[e] = m.refs[e] + One(e = d)
    BY RetainCounts
  <2> QED
    BY <2>1, RetainType DEF Exact
<1>v. /\ value' = [value EXCEPT ![x] = d]
      /\ \A e \in Defs : Count(value, saves, input, e) \in Nat
      /\ \A e : Count(value', saves, input, e)
                   = Count(value, saves, input, e) - One(old = e) + One(d = e)
  <2>1. value' = [value EXCEPT ![x] = d]
    BY DEF SetMeaning, Place
  <2>2. \A e \in Defs : Count(value, saves, input, e) \in Nat
    BY <1>t, HoldersFinite
  <2>3. value'[x] = d /\ \A y \in Names \ {x} : value'[y] = value[y]
    BY <2>1, <1>t DEF Locs
  <2>4. \A e : Count(value', saves, input, e)
               = Count(value, saves, input, e) - One(value[x] = e) + One(d = e)
    BY <1>t, <2>3, CountMeaning
  <2> QED
    BY <2>1, <2>2, <2>4
<1>h. old # 0 => old \in Defs /\ r.refs[old] > 0
  <2> SUFFICES ASSUME old # 0 PROVE old \in Defs /\ r.refs[old] > 0
    OBVIOUS
  <2>1. old \in Defs
    BY <1>t, BoundsAssumption DEF Defs
  <2>2. Count(value, saves, input, old) > 0
    BY <1>t, CountedMeaning
  <2>3. r.refs[old] = Count(value, saves, input, old) + One(old = d)
    BY <1>r, <2>1
  <2>4. Count(value, saves, input, old) \in Nat
    BY <1>v, <2>1
  <2>5. One(old = d) \in {0, 1}
    BY OneEither
  <2> QED
    BY <2>1, <2>2, <2>3, <2>4, <2>5
<1> HIDE DEF r, old
<1>1. CASE IsLocal(prefix) /\ lev[x] # level
  <2> DEFINE s == [what |-> x, level |-> level,
                   prevLevel |-> lev[x], prev |-> value[x]]
  <2>1. saves' = Append(saves, s) /\ macros' = r
    BY <1>1 DEF SetMeaning, SaveValue, Saved, r
  <2>2. s \in Saves /\ s.what = x /\ s.prev = old
    BY <1>t, BoundsAssumption DEF old, Saves, GroupInv, TypeOK
  <2> HIDE DEF s
  <2>3. \A e : Count(value', saves', input', e)
               = Count(value', saves, input, e) + One(old = e)
    <3>1. \A e : Count(value', Append(saves, s), input, e)
                 = Count(value', saves, input, e)
                   + One(s.what \in Names /\ s.prev = e)
      BY <1>t, <2>2, CountPush
    <3>2. \A e : (s.what \in Names /\ s.prev = e) <=> old = e
      BY <2>2
    <3>3. \A e : One(s.what \in Names /\ s.prev = e) = One(old = e)
      BY <3>2 DEF One
    <3> QED
      BY <2>1, <3>1, <3>3
  <2>4. ASSUME NEW e \in Defs PROVE r.refs[e] = Count(value', saves', input', e)
    <3>1. /\ r.refs[e] = Count(value, saves, input, e) + One(e = d)
          /\ Count(value', saves, input, e)
                = Count(value, saves, input, e) - One(old = e) + One(d = e)
          /\ Count(value, saves, input, e) \in Nat
      BY <1>r, <1>v
    <3>2. One(old = e) \in {0, 1} /\ One(d = e) \in {0, 1}
          /\ One(e = d) = One(d = e)
      BY OneEither
    <3>3. Count(value', saves', input', e)
          = Count(value, saves, input, e) - One(old = e) + One(d = e) + One(old = e)
      BY <2>3, <3>1
    <3>4. r.refs[e] = Count(value, saves, input, e) + One(d = e)
      BY <3>1, <3>2
    <3>5. \A c \in Nat : \A a, b \in {0, 1} : c + b = c - a + b + a
      OBVIOUS
    <3> QED
      BY <3>1, <3>2, <3>3, <3>4, <3>5
  <2>5. Exact(macros)'
    BY <2>1, <2>4 DEF Exact
  <2> QED
    BY <2>1, <2>5 DEF r, RecordsInv
<1>2. CASE ~(IsLocal(prefix) /\ lev[x] # level)
  <2>1. saves' = saves /\ macros' = Release(r, old)
    BY <1>2 DEF SetMeaning, SaveValue, r, old
  <2>2. \A e \in Defs : Release(r, old).refs[e] = r.refs[e] - One(e = old)
    <3>1. old \in 0 .. MaxDefs
      BY <1>t DEF old
    <3>2. r \in Macros /\ (old # 0 => r.refs[old] > 0)
      BY <1>r, <1>h
    <3> QED
      BY <3>1, <3>2, ReleaseCounts, ZenonT(40)
  <2>3. ASSUME NEW e \in Defs
        PROVE  Release(r, old).refs[e] = Count(value', saves', input', e)
    <3>1. /\ r.refs[e] = Count(value, saves, input, e) + One(e = d)
          /\ Count(value', saves, input, e)
                = Count(value, saves, input, e) - One(old = e) + One(d = e)
          /\ Count(value, saves, input, e) \in Nat
      BY <1>r, <1>v
    <3>2. One(old = e) \in {0, 1} /\ One(d = e) \in {0, 1}
          /\ One(e = d) = One(d = e) /\ One(e = old) = One(old = e)
      BY OneEither
    <3>3. Release(r, old).refs[e]
          = Count(value, saves, input, e) + One(d = e) - One(old = e)
      BY <2>2, <3>1, <3>2
    <3>4. input' = input
      OBVIOUS
    <3>5. Count(value', saves', input', e)
          = Count(value, saves, input, e) - One(old = e) + One(d = e)
      BY <2>1, <3>1, <3>4
    <3>6. \A c \in Nat : \A a, b \in {0, 1} : c + b - a = c - a + b
      OBVIOUS
    <3> QED
      BY <3>1, <3>2, <3>3, <3>5, <3>6
  <2>4. FreeInv(Release(r, old))
    BY <1>r, <1>h, <1>t, ReleaseKeepsFree DEF r, old
  <2>5. Exact(macros)'
    BY <2>1, <2>3 DEF Exact
  <2> QED
    BY <2>1, <2>4, <2>5 DEF RecordsInv
<1> QED
  BY <1>1, <1>2

\* An assignment to what is no name holds and lets go of no record.
LEMMA OtherAssignRecords ==
    ASSUME GroupInv, RecordsInv, NEW x \in Locs, x \notin Names, NEW v,
           NEW prefix, Place(x, v, prefix),
           saves' = saves \/ saves' = Saved(x),
           UNCHANGED <<macros, input>>
    PROVE  RecordsInv'
<1>t. /\ value \in [Locs -> Values \cup Settings \cup 0 .. MaxDefs]
      /\ saves \in Seq(Saves) /\ Len(input) \in Nat /\ level \in Nat
      /\ lev[x] \in Nat /\ value[x] \in Values \cup Settings \cup 0 .. MaxDefs
  BY BoundsAssumption DEF GroupInv, TypeOK
<1>1. \A y \in Names : value'[y] = value[y]
  BY <1>t DEF Place, Locs
<1>2. ASSUME NEW e
      PROVE  Count(value', saves', input', e) = Count(value, saves, input, e)
  <2>1. Count(value', saves', input, e) = Count(value, saves', input, e)
    BY <1>1, CountOther
  <2>2. Count(value, saves', input, e) = Count(value, saves, input, e)
    <3>1. CASE saves' = saves
      BY <3>1
    <3>2. CASE saves' = Saved(x)
      <4> DEFINE s == [what |-> x, level |-> level,
                       prevLevel |-> lev[x], prev |-> value[x]]
      <4>1. s \in Saves /\ s.what \notin Names /\ saves' = Append(saves, s)
        BY <1>t, <3>2 DEF Saves, Saved
      <4> HIDE DEF s
      <4>2. Count(value, Append(saves, s), input, e)
            = Count(value, saves, input, e)
              + One(s.what \in Names /\ s.prev = e)
        BY <1>t, <4>1, CountPush
      <4>3. Count(value, saves, input, e) \in Nat
        BY <1>t, HoldersFinite
      <4> QED
        BY <4>1, <4>2, <4>3 DEF One
    <3> QED
      BY <3>1, <3>2
  <2> QED
    BY <2>1, <2>2
<1> QED
  BY <1>2 DEF RecordsInv, Exact

\* Assignments of every kind.
LEMMA AssignsRecords ==
    ASSUME GroupInv, RecordsInv, NEW prefix \in BOOLEAN, Assign(prefix)
    PROVE  RecordsInv'
<1>0. macros \in Macros /\ Exact(macros) /\ FreeInv(macros)
  BY DEF GroupInv, TypeOK, RecordsInv
<1>1. ASSUME NEW x \in Locs, x \notin Names, NEW v,
             AssignRegister(x, v, prefix) \/ AssignParameter(x, v, prefix)
      PROVE  RecordsInv'
  <2>1. saves' = saves \/ saves' = Saved(x)
    BY <1>1 DEF AssignRegister, AssignParameter, SaveValue
  <2> QED
    BY <1>1, <2>1, OtherAssignRecords DEF AssignRegister, AssignParameter
<1>2. ASSUME NEW x \in Names, NEW b \in Bodies, macros.made < MaxDefs,
             SetMeaning(Made(macros, b), x, macros.made + 1, prefix),
             input' = input
      PROVE  RecordsInv'
  <2> DEFINE m == Made(macros, b)
             d == macros.made + 1
  <2>1. m \in Macros /\ d \in 0 .. MaxDefs
    BY <1>0, <1>2, MadeType
  <2>2. Handed(m, d) /\ \A e \in Defs : m.refs[e] = macros.refs[e]
    BY <1>0, <1>2, MadeHanded
  <2>3. SetMeaning(m, x, d, prefix)
    BY <1>2
  <2> HIDE DEF m, d
  <2>4. FreeInv(Retain(m, d)) /\ Exact(m)
    BY <1>0, <2>1, <2>2, RetainHanded DEF Exact
  <2> QED
    BY <1>2, <2>1, <2>3, <2>4, MeaningRecords
<1>3. ASSUME NEW x \in Names, NEW b \in Bodies, macros.free # <<>>,
             SetMeaning(Reused(macros, Head(macros.free), b), x,
                        Head(macros.free), prefix),
             input' = input
      PROVE  RecordsInv'
  <2> DEFINE d == Head(macros.free)
             m == Reused(macros, d, b)
  <2>1. m \in Macros /\ d \in 0 .. MaxDefs
    BY <1>0, <1>3, ReusedType
  <2>2. Handed(m, d) /\ \A e \in Defs : m.refs[e] = macros.refs[e]
    BY <1>0, <1>3, ReusedHanded
  <2>3. SetMeaning(m, x, d, prefix)
    BY <1>3
  <2> HIDE DEF m, d
  <2>4. FreeInv(Retain(m, d)) /\ Exact(m)
    BY <1>0, <2>1, <2>2, RetainHanded DEF Exact
  <2> QED
    BY <1>3, <2>1, <2>3, <2>4, MeaningRecords
<1>4. ASSUME NEW x \in Names, NEW y \in Names, Let(x, y, prefix)
      PROVE  RecordsInv'
  <2> DEFINE d == value[y]
  <2>1. d \in 0 .. MaxDefs
    BY RecordTypes
  <2>2. d # 0 => macros.refs[d] > 0
    <3> SUFFICES ASSUME d # 0 PROVE macros.refs[d] > 0
      OBVIOUS
    <3>1. d \in Defs
      BY <2>1, BoundsAssumption DEF Defs
    <3>2. Count(value, saves, input, d) > 0
      BY RecordTypes, CountedMeaning
    <3> QED
      BY <1>0, <3>1, <3>2 DEF Exact
  <2>3. SetMeaning(macros, x, d, prefix) /\ input' = input
    BY <1>4 DEF Let
  <2> HIDE DEF d
  <2>4. FreeInv(Retain(macros, d))
    BY <1>0, <2>1, <2>2, RetainKeepsFree
  <2> QED
    BY <1>0, <2>1, <2>3, <2>4, MeaningRecords
<1>5. /\ \A x \in Regs \cup Boxes \cup Params : x \in Locs /\ x \notin Names
      /\ GlobalDefs \in Locs /\ GlobalDefs \notin Names
  BY KindsAssumption DEF Locs
<1>6. CASE \E x \in Regs, v \in Values : AssignRegister(x, v, prefix)
  BY <1>1, <1>5, <1>6
<1>7. CASE \E x \in Boxes, v \in Values : AssignBox(x, v, prefix)
  BY <1>1, <1>5, <1>7 DEF AssignBox
<1>8. CASE \E v \in Settings : AssignGlobalDefs(v, prefix)
  BY <1>1, <1>5, <1>8 DEF AssignGlobalDefs
<1>9. CASE \E x \in Params, v \in Values : AssignParameter(x, v, prefix)
  BY <1>1, <1>5, <1>9
<1>10. CASE \E x \in Names, b \in Bodies :
               Define(x, b, prefix) \/ DefineRead(x, b, prefix)
  BY <1>2, <1>3, <1>10 DEF Define, DefineRead
<1>11. CASE \E x, y \in Names : Let(x, y, prefix)
  BY <1>4, <1>11
<1> QED
  BY <1>6, <1>7, <1>8, <1>9, <1>10, <1>11 DEF Assign

\* A call holds what the name means; what is on top of the input, when it
\* has been read, lets go of what it held.
LEMMA FramesRecords ==
    ASSUME GroupInv, RecordsInv, (\E x \in Names : Call(x)) \/ PopFrame
    PROVE  RecordsInv'
<1>t. /\ \A x \in Names : x \in Locs /\ value[x] \in 0 .. MaxDefs
      /\ saves \in Seq(Saves) /\ Len(saves) \in Nat
      /\ input \in Seq(Frames) /\ Len(input) \in Nat
      /\ macros \in Macros /\ Exact(macros) /\ FreeInv(macros)
  BY RecordTypes DEF RecordsInv
<1>n. \A f : Len(f) \in Nat => \A e : Count(value, saves, f, e) \in Nat
  BY <1>t, HoldersFinite
<1>1. ASSUME NEW x \in Names, Call(x) PROVE RecordsInv'
  <2> DEFINE d == value[x]
             r == [kind |-> "definition", of |-> d]
  <2>1. d \in Defs /\ d \in 0 .. MaxDefs
    BY <1>1, <1>t, BoundsAssumption DEF Call, Defs
  <2>2. /\ macros' = Retain(macros, d) /\ input' = Append(input, r)
        /\ value' = value /\ saves' = saves
    BY <1>1 DEF Call
  <2>3. r \in Frames /\ r.kind = "definition" /\ r.of = d
    BY <2>1 DEF Frames
  <2>4. Count(value, saves, input, d) > 0
    BY <1>t, CountedMeaning
  <2> HIDE DEF d, r
  <2>5. \A e : Count(value, saves, input', e)
               = Count(value, saves, input, e)
                 + One(r.kind = "definition" /\ r.of = e)
    BY <1>t, <2>2, <2>3, CountPushFrame
  <2>6. \A e : One(r.kind = "definition" /\ r.of = e) = One(e = d)
    BY <2>3 DEF One
  <2>7. \A e \in Defs : Retain(macros, d).refs[e] = macros.refs[e] + One(e = d)
    BY <1>t, <2>1, RetainCounts
  <2>8. ASSUME NEW e \in Defs
        PROVE  macros'.refs[e] = Count(value', saves', input', e)
    <3>1. macros'.refs[e] = macros.refs[e] + One(e = d)
      BY <2>2, <2>7
    <3>2. macros.refs[e] = Count(value, saves, input, e)
      BY <1>t DEF Exact
    <3>3. Count(value', saves', input', e)
             = Count(value, saves, input, e) + One(e = d)
      BY <2>2, <2>5, <2>6
    <3> QED
      BY <3>1, <3>2, <3>3
  <2>9. FreeInv(Retain(macros, d))
    BY <1>t, <2>1, <2>4, RetainKeepsFree DEF Exact
  <2> QED
    BY <2>2, <2>8, <2>9 DEF RecordsInv, Exact
<1>2. CASE PopFrame
  <2> DEFINE r == Last(input)
  <2>1. /\ input # <<>> /\ input' = Front(input)
        /\ macros' = IF r.kind = "definition" THEN Release(macros, r.of)
                     ELSE macros
        /\ value' = value /\ saves' = saves
    BY <1>2 DEF PopFrame
  <2>2. r \in Frames /\ Front(input) \in Seq(Frames)
    BY <1>t, <2>1, FrontIs
  <2>3. \A e : Count(value, saves, input', e)
               = Count(value, saves, input, e)
                 - One(r.kind = "definition" /\ r.of = e)
    BY <1>t, <2>1, CountPopFrame
  <2>4. \A e : /\ Count(value, saves, input, e) \in Nat
               /\ Count(value, saves, input', e) \in Nat
    BY <1>t, <1>n, <2>1, <2>2
  <2> HIDE DEF r
  <2>5. CASE r.kind = "definition"
    <3>1. r.of \in Defs /\ r.of \in 0 .. MaxDefs
      BY <2>2, <2>5, BoundsAssumption DEF Frames, Defs
    <3>2. \A e : One(r.kind = "definition" /\ r.of = e) = One(e = r.of)
      BY <2>5 DEF One
    <3>3. macros.refs[r.of] > 0
      <4>1. One(r.of = r.of) = 1
        BY DEF One
      <4>2. Count(value, saves, input, r.of) > 0
        BY <2>3, <2>4, <3>2, <4>1
      <4> QED
        BY <1>t, <3>1, <4>2 DEF Exact
    <3>4. /\ \A e \in Defs : Release(macros, r.of).refs[e]
                             = macros.refs[e] - One(e = r.of)
          /\ FreeInv(Release(macros, r.of))
      BY <1>t, <3>1, <3>3, ReleaseCounts, ReleaseKeepsFree
    <3>5. macros' = Release(macros, r.of)
      BY <2>1, <2>5
    <3>6. ASSUME NEW e \in Defs
          PROVE  macros'.refs[e] = Count(value', saves', input', e)
      <4>1. macros'.refs[e] = macros.refs[e] - One(e = r.of)
        BY <3>4, <3>5
      <4>2. macros.refs[e] = Count(value, saves, input, e)
        BY <1>t DEF Exact
      <4>3. Count(value', saves', input', e)
               = Count(value, saves, input, e) - One(e = r.of)
        BY <2>1, <2>3, <3>2
      <4> QED
        BY <4>1, <4>2, <4>3
    <3> QED
      BY <3>4, <3>5, <3>6 DEF RecordsInv, Exact
  <2>6. CASE r.kind # "definition"
    <3>1. \A e : One(r.kind = "definition" /\ r.of = e) = 0
      BY <2>6 DEF One
    <3>2. \A e : Count(value, saves, input', e) = Count(value, saves, input, e)
      BY <2>3, <2>4, <3>1
    <3> QED
      BY <1>t, <2>1, <2>6, <3>2 DEF RecordsInv, Exact
  <2> QED
    BY <2>5, <2>6
<1> QED
  BY <1>1, <1>2

\* One turn of end_group's loop: a save that is put back is a holder no more,
\* as its place is again; the meaning it replaces, or the save that is let
\* go, releases what it held.
LEMMA UnwindRecords ==
    ASSUME GroupInv, RecordsInv, Restore \/ LetGo \/ PutBack
    PROVE  RecordsInv'
<1> DEFINE s == Last(saves)
           top(e) == One(s.what \in Names /\ s.prev = e)
<1>t. /\ \A x \in Names : x \in Locs /\ value[x] \in 0 .. MaxDefs
      /\ saves \in Seq(Saves) /\ Len(saves) \in Nat
      /\ input \in Seq(Frames) /\ Len(input) \in Nat
      /\ macros \in Macros /\ Exact(macros) /\ FreeInv(macros)
      /\ value \in [Locs -> Values \cup Settings \cup 0 .. MaxDefs]
  BY RecordTypes DEF RecordsInv
<1>0. saves # <<>> /\ saves' = Front(saves)
  BY DEF Restore, LetGo, PutBack, Unwinds
<1>s. s \in Saves /\ Front(saves) \in Seq(Saves)
  BY <1>0, <1>t, FrontIs
<1>i. IsSave(s) /\ (s.what \in Names => s.prev \in 0 .. MaxDefs)
  <2>1. Len(saves) \in 1 .. Len(saves)
    BY <1>0, <1>t
  <2>2. s = saves[Len(saves)] /\ IsSave(saves[Len(saves)])
    BY <2>1 DEF Last, GroupInv, TypeOK
  <2> QED
    BY <2>2, KindsAssumption DEF IsSave, Held, Locs
<1>c. \A e : /\ Count(value, saves', input, e)
                   = Count(value, saves, input, e) - top(e)
             /\ Count(value, saves', input, e) \in Nat
             /\ Count(value, saves, input, e) \in Nat
             /\ top(e) \in {0, 1}
  <2>1. \A e : Count(value, saves', input, e)
               = Count(value, saves, input, e) - top(e)
    BY <1>0, <1>t, CountPop
  <2>2. Len(saves') \in Nat
    BY <1>0, <1>s
  <2>3. \A e : /\ Count(value, saves', input, e) \in Nat
               /\ Count(value, saves, input, e) \in Nat
    BY <2>2, <1>t, HoldersFinite
  <2> QED
    BY <2>1, <2>3 DEF One
<1>r. ASSUME NEW d \in 0 .. MaxDefs, d # 0 => macros.refs[d] > 0
      PROVE  /\ \A e \in Defs : Release(macros, d).refs[e]
                                = macros.refs[e] - One(e = d)
             /\ FreeInv(Release(macros, d))
  BY <1>r, <1>t, ReleaseCounts, ReleaseKeepsFree
<1> HIDE DEF s, top
<1>1. CASE Restore
  <2>1. /\ value' = [value EXCEPT ![s.what] = s.prev] /\ s.what # AfterGroup
        /\ macros' = IF s.what \in Names THEN Release(macros, value[s.what])
                     ELSE macros
        /\ input' = input
    BY <1>1 DEF Restore, s
  <2>2. s.what \in Locs
    BY <1>s, <2>1 DEF Saves
  <2>3. value'[s.what] = s.prev
        /\ \A y \in Names \ {s.what} : value'[y] = value[y]
    BY <2>1, <2>2, <1>t
  <2>4. CASE s.what \in Names
    <3> DEFINE d == value[s.what]
    <3>1. d \in 0 .. MaxDefs /\ (d # 0 => d \in Defs)
      BY <1>t, <2>4, BoundsAssumption DEF Defs
    <3>2. d # 0 => macros.refs[d] > 0
      <4>1. Count(value, saves, input, d) > 0
        BY <1>t, <2>4, CountedMeaning
      <4> QED
        BY <1>t, <3>1, <4>1 DEF Exact
    <3> HIDE DEF d
    <3>3. macros' = Release(macros, d)
      BY <2>1, <2>4 DEF d
    <3>4. /\ \A e \in Defs : macros'.refs[e] = macros.refs[e] - One(e = d)
          /\ FreeInv(macros')
      BY <1>r, <3>1, <3>2, <3>3
    <3>5. Len(saves') \in Nat
      BY <1>0, <1>s
    <3>6. \A e : Count(value', saves', input, e)
                 = Count(value, saves', input, e) - One(d = e) + One(s.prev = e)
      BY <1>t, <2>3, <2>4, <3>5, CountMeaning DEF d
    <3>7. \A e : top(e) = One(s.prev = e)
      BY <2>4 DEF top, One
    <3>8. ASSUME NEW e \in Defs
          PROVE  macros'.refs[e] = Count(value', saves', input', e)
      <4>1. /\ macros'.refs[e] = macros.refs[e] - One(e = d)
            /\ macros.refs[e] = Count(value, saves, input, e)
            /\ Count(value', saves', input', e)
                  = Count(value, saves', input, e) - One(d = e) + top(e)
            /\ Count(value, saves', input, e)
                  = Count(value, saves, input, e) - top(e)
            /\ Count(value, saves, input, e) \in Nat /\ top(e) \in {0, 1}
        BY <1>c, <1>t, <2>1, <3>4, <3>6, <3>7 DEF Exact
      <4>2. One(e = d) = One(d = e) /\ One(d = e) \in {0, 1}
        BY OneEither
      <4> QED
        BY <4>1, <4>2
    <3> QED
      BY <3>4, <3>8 DEF RecordsInv, Exact
  <2>5. CASE s.what \notin Names
    <3>1. \A y \in Names : value'[y] = value[y]
      BY <2>3, <2>5
    <3>2. \A e : Count(value', saves', input, e) = Count(value, saves', input, e)
      BY <3>1, CountOther
    <3>3. \A e : top(e) = 0
      BY <2>5 DEF top, One
    <3>4. ASSUME NEW e
          PROVE  Count(value', saves', input', e) = Count(value, saves, input, e)
      <4>1. Count(value', saves', input', e) = Count(value, saves', input, e)
        BY <2>1, <3>2
      <4>2. /\ Count(value, saves', input, e)
                  = Count(value, saves, input, e) - top(e)
            /\ Count(value, saves, input, e) \in Nat /\ top(e) = 0
        BY <1>c, <3>3
      <4> QED
        BY <4>1, <4>2
    <3> QED
      BY <1>t, <2>1, <2>5, <3>4 DEF RecordsInv, Exact
  <2> QED
    BY <2>4, <2>5
<1>2. CASE LetGo
  <2>1. /\ value' = value /\ input' = input
        /\ macros' = IF s.what \in Names THEN Release(macros, s.prev)
                     ELSE macros
    BY <1>2 DEF LetGo, s
  <2>2. CASE s.what \in Names
    <3> DEFINE d == s.prev
    <3>1. d \in 0 .. MaxDefs /\ (d # 0 => d \in Defs)
      BY <1>i, <2>2, BoundsAssumption DEF Defs
    <3>2. \A e : top(e) = One(d = e)
      BY <2>2 DEF top, One
    <3>3. d # 0 => macros.refs[d] > 0
      <4>1. top(d) = 1
        BY <2>2 DEF top, One
      <4>2. Count(value, saves, input, d) > 0
        BY <1>c, <4>1
      <4> QED
        BY <1>t, <3>1, <4>2 DEF Exact
    <3> HIDE DEF d
    <3>4. macros' = Release(macros, d)
      BY <2>1, <2>2 DEF d
    <3>5. /\ \A e \in Defs : macros'.refs[e] = macros.refs[e] - One(e = d)
          /\ FreeInv(macros')
      BY <1>r, <3>1, <3>3, <3>4
    <3>6. ASSUME NEW e \in Defs
          PROVE  macros'.refs[e] = Count(value', saves', input', e)
      <4>1. /\ macros'.refs[e] = macros.refs[e] - One(e = d)
            /\ macros.refs[e] = Count(value, saves, input, e)
            /\ Count(value', saves', input', e)
                  = Count(value, saves, input, e) - One(d = e)
        BY <1>c, <1>t, <2>1, <3>2, <3>5 DEF Exact
      <4>2. One(e = d) = One(d = e)
        BY OneEither
      <4> QED
        BY <4>1, <4>2
    <3> QED
      BY <3>5, <3>6 DEF RecordsInv, Exact
  <2>3. CASE s.what \notin Names
    <3>1. \A e : top(e) = 0
      BY <2>3 DEF top, One
    <3>2. \A e : Count(value', saves', input', e) = Count(value, saves, input, e)
      BY <1>c, <2>1, <3>1
    <3> QED
      BY <1>t, <2>1, <2>3, <3>2 DEF RecordsInv, Exact
  <2> QED
    BY <2>2, <2>3
<1>3. CASE PutBack
  <2> DEFINE r == [kind |-> "token", of |-> s.prev]
  <2>1. /\ value' = value /\ macros' = macros /\ s.what = AfterGroup
        /\ input' = Append(input, r)
    BY <1>3 DEF PutBack, s
  <2>2. s.what \notin Names
    BY <2>1, KindsAssumption DEF Locs
  <2>3. s.prev \in Tokens
    BY <1>i, <2>1 DEF IsSave
  <2>4. r \in Frames /\ r.kind # "definition"
    BY <2>3 DEF Frames
  <2> HIDE DEF r
  <2>5. Len(saves') \in Nat
    BY <1>0, <1>s
  <2>6. \A e : Count(value, saves', input', e)
               = Count(value, saves', input, e)
                 + One(r.kind = "definition" /\ r.of = e)
    BY <1>t, <2>1, <2>4, <2>5, CountPushFrame
  <2>7. \A e : One(r.kind = "definition" /\ r.of = e) = 0 /\ top(e) = 0
    BY <2>2, <2>4 DEF One, top
  <2>8. ASSUME NEW e
        PROVE  Count(value', saves', input', e) = Count(value, saves, input, e)
    <3>1. Count(value', saves', input', e) = Count(value, saves', input', e)
      BY <2>1
    <3>2. Count(value, saves', input', e) = Count(value, saves', input, e) + 0
      BY <2>6, <2>7
    <3>3. /\ Count(value, saves', input, e)
                = Count(value, saves, input, e) - 0
          /\ Count(value, saves, input, e) \in Nat
      BY <1>c, <2>7
    <3> QED
      BY <3>1, <3>2, <3>3
  <2> QED
    BY <1>t, <2>1, <2>8 DEF RecordsInv, Exact
<1> QED
  BY <1>1, <1>2, <1>3

\* Every step, one action at a time.
LEMMA NextRecords == GroupInv /\ RecordsInv /\ [Next]_vars => RecordsInv'
<1> SUFFICES ASSUME GroupInv, RecordsInv, [Next]_vars PROVE RecordsInv'
  OBVIOUS
<1>1. ASSUME NEW x \in Boxes, EmptyBox(x) PROVE RecordsInv'
  <2>1. \A y \in Names : value'[y] = value[y]
    BY <1>1, KindsAssumption DEF EmptyBox, GroupInv, TypeOK, Locs
  <2>2. \A e : Count(value', saves, input, e) = Count(value, saves, input, e)
    BY <2>1, CountOther
  <2> QED
    BY <1>1, <2>2 DEF EmptyBox, RecordsInv, Exact
<1>2. ASSUME NEW t \in Tokens, ScanAfterGroup(t) PROVE RecordsInv'
  <2> DEFINE s == [what |-> AfterGroup, level |-> level,
                   prevLevel |-> 0, prev |-> t]
  <2>1. /\ saves' = Append(saves, s)
        /\ UNCHANGED <<value, macros, input>>
    BY <1>2 DEF ScanAfterGroup
  <2>2. s \in Saves /\ s.what \notin Names
    BY BoundsAssumption, KindsAssumption
       DEF Saves, Locs, GroupInv, TypeOK
  <2> HIDE DEF s
  <2>3. \A e : /\ Count(value, saves', input, e)
                     = Count(value, saves, input, e)
                       + One(s.what \in Names /\ s.prev = e)
               /\ Count(value, saves, input, e) \in Nat
    BY <2>1, <2>2, RecordTypes, CountPush, HoldersFinite
  <2>4. \A e : Count(value, saves', input, e) = Count(value, saves, input, e)
    BY <2>2, <2>3 DEF One
  <2> QED
    BY <2>1, <2>4 DEF RecordsInv, Exact
<1>3. CASE BeginGroup \/ EndGroup \/ Leave \/ UNCHANGED vars
  BY <1>3 DEF BeginGroup, EndGroup, Leave, vars, RecordsInv, Exact
<1> QED
  BY <1>1, <1>2, <1>3, AssignsRecords, FramesRecords, UnwindRecords DEF Next

\* For any names, texts, groups and bounds: a record is counted once for
\* every meaning, save and frame that names it, and every record that was
\* made is held by somebody or on the free list once, never both.
THEOREM RecordsAlwaysHold == Spec => []RecordsHold
<1>1. GroupInv /\ RecordsInv => RecordsHold
  <2> SUFFICES ASSUME GroupInv, RecordsInv PROVE CountsExact /\ FreeOrHeld
    BY DEF RecordsHold
  <2>t. /\ macros \in Macros /\ Len(saves) \in Nat /\ Len(input) \in Nat
        /\ macros.made \in 0 .. MaxDefs /\ Len(macros.free) \in Nat
    BY RecordTypes DEF Macros
  <2>1. \A d : Holders(d) = HoldersOf(value, saves, input, d)
    BY DEF Holders, HoldersOf
  <2>2. CountsExact
    BY <2>1 DEF CountsExact, RecordsInv, Exact, Count
  <2>3. ASSUME NEW d \in 1 .. macros.made
        PROVE  (Holders(d) = {}) = (Cardinality({i \in 1 .. Len(macros.free) :
                                                    macros.free[i] = d}) = 1)
    <3> DEFINE F == {i \in 1 .. Len(macros.free) : macros.free[i] = d}
    <3>1. d \in Defs /\ d <= macros.made
      BY <2>t, BoundsAssumption DEF Defs
    <3>2. Holders(d) = {} <=> macros.refs[d] = 0
      <4>1. IsFiniteSet(Holders(d))
        BY <2>1, <2>t, HoldersFinite
      <4>2. macros.refs[d] = Cardinality(Holders(d))
        BY <2>2, <3>1 DEF CountsExact
      <4> QED
        BY <4>1, <4>2, FS_EmptySet
    <3>3. macros.refs[d] = 0 <=> InFree(macros, d)
      BY <3>1 DEF RecordsInv, FreeInv, FreeOnce
    <3>4. InFree(macros, d) <=> \E i : F = {i}
      <4>1. ASSUME InFree(macros, d) PROVE \E i : F = {i}
        <5>1. PICK i \in 1 .. Len(macros.free) : macros.free[i] = d
          BY <4>1 DEF InFree
        <5>2. F = {i}
          BY <5>1 DEF RecordsInv, FreeInv, FreeOnce
        <5> QED
          BY <5>2
      <4>2. ASSUME \E i : F = {i} PROVE InFree(macros, d)
        BY <4>2 DEF InFree
      <4> QED
        BY <4>1, <4>2
    <3>5. Cardinality(F) = 1 <=> \E i : F = {i}
      <4>0. Len(macros.free) \in Int /\ 1 \in Int
        BY <2>t
      <4>1. IsFiniteSet(1 .. Len(macros.free))
        BY <4>0, FS_Interval
      <4>2. IsFiniteSet(F)
        BY <4>1, FS_Subset
      <4> QED
        BY <4>2, FS_Singleton
    <3> QED
      BY <3>2, <3>3, <3>4, <3>5
  <2> QED
    BY <2>2, <2>3 DEF FreeOrHeld
<1>2. Spec => []RecordsInv
  BY GroupInvariant, InitRecords, NextRecords, PTL DEF Spec
<1> QED
  BY <1>1, <1>2, GroupInvariant, PTL


-----------------------------------------------------------------------------
(* Scopes. *)


\* Live(x) and what the saves of it cover, of a given level l and saves s.
LiveIn(l, s, x) ==
    {i \in 1 .. Len(s) :
        /\ s[i].what = x /\ l # 0
        /\ \A j \in i + 1 .. Len(s) : s[j].what = x => s[j].prevLevel # 0}
CoversIn(l, s, x) ==
    {<<s[i].prevLevel, s[i].prev>> :
        i \in {j \in LiveIn(l, s, x) : s[j].prevLevel # s[j].level}}
StandsIn(l, v, s, x) == {<<l, v>>} \cup CoversIn(l, s, x)

\* What one save covers.
CoveredBy(r) == IF r.prevLevel # r.level THEN {<<r.prevLevel, r.prev>>} ELSE {}

-----------------------------------------------------------------------------
(* What the saves cover, one save at a time. *)

\* Nothing is covered by what is global; and which level covers is all one.
LEMMA CoversOfLevels ==
    ASSUME NEW s, NEW x
    PROVE  /\ CoversIn(0, s, x) = {}
           /\ \A k, l : k # 0 /\ l # 0 => CoversIn(k, s, x) = CoversIn(l, s, x)
<1>1. LiveIn(0, s, x) = {}
  BY DEF LiveIn
<1>2. \A k, l : k # 0 /\ l # 0 => LiveIn(k, s, x) = LiveIn(l, s, x)
  BY DEF LiveIn
<1> QED
  BY <1>1, <1>2 DEF CoversIn

\* A save of something else covers nothing here; one of x covers what it
\* holds, and whatever was covered then.
LEMMA CoversPush ==
    ASSUME NEW s \in Seq(Saves), NEW r \in Saves, NEW x, NEW l
    PROVE  /\ r.what # x => CoversIn(l, Append(s, r), x) = CoversIn(l, s, x)
           /\ r.what = x /\ l # 0 =>
                 CoversIn(l, Append(s, r), x)
                    = CoveredBy(r) \cup CoversIn(r.prevLevel, s, x)
<1> DEFINE t == Append(s, r)
           n == Len(s)
<1>1. /\ n \in Nat /\ Len(t) = n + 1 /\ t[n + 1] = r
      /\ \A i \in 1 .. n : t[i] = s[i]
  OBVIOUS
<1> HIDE DEF t, n
<1>n. n = Len(s)
  BY DEF n
<1>2. ASSUME r.what # x PROVE CoversIn(l, t, x) = CoversIn(l, s, x)
  <2>1. ASSUME NEW i \in 1 .. n
        PROVE  i \in LiveIn(l, t, x) <=> i \in LiveIn(l, s, x)
    <3>1. \A j \in i + 1 .. n + 1 : j = n + 1 \/ j \in i + 1 .. n
      BY <1>1
    <3>2. \A j \in i + 1 .. n : j \in i + 1 .. n + 1 /\ j \in 1 .. n
      BY <1>1
    <3> QED
      BY <1>1, <1>2, <1>n, <3>1, <3>2 DEF LiveIn
  <2>2. n + 1 \notin LiveIn(l, t, x)
    BY <1>1, <1>2 DEF LiveIn
  <2>3. LiveIn(l, t, x) \subseteq 1 .. n + 1 /\ LiveIn(l, s, x) \subseteq 1 .. n
    BY <1>1, <1>n DEF LiveIn
  <2>c. \A i \in 1 .. n + 1 : i = n + 1 \/ i \in 1 .. n
    BY <1>1
  <2>4. LiveIn(l, t, x) = LiveIn(l, s, x)
    <3>1. ASSUME NEW i PROVE i \in LiveIn(l, t, x) <=> i \in LiveIn(l, s, x)
      BY <2>c, <2>1, <2>2, <2>3
    <3> QED
      BY <3>1
  <2> QED
    BY <1>1, <2>3, <2>4 DEF CoversIn
<1>3. ASSUME r.what = x, l # 0
      PROVE  CoversIn(l, t, x) = CoveredBy(r) \cup CoversIn(r.prevLevel, s, x)
  <2>1. ASSUME NEW i \in 1 .. n
        PROVE  i \in LiveIn(l, t, x) <=> i \in LiveIn(r.prevLevel, s, x)
    <3>1. \A j \in i + 1 .. n + 1 : j = n + 1 \/ j \in i + 1 .. n
      BY <1>1
    <3>2. \A j \in i + 1 .. n : j \in i + 1 .. n + 1 /\ j \in 1 .. n
      BY <1>1
    <3>3. n + 1 \in i + 1 .. n + 1
      BY <1>1
    <3> QED
      BY <1>1, <1>3, <1>n, <3>1, <3>2, <3>3 DEF LiveIn
  <2>2. n + 1 \in LiveIn(l, t, x)
    BY <1>1, <1>3 DEF LiveIn
  <2>3. LiveIn(l, t, x) \subseteq 1 .. n + 1 /\ LiveIn(r.prevLevel, s, x) \subseteq 1 .. n
    BY <1>1, <1>n DEF LiveIn
  <2>4. LiveIn(l, t, x) = LiveIn(r.prevLevel, s, x) \cup {n + 1}
    BY <1>1, <2>1, <2>2, <2>3
  <2>5. CASE r.prevLevel # r.level
    BY <1>1, <2>3, <2>4, <2>5 DEF CoversIn, CoveredBy
  <2>6. CASE r.prevLevel = r.level
    BY <1>1, <2>3, <2>4, <2>6 DEF CoversIn, CoveredBy
  <2> QED
    BY <2>5, <2>6
<1> QED
  BY <1>2, <1>3 DEF t

\* The same of the save on top, taken off.
LEMMA CoversPop ==
    ASSUME NEW s \in Seq(Saves), s # <<>>, NEW x, NEW l
    PROVE  /\ Last(s).what # x => CoversIn(l, s, x) = CoversIn(l, Front(s), x)
           /\ Last(s).what = x /\ l # 0 =>
                 CoversIn(l, s, x)
                    = CoveredBy(Last(s)) \cup CoversIn(Last(s).prevLevel, Front(s), x)
<1> DEFINE t == Front(s)
           r == Last(s)
<1>1. t \in Seq(Saves) /\ r \in Saves /\ s = Append(t, r)
  BY FrontIs
<1> HIDE DEF t, r
<1>2. /\ r.what # x => CoversIn(l, Append(t, r), x) = CoversIn(l, t, x)
      /\ r.what = x /\ l # 0 => CoversIn(l, Append(t, r), x)
                                   = CoveredBy(r) \cup CoversIn(r.prevLevel, t, x)
  BY <1>1, CoversPush
<1> QED
  BY <1>1, <1>2 DEF t, r

-----------------------------------------------------------------------------
(* What stands covers what is of lower levels. *)

\* No save of x up to the n-th is of a level above l.
Under(x, l, s, n) == l = 0 \/ \A i \in 1 .. n : s[i].what = x => s[i].level <= l

ChainOf(lv, s) ==
    /\ \A x \in Locs : Under(x, lv[x], s, Len(s))
    /\ \A i \in 1 .. Len(s) : s[i].what # AfterGroup =>
          Under(s[i].what, s[i].prevLevel, s, i - 1)

\* What stands is of a level no lower than any save of it, and so is what a
\* save would bring back.
ScopesInv == ChainOf(lev, saves)

\* Nothing is saved at the start.
LEMMA InitScopes == Init => ScopesInv
  BY DEF Init, ScopesInv, ChainOf, Under

\* A save put on the stack of what stands, or of nothing.
LEMMA ChainPush ==
    ASSUME NEW s \in Seq(Saves), NEW r \in Saves, NEW lv, ChainOf(lv, s),
           r.what # AfterGroup => /\ r.what \in Locs
                                  /\ r.prevLevel = lv[r.what],
           NEW lw, \A x \in Locs : x # r.what => lw[x] = lv[x],
           r.what \in Locs =>
              /\ lw[r.what] = r.level
              /\ \A i \in 1 .. Len(s) : s[i].level <= r.level
    PROVE  ChainOf(lw, Append(s, r))
<1> DEFINE t == Append(s, r)
           n == Len(s)
<1>1. /\ n \in Nat /\ Len(t) = n + 1 /\ t[n + 1] = r
      /\ \A i \in 1 .. n : t[i] = s[i]
  OBVIOUS
<1>r. r.level \in Nat /\ r.level <= r.level
  BY DEF Saves
<1> HIDE DEF t, n
<1>n. n = Len(s)
  BY DEF n
<1>2. ASSUME NEW x \in Locs PROVE Under(x, lw[x], t, n + 1)
  <2>1. Under(x, lv[x], s, n)
    BY <1>n DEF ChainOf
  <2>2. \A i \in 1 .. n + 1 : i = n + 1 \/ i \in 1 .. n
    BY <1>1
  <2>3. CASE x # r.what
    BY <1>1, <2>1, <2>2, <2>3 DEF Under
  <2>4. CASE x = r.what
    BY <1>1, <1>r, <1>n, <2>2, <2>4 DEF Under
  <2> QED
    BY <2>3, <2>4
<1>3. ASSUME NEW i \in 1 .. n + 1, t[i].what # AfterGroup
      PROVE  Under(t[i].what, t[i].prevLevel, t, i - 1)
  <2>1. CASE i = n + 1
    <3>1. Under(r.what, r.prevLevel, s, n)
      BY <1>1, <1>3, <1>n, <2>1 DEF ChainOf
    <3> QED
      BY <1>1, <2>1, <3>1 DEF Under
  <2>2. CASE i \in 1 .. n
    <3>1. Under(s[i].what, s[i].prevLevel, s, i - 1)
      BY <1>1, <1>3, <1>n, <2>2 DEF ChainOf
    <3>2. \A j \in 1 .. i - 1 : j \in 1 .. n
      BY <1>1, <2>2
    <3> QED
      BY <1>1, <2>2, <3>1, <3>2 DEF Under
  <2> QED
    BY <1>1, <2>1, <2>2
<1> QED
  BY <1>1, <1>2, <1>3 DEF ChainOf, t

\* The save on top taken off.
LEMMA ChainPop ==
    ASSUME NEW s \in Seq(Saves), s # <<>>, NEW lv, ChainOf(lv, s),
           NEW lw,
           \A x \in Locs : \/ lw[x] = lv[x]
                           \/ /\ Last(s).what = x /\ x # AfterGroup
                              /\ lw[x] = Last(s).prevLevel
    PROVE  ChainOf(lw, Front(s))
<1> DEFINE t == Front(s)
           r == Last(s)
           n == Len(t)
<1>1. t \in Seq(Saves) /\ r \in Saves /\ s = Append(t, r)
  BY FrontIs
<1>2. /\ n \in Nat /\ Len(s) = n + 1 /\ s[n + 1] = r
      /\ \A i \in 1 .. n : t[i] = s[i]
  <2> HIDE DEF t, r
  <2> QED
    BY <1>1
<1> HIDE DEF t, r
<1>i. /\ \A i \in 1 .. n : i \in 1 .. n + 1
      /\ n + 1 \in 1 .. n + 1 /\ (n + 1) - 1 = n
  BY <1>2
<1>3. ASSUME NEW x \in Locs PROVE Under(x, lw[x], t, n)
  <2>1. Under(x, lv[x], s, n + 1)
    BY <1>2 DEF ChainOf
  <2>2. CASE lw[x] = lv[x]
    BY <1>2, <1>i, <2>1, <2>2 DEF Under
  <2>3. CASE r.what = x /\ x # AfterGroup /\ lw[x] = r.prevLevel
    <3>1. Under(x, r.prevLevel, s, n)
      BY <1>2, <1>i, <2>3 DEF ChainOf
    <3> QED
      BY <1>2, <2>3, <3>1 DEF Under
  <2> QED
    BY <2>2, <2>3 DEF r
<1>4. ASSUME NEW i \in 1 .. n, t[i].what # AfterGroup
      PROVE  Under(t[i].what, t[i].prevLevel, t, i - 1)
  <2>1. Under(s[i].what, s[i].prevLevel, s, i - 1)
    BY <1>2, <1>i, <1>4 DEF ChainOf
  <2>2. \A j \in 1 .. i - 1 : j \in 1 .. n
    BY <1>2
  <2> QED
    BY <1>2, <2>1, <2>2 DEF Under
<1> QED
  BY <1>3, <1>4 DEF ChainOf, t

\* An assignment: what stands at x afterwards, and what was put by for it.
Placed(x, d, prefix) ==
    /\ ~unwinding
    /\ Place(x, d, prefix)
    /\ \/ saves' = saves /\ (IsLocal(prefix) => lev[x] = level)
       \/ saves' = Saved(x) /\ IsLocal(prefix)
    /\ UNCHANGED <<level, unwinding>>

\* Every kind of assignment is one: of values,
LEMMA ValuesPlace ==
    ASSUME NEW prefix \in BOOLEAN,
           \/ \E x \in Regs, v \in Values : AssignRegister(x, v, prefix)
           \/ \E x \in Boxes, v \in Values : AssignBox(x, v, prefix)
           \/ \E v \in Settings : AssignGlobalDefs(v, prefix)
           \/ \E x \in Params, v \in Values : AssignParameter(x, v, prefix)
    PROVE  \E x \in Locs \ Names : \E d \in Held(x) : Placed(x, d, prefix)
<1>1. ASSUME NEW x \in Locs \ Names, NEW v \in Held(x),
             AssignRegister(x, v, prefix) \/ AssignParameter(x, v, prefix)
      PROVE  \E y \in Locs \ Names : \E d \in Held(y) : Placed(y, d, prefix)
  <2>1. Placed(x, v, prefix)
    BY <1>1 DEF AssignRegister, AssignParameter, SaveValue, Placed
  <2> QED
    BY <2>1
<1>3. /\ \A x \in Regs \cup Boxes \cup Params : x \in Locs \ Names /\ Held(x) = Values
      /\ GlobalDefs \in Locs \ Names /\ Settings \subseteq Held(GlobalDefs)
  BY KindsAssumption DEF Locs, Held
<1> QED
  BY <1>1, <1>3 DEF AssignBox, AssignGlobalDefs

\* and of meanings.
LEMMA AssignsPlace ==
    ASSUME GroupInv, NEW prefix \in BOOLEAN, Assign(prefix)
    PROVE  \E x \in Locs : \E d : Placed(x, d, prefix)
<1>1. ASSUME NEW x \in Names, NEW m, NEW d,
             ~unwinding, SetMeaning(m, x, d, prefix),
             UNCHANGED <<level, unwinding>>
      PROVE  \E y \in Locs : \E e : Placed(y, e, prefix)
  <2>1. Placed(x, d, prefix)
    BY <1>1 DEF SetMeaning, SaveValue, Placed
  <2> QED
    BY <2>1 DEF Locs
<1>2. CASE \E x \in Names, b \in Bodies : Define(x, b, prefix) \/ DefineRead(x, b, prefix)
  BY <1>1, <1>2 DEF Define, DefineRead
<1>3. CASE \E x, y \in Names : Let(x, y, prefix)
  BY <1>1, <1>3 DEF Let
<1> QED
  BY <1>2, <1>3, ValuesPlace DEF Assign

\* What the type invariant says of levels and saves.
LEMMA LevelTypes ==
    ASSUME GroupInv
    PROVE  /\ level \in Nat /\ lev \in [Locs -> Nat]
           /\ saves \in Seq(Saves) /\ Len(saves) \in Nat
           /\ \A x \in Locs : lev[x] <= level
           /\ \A i \in 1 .. Len(saves) :
                 /\ saves[i] \in Saves /\ IsSave(saves[i])
                 /\ saves[i].level \in 1 .. level
           /\ \A i \in 1 .. Len(saves) :
                 saves[i].what # AfterGroup =>
                    saves[i].prevLevel <= saves[i].level
<1>1. /\ level \in Nat /\ lev \in [Locs -> Nat]
      /\ saves \in Seq(Saves) /\ Len(saves) \in Nat
  BY BoundsAssumption DEF GroupInv, TypeOK
<1>2. ASSUME NEW i \in 1 .. Len(saves)
      PROVE  /\ saves[i] \in Saves /\ IsSave(saves[i])
             /\ saves[i].level \in 1 .. level
  BY <1>1, <1>2 DEF GroupInv, TypeOK, IsSave
<1>3. ASSUME NEW x \in Locs PROVE lev[x] <= level
  BY <1>1, <1>2 DEF GroupInv, StandingBacked, Backed
<1>4. ASSUME NEW i \in 1 .. Len(saves), saves[i].what # AfterGroup
      PROVE  saves[i].prevLevel <= saves[i].level
  <2>1. Backed(saves[i].what, saves[i].prevLevel, i - 1)
    BY <1>4 DEF GroupInv, SavedBacked
  <2>2. \A j \in 1 .. i - 1 : j \in 1 .. Len(saves) /\ j <= i
    BY <1>1
  <2>3. \A j \in 1 .. i - 1 : saves[j].level <= saves[i].level
    BY <2>2 DEF GroupInv, Sorted
  <2> QED
    BY <1>2, <2>1, <2>3 DEF Backed
<1> QED
  BY <1>1, <1>2, <1>3, <1>4

\* An assignment keeps what stands above what is saved.
LEMMA PlacedScopes ==
    ASSUME GroupInv, ScopesInv, NEW x \in Locs, NEW d, NEW prefix,
           Placed(x, d, prefix)
    PROVE  ScopesInv'
<1>1. /\ level \in Nat /\ lev \in [Locs -> Nat] /\ saves \in Seq(Saves)
      /\ Len(saves) \in Nat
      /\ \A i \in 1 .. Len(saves) : saves[i].level <= level
      /\ lev' = [lev EXCEPT ![x] = IF IsLocal(prefix) THEN level ELSE 0]
  BY LevelTypes DEF Placed, Place
<1>2. CASE saves' = saves
  <2>1. ASSUME NEW y \in Locs PROVE Under(y, lev'[y], saves, Len(saves))
    <3>1. CASE y # x \/ lev'[y] = lev[y]
      BY <1>1, <3>1 DEF ScopesInv, ChainOf
    <3>2. CASE y = x /\ ~IsLocal(prefix)
      BY <1>1, <3>2 DEF Under
    <3>3. CASE y = x /\ IsLocal(prefix)
      BY <1>1, <3>3 DEF Under
    <3> QED
      BY <3>1, <3>2, <3>3
  <2> QED
    BY <1>2, <2>1 DEF ScopesInv, ChainOf
<1>3. CASE saves' = Saved(x) /\ IsLocal(prefix)
  <2> DEFINE r == [what |-> x, level |-> level,
                   prevLevel |-> lev[x], prev |-> value[x]]
  <2>1. r \in Saves
    BY <1>1 DEF Saves, GroupInv, TypeOK
  <2>2. /\ r.what = x /\ r.level = level /\ r.prevLevel = lev[x]
        /\ saves' = Append(saves, r)
    BY <1>3 DEF Saved
  <2> HIDE DEF r
  <2>3. /\ \A y \in Locs : y # r.what => lev'[y] = lev[y]
        /\ lev'[r.what] = r.level
        /\ \A i \in 1 .. Len(saves) : saves[i].level <= r.level
    BY <1>1, <1>3, <2>2
  <2>4. ChainOf(lev, saves)
    BY DEF ScopesInv
  <2>5. ChainOf(lev', Append(saves, r))
    BY <1>1, <2>1, <2>2, <2>3, <2>4, ChainPush
  <2> QED
    BY <2>2, <2>5 DEF ScopesInv
<1> QED
  BY <1>2, <1>3 DEF Placed

\* Every step keeps it.
LEMMA NextScopes == GroupInv /\ ScopesInv /\ [Next]_vars => ScopesInv'
<1> SUFFICES ASSUME GroupInv, ScopesInv, [Next]_vars PROVE ScopesInv'
  OBVIOUS
<1>0. ChainOf(lev, saves) /\ saves \in Seq(Saves)
  BY LevelTypes DEF ScopesInv
<1>1. ASSUME NEW prefix \in BOOLEAN, Assign(prefix) PROVE ScopesInv'
  <2>1. PICK x \in Locs : \E d : Placed(x, d, prefix)
    BY <1>1, AssignsPlace
  <2> QED
    BY <2>1, PlacedScopes
<1>2. ASSUME NEW t \in Tokens, ScanAfterGroup(t) PROVE ScopesInv'
  <2> DEFINE r == [what |-> AfterGroup, level |-> level,
                   prevLevel |-> 0, prev |-> t]
  <2>1. /\ r \in Saves /\ r.what = AfterGroup /\ saves' = Append(saves, r)
        /\ lev' = lev
    BY <1>2, LevelTypes DEF ScanAfterGroup, Saves
  <2> HIDE DEF r
  <2>2. ChainOf(lev', Append(saves, r))
    BY <1>0, <2>1, KindsAssumption, ChainPush
  <2> QED
    BY <2>1, <2>2 DEF ScopesInv
<1>3. CASE Restore \/ LetGo \/ PutBack
  <2>1. saves # <<>> /\ saves' = Front(saves)
    BY <1>3 DEF Restore, LetGo, PutBack, Unwinds
  <2>2. \A x \in Locs : \/ lev'[x] = lev[x]
                        \/ /\ Last(saves).what = x /\ x # AfterGroup
                           /\ lev'[x] = Last(saves).prevLevel
    BY <1>3, LevelTypes DEF Restore, LetGo, PutBack
  <2>3. ChainOf(lev', Front(saves))
    BY <1>0, <2>1, <2>2, ChainPop
  <2> QED
    BY <2>1, <2>3 DEF ScopesInv
<1>4. ASSUME UNCHANGED <<lev, saves>> PROVE ScopesInv'
  BY <1>0, <1>4 DEF ScopesInv
<1>5. CASE \/ \E x \in Boxes : EmptyBox(x)
           \/ \E x \in Names : Call(x)
           \/ PopFrame \/ BeginGroup \/ EndGroup \/ Leave
           \/ UNCHANGED vars
  BY <1>4, <1>5
     DEF EmptyBox, Call, PopFrame, BeginGroup, EndGroup, Leave, vars
<1> QED
  BY <1>1, <1>2, <1>3, <1>5 DEF Next

-----------------------------------------------------------------------------
(* A text stands as long as somebody holds its record. *)

\* Taking a reference changes no text.
LEMMA RetainTexts ==
    ASSUME NEW m \in Macros, NEW d \in 0 .. MaxDefs
    PROVE  Retain(m, d).body = m.body
<1>1. CASE d = 0
  BY <1>1 DEF Retain
<1>2. CASE d # 0
  <2>1. Retain(m, d) = [m EXCEPT !.refs = [m.refs EXCEPT ![d] = @ + 1]]
    BY <1>2 DEF Retain, Macros
  <2> QED
    BY <2>1 DEF Macros
<1> QED
  BY <1>1, <1>2

\* Letting one go changes none that is held still.
LEMMA ReleaseTexts ==
    ASSUME NEW m \in Macros, NEW d \in 0 .. MaxDefs, NEW e \in Defs,
           Release(m, d).refs[e] > 0
    PROVE  Release(m, d).body[e] = m.body[e]
<1>1. CASE d = 0 \/ m.refs[d] = 0
  BY <1>1 DEF Release
<1>2. CASE ~(d = 0 \/ m.refs[d] = 0)
  <2>1. d \in Defs /\ m.refs \in [Defs -> Nat]
        /\ m.body \in [Defs -> Bodies \cup {"cleared"}]
    BY <1>2, BoundsAssumption DEF Defs, Macros
  <2>2. CASE m.refs[d] > 1
    <3>1. Release(m, d) = [m EXCEPT !.refs = [m.refs EXCEPT ![d] = @ - 1]]
      BY <1>2, <2>2 DEF Release, Macros
    <3> QED
      BY <3>1 DEF Macros
  <2>3. CASE ~(m.refs[d] > 1)
    <3>1. Release(m, d) = [m EXCEPT !.refs = [m.refs EXCEPT ![d] = 0],
                                    !.body = [m.body EXCEPT ![d] = "cleared"],
                                    !.free = <<d>> \o m.free]
      BY <1>2, <2>3 DEF Release, Macros
    <3>2. /\ Release(m, d).refs = [m.refs EXCEPT ![d] = 0]
          /\ Release(m, d).body = [m.body EXCEPT ![d] = "cleared"]
      BY <3>1 DEF Macros
    <3>3. e # d
      BY <2>1, <3>2
    <3> QED
      BY <2>1, <3>2, <3>3
  <2> QED
    BY <2>2, <2>3
<1> QED
  BY <1>1, <1>2

\* Nor does set_meaning.
LEMMA MeaningTexts ==
    ASSUME GroupInv, NEW m \in Macros, NEW x \in Names,
           NEW d \in 0 .. MaxDefs, NEW prefix, SetMeaning(m, x, d, prefix),
           NEW e \in Defs, macros'.refs[e] > 0
    PROVE  macros'.body[e] = m.body[e]
<1>1. value[x] \in 0 .. MaxDefs
  BY RecordTypes
<1>2. Retain(m, d) \in Macros /\ Retain(m, d).body = m.body
  BY RetainType, RetainTexts
<1>3. macros' = Retain(m, d) \/ macros' = Release(Retain(m, d), value[x])
  BY DEF SetMeaning
<1> QED
  BY <1>1, <1>2, <1>3, ReleaseTexts

\* A record that is handed out gets its text, and the others keep theirs.
LEMMA NewTexts ==
    ASSUME NEW m \in Macros, FreeInv(m), NEW b \in Bodies, NEW e \in Defs
    PROVE  /\ m.free # <<>> =>
                /\ Reused(m, Head(m.free), b).body[Head(m.free)] = b
                /\ m.refs[e] > 0 =>
                      Reused(m, Head(m.free), b).body[e] = m.body[e]
           /\ m.made < MaxDefs =>
                /\ Made(m, b).body[m.made + 1] = b
                /\ m.refs[e] > 0 => Made(m, b).body[e] = m.body[e]
<1>t. m.body \in [Defs -> Bodies \cup {"cleared"}] /\ m.refs \in [Defs -> Nat]
      /\ m.free \in Seq(Defs) /\ m.made \in Nat
  BY DEF Macros
<1>1. ASSUME m.free # <<>>
      PROVE  /\ Reused(m, Head(m.free), b).body[Head(m.free)] = b
             /\ m.refs[e] > 0 =>
                   Reused(m, Head(m.free), b).body[e] = m.body[e]
  <2> DEFINE d == Head(m.free)
  <2>1. d \in Defs /\ d = m.free[1] /\ 1 \in 1 .. Len(m.free)
    BY <1>1, <1>t
  <2>2. m.refs[d] = 0
    BY <2>1 DEF FreeInv, FreeOnce, InFree
  <2>3. Reused(m, d, b).body = [m.body EXCEPT ![d] = b]
    BY <2>1 DEF Reused, Macros
  <2> HIDE DEF d
  <2>4. m.refs[e] > 0 => e # d
    BY <2>2
  <2>5. /\ Reused(m, d, b).body[d] = b
        /\ m.refs[e] > 0 => Reused(m, d, b).body[e] = m.body[e]
    BY <1>t, <2>1, <2>3, <2>4
  <2> QED
    BY <2>5 DEF d
<1>2. ASSUME m.made < MaxDefs
      PROVE  /\ Made(m, b).body[m.made + 1] = b
             /\ m.refs[e] > 0 => Made(m, b).body[e] = m.body[e]
  <2>1. m.made + 1 \in Defs /\ m.made + 1 > m.made
    BY <1>2, <1>t, BoundsAssumption DEF Defs
  <2>2. m.refs[m.made + 1] = 0
    BY <2>1 DEF FreeInv, FreeOnce
  <2>3. Made(m, b).body = [m.body EXCEPT ![m.made + 1] = b]
    BY DEF Made, Macros
  <2> QED
    BY <1>t, <2>1, <2>2, <2>3
<1> QED
  BY <1>1, <1>2

\* No step changes the text of a record that was held and is held still.
TextsStand ==
    \A d \in Defs : macros.refs[d] > 0 /\ macros'.refs[d] > 0 =>
                       macros'.body[d] = macros.body[d]

LEMMA TextsAreKept ==
    ASSUME GroupInv, RecordsInv, [Next]_vars
    PROVE  TextsStand
<1>t. /\ macros \in Macros /\ FreeInv(macros)
      /\ \A x \in Names : value[x] \in 0 .. MaxDefs
      /\ input \in Seq(Frames) /\ saves \in Seq(Saves)
  BY RecordTypes DEF RecordsInv
<1> SUFFICES ASSUME NEW d \in Defs, macros.refs[d] > 0, macros'.refs[d] > 0
             PROVE  macros'.body[d] = macros.body[d]
  BY DEF TextsStand
<1>1. ASSUME NEW prefix \in BOOLEAN, NEW x \in Names, NEW b \in Bodies,
             Define(x, b, prefix) \/ DefineRead(x, b, prefix)
      PROVE  macros'.body[d] = macros.body[d]
  <2>1. CASE /\ macros.made < MaxDefs
             /\ SetMeaning(Made(macros, b), x, macros.made + 1, prefix)
    BY <1>t, <2>1, MadeType, MeaningTexts, NewTexts
  <2>2. CASE /\ macros.free # <<>>
             /\ SetMeaning(Reused(macros, Head(macros.free), b), x,
                           Head(macros.free), prefix)
    BY <1>t, <2>2, ReusedType, MeaningTexts, NewTexts
  <2> QED
    BY <1>1, <2>1, <2>2 DEF Define, DefineRead
<1>2. ASSUME NEW prefix \in BOOLEAN, NEW x \in Names, NEW y \in Names,
             Let(x, y, prefix)
      PROVE  macros'.body[d] = macros.body[d]
  BY <1>t, <1>2, MeaningTexts DEF Let
<1>3. ASSUME NEW x \in Names, Call(x) PROVE macros'.body[d] = macros.body[d]
  BY <1>t, <1>3, RetainTexts DEF Call
<1>4. CASE PopFrame
  <2>1. Last(input) \in Frames
    BY <1>t, <1>4, FrontIs DEF PopFrame
  <2>2. Last(input).kind = "definition" => Last(input).of \in 0 .. MaxDefs
    BY <2>1, BoundsAssumption DEF Frames, Defs
  <2> QED
    BY <1>t, <1>4, <2>2, ReleaseTexts DEF PopFrame
<1>5. CASE Restore \/ LetGo
  <2>1. Last(saves) \in Saves /\ IsSave(Last(saves))
    <3>1. Last(saves) = saves[Len(saves)] /\ Len(saves) \in 1 .. Len(saves)
      BY <1>t, <1>5 DEF Last, Restore, LetGo, Unwinds
    <3> QED
      BY <3>1, LevelTypes
  <2>2. Last(saves).what \in Names => Last(saves).prev \in 0 .. MaxDefs
    BY <2>1, KindsAssumption DEF IsSave, Held, Locs
  <2> QED
    BY <1>t, <1>5, <2>2, ReleaseTexts DEF Restore, LetGo
<1>6. CASE macros' = macros
  BY <1>6
<1>7. CASE \E prefix \in BOOLEAN : Assign(prefix)
  BY <1>1, <1>2, <1>6, <1>7
     DEF Assign, AssignRegister, AssignBox, AssignGlobalDefs, AssignParameter
<1> QED
  BY <1>3, <1>4, <1>5, <1>6, <1>7
     DEF Next, EmptyBox, BeginGroup, EndGroup, Leave, ScanAfterGroup, PutBack, vars

-----------------------------------------------------------------------------
(* The bindings. *)

TextIn(body, x, v) ==
    IF x \notin Names THEN v ELSE IF v = 0 THEN "undefined" ELSE body[v]
BoundOf(lv, vl, sv, body, dep) ==
    {c \in UNION {{<<p[1], x, TextIn(body, x, p[2])>> :
                      p \in StandsIn(lv[x], vl[x], sv, x)} : x \in Locs} :
        c[1] <= dep}

\* The bindings of the groups are these.
LEMMA BoundIs ==
    /\ Bound = BoundOf(lev, value, saves, macros.body, Depth)
    /\ Bound' = BoundOf(lev', value', saves', macros'.body, Depth')
<1>1. /\ \A x : Stands(x) = StandsIn(lev[x], value[x], saves, x)
      /\ \A x : Stands(x)' = StandsIn(lev'[x], value'[x], saves', x)
  BY DEF Stands, Live, StandsIn, CoversIn, LiveIn
<1>2. /\ \A x, v : Text(x, v) = TextIn(macros.body, x, v)
      /\ \A x, v : Text(x, v)' = TextIn(macros'.body, x, v)
  BY DEF Text, TextIn
<1>3. /\ \A x : Bindings(x) = {<<p[1], x, TextIn(macros.body, x, p[2])>> :
                                  p \in StandsIn(lev[x], value[x], saves, x)}
      /\ \A x : Bindings(x)' = {<<p[1], x, TextIn(macros'.body, x, p[2])>> :
                                  p \in StandsIn(lev'[x], value'[x], saves', x)}
  BY <1>1, <1>2 DEF Bindings
<1> QED
  BY <1>3 DEF Bound, BoundOf

\* What is bound is what stands somewhere, with its text.
LEMMA BoundMembers ==
    ASSUME NEW lv, NEW vl, NEW sv, NEW body, NEW dep, NEW c
    PROVE  c \in BoundOf(lv, vl, sv, body, dep) <=>
              \E x \in Locs : \E p \in StandsIn(lv[x], vl[x], sv, x) :
                 p[1] <= dep /\ c = <<p[1], x, TextIn(body, x, p[2])>>
  BY DEF BoundOf

\* A record that a save names is held.
LEMMA CountedSave ==
    ASSUME NEW v, NEW s, NEW f, Len(s) \in Nat, Len(f) \in Nat,
           NEW i \in 1 .. Len(s), s[i].what \in Names
    PROVE  Count(v, s, f, s[i].prev) > 0
<1>1. <<"save", i>> \in HoldersOf(v, s, f, s[i].prev)
  BY DEF HoldersOf
<1>2. /\ IsFiniteSet(HoldersOf(v, s, f, s[i].prev))
      /\ Cardinality(HoldersOf(v, s, f, s[i].prev)) \in Nat
  BY HoldersFinite DEF Count
<1>3. Cardinality(HoldersOf(v, s, f, s[i].prev)) # 0
  BY <1>1, <1>2, FS_EmptySet
<1> QED
  BY <1>2, <1>3 DEF Count

\* What stands at a name, or is covered there, is held.
LEMMA StandingIsHeld ==
    ASSUME NEW l, NEW v, NEW s, NEW f, Len(s) \in Nat, Len(f) \in Nat,
           NEW m, \A e \in Defs : m.refs[e] = Count(v, s, f, e),
           NEW x \in Names, v[x] \in 0 .. MaxDefs,
           \A i \in 1 .. Len(s) : s[i].what \in Names => s[i].prev \in 0 .. MaxDefs,
           NEW p \in StandsIn(l, v[x], s, x)
    PROVE  p[2] = 0 \/ (p[2] \in Defs /\ m.refs[p[2]] > 0)
<1>1. \A d \in 0 .. MaxDefs : d = 0 \/ d \in Defs
  BY BoundsAssumption DEF Defs
<1>2. CASE p = <<l, v[x]>>
  BY <1>1, <1>2, CountedMeaning
<1>3. CASE p \in CoversIn(l, s, x)
  <2>1. PICK i \in 1 .. Len(s) : s[i].what = x /\ p = <<s[i].prevLevel, s[i].prev>>
    BY <1>3 DEF CoversIn, LiveIn
  <2>2. Count(v, s, f, s[i].prev) > 0
    BY <2>1, CountedSave
  <2>3. s[i].prev = 0 \/ s[i].prev \in Defs
    BY <1>1, <2>1
  <2> QED
    BY <2>1, <2>2, <2>3
<1> QED
  BY <1>2, <1>3 DEF StandsIn

\* The same of a state.
LEMMA StandsHeld ==
    ASSUME GroupInv, RecordsInv, NEW x \in Names,
           NEW p \in StandsIn(lev[x], value[x], saves, x)
    PROVE  p[2] = 0 \/ (p[2] \in Defs /\ macros.refs[p[2]] > 0)
<1>1. \A i \in 1 .. Len(saves) : saves[i].what \in Names => saves[i].prev \in 0 .. MaxDefs
  BY LevelTypes, KindsAssumption DEF IsSave, Held, Locs
<1> QED
  BY <1>1, RecordTypes, StandingIsHeld DEF RecordsInv, Exact

\* What stands before and after a step has one text.
LEMMA SameText ==
    ASSUME GroupInv, RecordsInv, GroupInv', RecordsInv', TextsStand,
           NEW x \in Locs, NEW p \in StandsIn(lev[x], value[x], saves, x),
           p \in StandsIn(lev'[x], value'[x], saves', x)
    PROVE  TextIn(macros'.body, x, p[2]) = TextIn(macros.body, x, p[2])
<1>1. CASE x \notin Names
  BY <1>1 DEF TextIn
<1>2. CASE x \in Names
  <2>1. p[2] = 0 \/ (p[2] \in Defs /\ macros.refs[p[2]] > 0)
    BY <1>2, StandsHeld
  <2>2. p[2] = 0 \/ (p[2] \in Defs /\ macros'.refs[p[2]] > 0)
    <3>1. /\ \A y \in Names : y \in Locs /\ Held(y)' = 0 .. MaxDefs
          /\ \A i \in 1 .. Len(saves') :
                saves'[i].what \in Names => saves'[i].prev \in 0 .. MaxDefs
      BY <1>2, KindsAssumption DEF GroupInv, TypeOK, IsSave, Held, Locs
    <3>2. /\ value'[x] \in 0 .. MaxDefs
          /\ Len(saves') \in Nat /\ Len(input') \in Nat
      <4>1. /\ \A y \in Locs : value'[y] \in Held(y)'
            /\ saves' \in Seq(Saves) /\ input' \in Seq(Frames)
        BY DEF GroupInv, TypeOK
      <4>2. value'[x] \in 0 .. MaxDefs
        BY <1>2, <3>1, <4>1, Zenon
      <4> QED
        BY <4>1, <4>2
    <3>3. \A e \in Defs : macros'.refs[e] = Count(value', saves', input', e)
      BY DEF RecordsInv, Exact
    <3> QED
      BY <1>2, <3>1, <3>2, <3>3, StandingIsHeld, ZenonT(40)
  <2> QED
    BY <2>1, <2>2 DEF TextIn, TextsStand
<1> QED
  BY <1>1, <1>2

\* What is covered is of a lower level than what stands.
LEMMA CoveredIsLower ==
    ASSUME GroupInv, ScopesInv, NEW x \in Locs
    PROVE  /\ \A p \in CoversIn(lev[x], saves, x) :
                 p[1] \in Nat /\ p[1] < lev[x]
           /\ \A p \in StandsIn(lev[x], value[x], saves, x) :
                 p[1] \in Nat /\ p[1] <= lev[x] /\ p[1] <= level
<1>1. ASSUME NEW p \in CoversIn(lev[x], saves, x)
      PROVE  p[1] \in Nat /\ p[1] < lev[x]
  <2>1. PICK i \in 1 .. Len(saves) :
           /\ saves[i].what = x /\ lev[x] # 0
           /\ p[1] = saves[i].prevLevel /\ saves[i].prevLevel # saves[i].level
    BY DEF CoversIn, LiveIn
  <2>2. saves[i].prevLevel \in Nat /\ saves[i].level \in Nat /\ lev[x] \in Nat
    BY LevelTypes DEF Saves
  <2>3. saves[i].prevLevel <= saves[i].level
    BY <2>1, KindsAssumption, LevelTypes
  <2>4. saves[i].level <= lev[x]
    BY <2>1 DEF ScopesInv, ChainOf, Under
  <2> QED
    BY <2>1, <2>2, <2>3, <2>4
<1>2. lev[x] \in Nat /\ level \in Nat /\ lev[x] <= level
  BY LevelTypes
<1> QED
  BY <1>1, <1>2 DEF StandsIn

-----------------------------------------------------------------------------
(* What a step does to the bindings. *)

\* The outset of every step.
Stepping == /\ GroupInv /\ RecordsInv /\ ScopesInv
            /\ GroupInv' /\ RecordsInv' /\ TextsStand

\* What stands within the scopes there are, before a step and after it.
Within(x) == {p \in StandsIn(lev[x], value[x], saves, x) : p[1] <= Depth}

\* Where the same stands within the same scopes, the same is bound.
LEMMA SameBound ==
    ASSUME Stepping, \A x \in Locs : Within(x)' = Within(x)
    PROVE  Bound' = Bound
<1>1. ASSUME NEW c PROVE c \in Bound' <=> c \in Bound
  <2>1. c \in Bound <=> \E x \in Locs : \E p \in Within(x) :
                           c = <<p[1], x, TextIn(macros.body, x, p[2])>>
    BY BoundIs, BoundMembers DEF Within
  <2>2. c \in Bound' <=> \E x \in Locs : \E p \in Within(x)' :
                            c = <<p[1], x, TextIn(macros'.body, x, p[2])>>
    BY BoundIs, BoundMembers DEF Within
  <2>3. \A x \in Locs : \A p \in Within(x) :
           TextIn(macros'.body, x, p[2]) = TextIn(macros.body, x, p[2])
    BY SameText DEF Stepping, Within
  <2> QED
    BY <2>1, <2>2, <2>3
<1> QED
  BY <1>1

\* Where x alone changes, with a new meaning at one level and only some of
\* the levels kept, so do its bindings.
LEMMA NewBinding ==
    ASSUME Stepping, NEW x \in Locs, NEW l \in Nat, l <= Depth', NEW d, NEW K,
           \A y \in Locs : y # x => Within(y)' = Within(y),
           Within(x)' = {p \in Within(x) : p[1] \in K} \cup {<<l, d>>}
    PROVE  Bound' = {c \in Bound : c[2] # x \/ c[1] \in K}
                       \cup {<<l, x, TextIn(macros'.body, x, d)>>}
<1>1. \A c : c \in Bound <=> \E y \in Locs : \E p \in Within(y) :
                                c = <<p[1], y, TextIn(macros.body, y, p[2])>>
  BY BoundIs, BoundMembers DEF Within
<1>2. \A c : c \in Bound' <=> \E y \in Locs : \E p \in Within(y)' :
                                 c = <<p[1], y, TextIn(macros'.body, y, p[2])>>
  BY BoundIs, BoundMembers DEF Within
<1>3. \A y \in Locs : \A p \in Within(y) : p \in Within(y)' =>
         TextIn(macros'.body, y, p[2]) = TextIn(macros.body, y, p[2])
  BY SameText DEF Stepping, Within
<1> HIDE DEF Within
<1>4. ASSUME NEW c \in Bound'
      PROVE  \/ c \in Bound /\ (c[2] # x \/ c[1] \in K)
             \/ c = <<l, x, TextIn(macros'.body, x, d)>>
  <2>1. PICK y \in Locs : \E p \in Within(y)' :
               c = <<p[1], y, TextIn(macros'.body, y, p[2])>>
    BY <1>2
  <2>2. PICK p \in Within(y)' : c = <<p[1], y, TextIn(macros'.body, y, p[2])>>
    BY <2>1
  <2>3. c[1] = p[1] /\ c[2] = y
    BY <2>2
  <2>4. CASE p \in Within(y) /\ (y # x \/ p[1] \in K)
    <3>1. c = <<p[1], y, TextIn(macros.body, y, p[2])>>
      BY <1>3, <2>2, <2>4
    <3> QED
      BY <1>1, <2>3, <2>4, <3>1
  <2>5. CASE ~(p \in Within(y) /\ (y # x \/ p[1] \in K))
    <3>1. y = x /\ p = <<l, d>>
      BY <2>5
    <3> QED
      BY <2>2, <3>1
  <2> QED
    BY <2>4, <2>5
<1>5. ASSUME NEW c \in Bound, c[2] # x \/ c[1] \in K PROVE c \in Bound'
  <2>1. PICK y \in Locs : \E p \in Within(y) :
               c = <<p[1], y, TextIn(macros.body, y, p[2])>>
    BY <1>1
  <2>2. PICK p \in Within(y) : c = <<p[1], y, TextIn(macros.body, y, p[2])>>
    BY <2>1
  <2>3. c[1] = p[1] /\ c[2] = y
    BY <2>2
  <2>4. p \in Within(y)'
    BY <1>5, <2>3
  <2>5. c = <<p[1], y, TextIn(macros'.body, y, p[2])>>
    BY <1>3, <2>2, <2>4
  <2> QED
    BY <1>2, <2>4, <2>5
<1>6. <<l, x, TextIn(macros'.body, x, d)>> \in Bound'
  <2>1. <<l, d>> \in Within(x)'
    OBVIOUS
  <2> QED
    BY <1>2, <2>1
<1> QED
  BY <1>4, <1>5, <1>6

\* What x means is what stands there.
LEMMA MeaningIs ==
    ASSUME GroupInv, ScopesInv, ~unwinding, NEW x \in Locs
    PROVE  /\ Abstract!Innermost(Bound, x)
                = <<lev[x], x, TextIn(macros.body, x, value[x])>>
           /\ Abstract!Meaning(Bound, x) = TextIn(macros.body, x, value[x])
           /\ \A c \in Bound : c[2] = x /\ c[1] = lev[x] =>
                 c = <<lev[x], x, TextIn(macros.body, x, value[x])>>
<1> DEFINE found == <<lev[x], x, TextIn(macros.body, x, value[x])>>
<1>t. lev[x] \in Nat /\ level \in Nat /\ lev[x] <= level /\ Depth = level
  BY LevelTypes DEF Depth
<1>1. \A c : c \in Bound <=> \E y \in Locs : \E p \in Within(y) :
                                c = <<p[1], y, TextIn(macros.body, y, p[2])>>
  BY BoundIs, BoundMembers DEF Within
<1>2. \A p \in Within(x) : \/ p = <<lev[x], value[x]>>
                           \/ p[1] \in Nat /\ p[1] < lev[x]
  BY CoveredIsLower DEF Within, StandsIn
<1>3. <<lev[x], value[x]>> \in Within(x)
  BY <1>t DEF Within, StandsIn
<1> HIDE DEF Within
<1>4. found \in Bound /\ found[1] = lev[x] /\ found[2] = x
      /\ found[3] = TextIn(macros.body, x, value[x])
  BY <1>1, <1>3
<1>5. ASSUME NEW c \in Bound, c[2] = x
      PROVE  c = found \/ (c[1] \in Nat /\ c[1] < lev[x])
  <2>1. PICK y \in Locs : \E p \in Within(y) :
               c = <<p[1], y, TextIn(macros.body, y, p[2])>>
    BY <1>1
  <2>2. PICK p \in Within(y) : c = <<p[1], y, TextIn(macros.body, y, p[2])>>
    BY <2>1
  <2>3. c[1] = p[1] /\ y = x
    BY <1>5, <2>2
  <2> QED
    BY <1>2, <2>2, <2>3
<1> HIDE DEF found
<1>6. Abstract!Of(Bound, x) = {c \in Bound : c[2] = x}
  BY DEF Abstract!Of
<1>7. \A d \in Abstract!Of(Bound, x) : d[1] <= found[1]
  BY <1>t, <1>4, <1>5, <1>6
<1>8. ASSUME NEW c \in Abstract!Of(Bound, x),
             \A d \in Abstract!Of(Bound, x) : d[1] <= c[1]
      PROVE  c = found
  BY <1>t, <1>4, <1>5, <1>6, <1>8
<1>9. Abstract!Innermost(Bound, x) = found
  BY <1>4, <1>6, <1>7, <1>8 DEF Abstract!Innermost
<1>10. \A c \in Bound : c[2] = x /\ c[1] = lev[x] => c = found
  BY <1>t, <1>5
<1>11. Abstract!Meaning(Bound, x) = TextIn(macros.body, x, value[x])
  BY <1>4, <1>9 DEF Abstract!Meaning
<1> QED
  BY <1>9, <1>10, <1>11 DEF found

\* Levels are numbers, and of the scopes there are.
LEMMA BoundLevels ==
    ASSUME GroupInv, ScopesInv
    PROVE  /\ \A c \in Bound : c[1] \in Nat /\ c[1] <= level /\ c[1] <= Depth
           /\ \A x \in Locs : \A p \in StandsIn(lev[x], value[x], saves, x) :
                 p[1] \in Nat /\ p[1] <= level
<1>1. \A x \in Locs : \A p \in StandsIn(lev[x], value[x], saves, x) :
         p[1] \in Nat /\ p[1] <= level
  BY CoveredIsLower
<1>2. ASSUME NEW c \in Bound PROVE c[1] \in Nat /\ c[1] <= level /\ c[1] <= Depth
  <2>1. PICK x \in Locs : \E p \in StandsIn(lev[x], value[x], saves, x) :
               p[1] <= Depth /\ c = <<p[1], x, TextIn(macros.body, x, p[2])>>
    BY BoundIs, BoundMembers
  <2> QED
    BY <1>1, <2>1
<1> QED
  BY <1>1, <1>2

\* What stands once something has been placed at x.
LEMMA PlacedStands ==
    ASSUME GroupInv, ScopesInv, NEW x \in Locs, NEW d,
           NEW prefix \in BOOLEAN, Placed(x, d, prefix)
    PROVE  /\ \A y \in Locs : y # x => Within(y)' = Within(y)
           /\ IsLocal(prefix) \/ level = 0 =>
                 Within(x)' = {p \in Within(x) : p[1] \in Nat \ {level}}
                                 \cup {<<level, d>>}
           /\ ~IsLocal(prefix) =>
                 Within(x)' = {p \in Within(x) : p[1] \in {}} \cup {<<0, d>>}
<1> DEFINE r == [what |-> x, level |-> level,
                 prevLevel |-> lev[x], prev |-> value[x]]
<1>t. /\ level \in Nat /\ lev \in [Locs -> Nat] /\ lev[x] <= level
      /\ saves \in Seq(Saves) /\ r \in Saves /\ DOMAIN value = Locs
  BY LevelTypes DEF GroupInv, TypeOK, Saves
<1>r. r.what = x /\ r.level = level /\ r.prevLevel = lev[x] /\ r.prev = value[x]
  OBVIOUS
<1>s. saves' = saves \/ saves' = Append(saves, r)
  BY DEF Placed, Saved
<1> HIDE DEF r
<1>p. /\ Depth = level /\ Depth' = level
      /\ value'[x] = d /\ lev'[x] = IF IsLocal(prefix) THEN level ELSE 0
      /\ \A y \in Locs : y # x => value'[y] = value[y] /\ lev'[y] = lev[y]
  BY <1>t DEF Placed, Place, Depth
<1>l. \A p \in StandsIn(lev[x], value[x], saves, x) : p[1] \in Nat /\ p[1] <= level
  BY CoveredIsLower
<1>w. Within(x) = StandsIn(lev[x], value[x], saves, x)
  BY <1>l, <1>p DEF Within
<1>1. ASSUME NEW y \in Locs, y # x PROVE Within(y)' = Within(y)
  <2>1. CoversIn(lev[y], saves', y) = CoversIn(lev[y], saves, y)
    BY <1>t, <1>r, <1>s, <1>1, CoversPush
  <2> QED
    BY <1>p, <1>1, <2>1 DEF Within, StandsIn
<1>2. ASSUME IsLocal(prefix)
      PROVE  Within(x)' = {p \in Within(x) : p[1] \in Nat \ {level}} \cup {<<level, d>>}
  <2>0. level # 0
    BY <1>2 DEF IsLocal
  <2>1. CoversIn(level, saves', x)
           = {p \in StandsIn(lev[x], value[x], saves, x) : p[1] # level}
    <3>1. \A p \in CoversIn(lev[x], saves, x) : p[1] \in Nat /\ p[1] < lev[x]
      BY CoveredIsLower
    <3>2. CASE saves' = Append(saves, r)
      <4>1. CoversIn(level, saves', x) = CoveredBy(r) \cup CoversIn(lev[x], saves, x)
        <5>1. CoversIn(level, Append(saves, r), x)
                 = CoveredBy(r) \cup CoversIn(r.prevLevel, saves, x)
          BY <1>t, <1>r, <2>0, CoversPush
        <5> QED
          BY <1>r, <3>2, <5>1
      <4>2. CoveredBy(r) = IF lev[x] # level THEN {<<lev[x], value[x]>>} ELSE {}
        BY <1>r DEF CoveredBy
      <4>3. \A p \in CoversIn(lev[x], saves, x) : p[1] # level
        BY <1>t, <3>1
      <4> QED
        BY <4>1, <4>2, <4>3 DEF StandsIn
    <3>3. CASE saves' = saves /\ saves' # Append(saves, r)
      <4>1. lev[x] = level
        BY <1>2, <3>3 DEF Placed, Saved, r
      <4>2. \A p \in CoversIn(lev[x], saves, x) : p[1] # level
        BY <1>t, <3>1
      <4> QED
        BY <3>3, <4>1, <4>2 DEF StandsIn
    <3> QED
      BY <1>s, <3>2, <3>3
  <2>2. Within(x)' = {p \in StandsIn(level, d, saves', x) : p[1] <= level}
    BY <1>p, <1>2 DEF Within
  <2>3. StandsIn(level, d, saves', x) = {<<level, d>>} \cup CoversIn(level, saves', x)
    BY DEF StandsIn
  <2> QED
    BY <1>t, <1>w, <1>l, <2>1, <2>2, <2>3
<1>3. ASSUME ~IsLocal(prefix) PROVE Within(x)' = {<<0, d>>}
  <2>1. Within(x)' = {p \in StandsIn(0, d, saves', x) : p[1] <= level}
    BY <1>p, <1>3 DEF Within
  <2>2. StandsIn(0, d, saves', x) = {<<0, d>>}
    BY CoversOfLevels DEF StandsIn
  <2> QED
    BY <1>t, <2>1, <2>2
<1>4. ASSUME level = 0
      PROVE  Within(x)' = {p \in Within(x) : p[1] \in Nat \ {level}} \cup {<<level, d>>}
  <2>1. ~IsLocal(prefix)
    BY <1>4 DEF IsLocal
  <2>2. {p \in Within(x) : p[1] \in Nat \ {level}} = {}
    BY <1>4, <1>l, <1>w
  <2> QED
    BY <1>3, <1>4, <2>1, <2>2
<1> QED
  BY <1>1, <1>2, <1>3, <1>4

\* An assignment binds x in the innermost scope, or globally, as the prefix
\* and \globaldefs say.
LEMMA PlacedBinds ==
    ASSUME Stepping, NEW x \in Locs, NEW d, NEW prefix \in BOOLEAN,
           Placed(x, d, prefix)
    PROVE  /\ Depth' = Depth
           /\ Bound' \in Abstract!Set(Bound, x, TextIn(macros'.body, x, d))
<1> DEFINE v == TextIn(macros'.body, x, d)
<1>p. /\ Depth = level /\ Depth' = level /\ ~unwinding /\ level \in Nat
  BY LevelTypes DEF Stepping, Placed, Depth
<1>g. /\ Abstract!Meaning(Bound, GlobalDefs) = value[GlobalDefs]
      /\ value[GlobalDefs] \in Int
  <2>1. GlobalDefs \in Locs /\ GlobalDefs \notin Names
    BY KindsAssumption DEF Locs
  <2>2. value[GlobalDefs] \in Settings \cup {0}
    BY <2>1 DEF Stepping, GroupInv, TypeOK, Held
  <2>3. Abstract!Meaning(Bound, GlobalDefs)
           = TextIn(macros.body, GlobalDefs, value[GlobalDefs])
    BY <1>p, <2>1, MeaningIs DEF Stepping
  <2>4. value[GlobalDefs] \in Int
    <3>1. \A n \in Settings : n \in Int
      BY KindsAssumption
    <3> QED
      BY <2>2, <3>1
  <2> QED
    BY <2>1, <2>3, <2>4 DEF TextIn
<1>1. ASSUME IsLocal(prefix) \/ level = 0
      PROVE  Bound' = Abstract!Locally(Bound, x, v)
  <2> DEFINE K == Nat \ {level}
  <2>1. Bound' = {c \in Bound : c[2] # x \/ c[1] \in K} \cup {<<level, x, v>>}
    <3>1. /\ \A y \in Locs : y # x => Within(y)' = Within(y)
          /\ Within(x)' = {p \in Within(x) : p[1] \in K} \cup {<<level, d>>}
      BY <1>1, PlacedStands DEF Stepping
    <3>2. level \in Nat /\ level <= Depth'
      BY <1>p
    <3> HIDE DEF K
    <3> QED
      BY <3>1, <3>2, NewBinding
  <2>2. \A c \in Bound : c[1] \in Nat
    BY BoundLevels DEF Stepping
  <2>3. Abstract!Locally(Bound, x, v)
           = {c \in Bound : c[1] # level \/ c[2] # x} \cup {<<level, x, v>>}
    BY <1>p DEF Abstract!Locally
  <2> HIDE DEF v
  <2> QED
    BY <2>1, <2>2, <2>3
<1>2. ASSUME ~IsLocal(prefix) PROVE Bound' = Abstract!Globally(Bound, x, v)
  <2> DEFINE K == {}
  <2>1. Bound' = {c \in Bound : c[2] # x \/ c[1] \in K} \cup {<<0, x, v>>}
    <3>1. /\ \A y \in Locs : y # x => Within(y)' = Within(y)
          /\ Within(x)' = {p \in Within(x) : p[1] \in K} \cup {<<0, d>>}
      BY <1>2, PlacedStands DEF Stepping
    <3>2. 0 \in Nat /\ 0 <= Depth'
      BY <1>p
    <3> HIDE DEF K
    <3> QED
      BY <3>1, <3>2, NewBinding
  <2>2. Abstract!Globally(Bound, x, v)
           = (Bound \ {c \in Bound : c[2] = x}) \cup {<<0, x, v>>}
    BY DEF Abstract!Globally, Abstract!Of
  <2> HIDE DEF v
  <2> QED
    BY <2>1, <2>2
<1>3. CASE AssignmentIsGlobal(prefix)
  <2>1. ~IsLocal(prefix) /\ value[GlobalDefs] >= 0
    BY <1>g, <1>3 DEF IsLocal, AssignmentIsGlobal
  <2> QED
    BY <1>p, <1>g, <1>2, <2>1 DEF Abstract!Set
<1>4. CASE ~AssignmentIsGlobal(prefix)
  <2>1. (IsLocal(prefix) \/ level = 0) /\ value[GlobalDefs] <= 0
    BY <1>g, <1>4 DEF IsLocal, AssignmentIsGlobal
  <2> QED
    BY <1>p, <1>g, <1>1, <2>1 DEF Abstract!Set
<1> QED
  BY <1>3, <1>4

\* An emptied box is void where it was found.
LEMMA EmptiedBinds ==
    ASSUME Stepping, NEW x \in Boxes, EmptyBox(x)
    PROVE  Depth' = Depth /\ Bound' = Abstract!Use(Bound, x)
<1> DEFINE K == Nat \ {lev[x]}
           found == <<lev[x], x, TextIn(macros.body, x, value[x])>>
<1>x. x \in Locs /\ x \notin Names
  BY KindsAssumption DEF Locs
<1>p. /\ Depth = level /\ Depth' = level /\ ~unwinding
      /\ lev[x] \in Nat /\ lev[x] <= level /\ level \in Nat
      /\ value'[x] = Void /\ \A y \in Locs : y # x => value'[y] = value[y]
      /\ lev' = lev /\ saves' = saves
  BY <1>x, LevelTypes DEF Stepping, GroupInv, TypeOK, EmptyBox, Depth
<1>1. \A y \in Locs : y # x => Within(y)' = Within(y)
  BY <1>p DEF Within
<1>2. Within(x)' = {p \in Within(x) : p[1] \in K} \cup {<<lev[x], Void>>}
  <2>1. /\ \A p \in CoversIn(lev[x], saves, x) : p[1] \in Nat /\ p[1] < lev[x]
        /\ \A p \in CoversIn(lev[x], saves, x) : p[1] <= Depth
    BY <1>x, <1>p, CoveredIsLower DEF Stepping
  <2>2. Within(x)' = {<<lev[x], Void>>} \cup CoversIn(lev[x], saves, x)
    BY <1>p, <2>1 DEF Within, StandsIn
  <2>3. Within(x) = {<<lev[x], value[x]>>} \cup CoversIn(lev[x], saves, x)
    BY <1>p, <2>1 DEF Within, StandsIn
  <2>4. \A p \in CoversIn(lev[x], saves, x) : p[1] \in K
    BY <1>p, <2>1
  <2> QED
    BY <2>2, <2>3, <2>4
<1>3. Bound' = {c \in Bound : c[2] # x \/ c[1] \in K}
                  \cup {<<lev[x], x, TextIn(macros'.body, x, Void)>>}
  <2>1. lev[x] \in Nat /\ lev[x] <= Depth'
    BY <1>p
  <2> HIDE DEF K
  <2> QED
    BY <1>x, <1>1, <1>2, <2>1, NewBinding
<1>4. TextIn(macros'.body, x, Void) = Void
  BY <1>x DEF TextIn
<1>5. /\ Abstract!Innermost(Bound, x) = found
      /\ \A c \in Bound : c[2] = x /\ c[1] = lev[x] => c = found
  BY <1>x, <1>p, MeaningIs DEF Stepping
<1>6. \A c \in Bound : c[1] \in Nat
  BY BoundLevels DEF Stepping
<1>7. {c \in Bound : c[2] # x \/ c[1] \in K} = Bound \ {found}
  <2>1. found[1] = lev[x] /\ found[2] = x
    OBVIOUS
  <2> HIDE DEF found
  <2> QED
    BY <1>5, <1>6, <2>1
<1>8. Abstract!Use(Bound, x) = (Bound \ {found}) \cup {<<found[1], x, Void>>}
  <2> HIDE DEF found
  <2> QED
    BY <1>5 DEF Abstract!Use
<1> QED
  BY <1>p, <1>3, <1>4, <1>7, <1>8

\* While a group is left nothing comes of it that is not done already: what
\* is put back stood there all along, and what is let go was covered for
\* good.
LEMMA UnwindingBinds ==
    ASSUME Stepping, Restore \/ LetGo \/ PutBack
    PROVE  Depth' = Depth /\ Bound' = Bound
<1> DEFINE s == Last(saves)
           t == Front(saves)
<1>u. /\ unwinding /\ saves \in Seq(Saves) /\ saves # <<>> /\ s.level = level
      /\ saves' = t /\ level' = level /\ unwinding' = unwinding
  BY LevelTypes DEF Stepping, Restore, LetGo, PutBack, Unwinds
<1>t. /\ level \in Nat /\ level # 0 /\ lev \in [Locs -> Nat]
      /\ \A x \in Locs : lev[x] <= level
      /\ DOMAIN value = Locs /\ Depth = level - 1 /\ Depth' = level - 1
  BY <1>u, LevelTypes DEF Stepping, GroupInv, TypeOK, Depth
<1>s. /\ s \in Saves /\ s.prevLevel \in Nat
      /\ s.what # AfterGroup => s.what \in Locs
      /\ s.what \in Locs => s.level <= lev[s.what] \/ lev[s.what] = 0
  <2>1. s = saves[Len(saves)] /\ Len(saves) \in 1 .. Len(saves)
    BY <1>u DEF Last
  <2>2. s \in Saves
    BY <1>u, <2>1
  <2> QED
    BY <2>1, <2>2 DEF Stepping, ScopesInv, ChainOf, Under, Saves
<1>c. ASSUME NEW x, NEW l
      PROVE  /\ s.what # x => CoversIn(l, saves, x) = CoversIn(l, t, x)
             /\ s.what = x /\ l # 0 => CoversIn(l, saves, x)
                   = CoveredBy(s) \cup CoversIn(s.prevLevel, t, x)
  BY <1>u, CoversPop
<1> HIDE DEF s, t
<1>1. ASSUME NEW x \in Locs, x # s.what, value'[x] = value[x], lev'[x] = lev[x]
      PROVE  Within(x)' = Within(x)
  BY <1>t, <1>u, <1>c, <1>1 DEF Within, StandsIn
<1>2. CASE Restore
  <2>1. /\ s.what \in Locs /\ lev[s.what] = level
        /\ value' = [value EXCEPT ![s.what] = s.prev]
        /\ lev' = [lev EXCEPT ![s.what] = s.prevLevel]
    BY <1>2, <1>s DEF Restore, s
  <2>2. ASSUME NEW x \in Locs, x = s.what PROVE Within(x)' = Within(x)
    <3>1. StandsIn(lev[x], value[x], saves, x)
             = {<<level, value[x]>>} \cup CoveredBy(s) \cup CoversIn(s.prevLevel, t, x)
      BY <1>t, <1>c, <2>1, <2>2 DEF StandsIn
    <3>2. StandsIn(lev'[x], value'[x], saves', x)
             = {<<s.prevLevel, s.prev>>} \cup CoversIn(s.prevLevel, t, x)
      BY <1>t, <1>u, <2>1, <2>2 DEF StandsIn
    <3>3. \/ CoveredBy(s) = {<<s.prevLevel, s.prev>>}
          \/ CoveredBy(s) = {} /\ s.prevLevel = level
      BY <1>u DEF CoveredBy
    <3>4. ~(level <= level - 1)
      BY <1>t
    <3>5. Within(x) = {p \in StandsIn(lev[x], value[x], saves, x) : p[1] <= level - 1}
      BY <1>t DEF Within
    <3>6. Within(x)' = {p \in StandsIn(lev'[x], value'[x], saves', x) : p[1] <= level - 1}
      BY <1>t DEF Within
    <3> QED
      BY <3>1, <3>2, <3>3, <3>4, <3>5, <3>6
  <2>3. \A y \in Locs : y # s.what => Within(y)' = Within(y)
    BY <1>1, <1>t, <2>1
  <2> QED
    BY <1>t, <2>2, <2>3, SameBound
<1>3. CASE LetGo
  <2>1. /\ s.what \in Locs /\ lev[s.what] # level
        /\ value' = value /\ lev' = lev
    BY <1>3, <1>s DEF LetGo, s
  <2>2. lev[s.what] = 0
    BY <1>s, <1>t, <1>u, <2>1
  <2>3. ASSUME NEW x \in Locs, x = s.what PROVE Within(x)' = Within(x)
    BY <1>t, <2>1, <2>2, <2>3, CoversOfLevels DEF Within, StandsIn
  <2>4. \A y \in Locs : y # s.what => Within(y)' = Within(y)
    BY <1>1, <2>1
  <2> QED
    BY <1>t, <2>3, <2>4, SameBound
<1>4. CASE PutBack
  <2>1. s.what = AfterGroup /\ value' = value /\ lev' = lev
    BY <1>4 DEF PutBack, s
  <2>2. \A y \in Locs : y # s.what
    BY <2>1, KindsAssumption
  <2>3. \A y \in Locs : Within(y)' = Within(y)
    BY <1>1, <2>1, <2>2
  <2> QED
    BY <1>t, <2>3, SameBound
<1> QED
  BY <1>2, <1>3, <1>4

\* What the code places at a name is a record with a text of the document's,
\* or what another name means.
LEMMA NamesPlace ==
    ASSUME GroupInv, RecordsInv, NEW prefix \in BOOLEAN, NEW x \in Names,
           \/ \E b \in Bodies : Define(x, b, prefix) \/ DefineRead(x, b, prefix)
           \/ \E y \in Names : Let(x, y, prefix)
    PROVE  \E d \in 0 .. MaxDefs :
              /\ Placed(x, d, prefix)
              /\ \/ \E y \in Names : d = value[y]
                 \/ d \in Defs /\ (macros'.refs[d] > 0 => macros'.body[d] \in Bodies)
<1>t. macros \in Macros /\ FreeInv(macros) /\ \A y \in Names : value[y] \in 0 .. MaxDefs
  BY RecordTypes DEF RecordsInv
<1>1. ASSUME NEW m, NEW d \in 0 .. MaxDefs, ~unwinding,
             SetMeaning(m, x, d, prefix), UNCHANGED <<level, unwinding>>
      PROVE  Placed(x, d, prefix)
  BY <1>1 DEF SetMeaning, SaveValue, Placed
<1>2. ASSUME NEW m \in Macros, NEW d \in Defs, NEW b \in Bodies, m.body[d] = b,
             ~unwinding, SetMeaning(m, x, d, prefix), UNCHANGED <<level, unwinding>>
      PROVE  /\ d \in 0 .. MaxDefs /\ Placed(x, d, prefix)
             /\ macros'.refs[d] > 0 => macros'.body[d] \in Bodies
  <2>1. d \in 0 .. MaxDefs
    BY BoundsAssumption DEF Defs
  <2> QED
    BY <1>1, <1>2, <2>1, MeaningTexts
<1>3. CASE \E b \in Bodies : Define(x, b, prefix) \/ DefineRead(x, b, prefix)
  <2>1. PICK b \in Bodies : Define(x, b, prefix) \/ DefineRead(x, b, prefix)
    BY <1>3
  <2>2. ~unwinding /\ UNCHANGED <<level, unwinding>>
    BY <2>1 DEF Define, DefineRead
  <2>3. CASE /\ macros.made < MaxDefs
             /\ SetMeaning(Made(macros, b), x, macros.made + 1, prefix)
    <3>1. macros.made + 1 \in Defs
      BY <1>t, <2>3, BoundsAssumption DEF Macros, Defs
    <3>2. Made(macros, b) \in Macros /\ Made(macros, b).body[macros.made + 1] = b
      BY <1>t, <2>3, <3>1, MadeType, NewTexts
    <3> QED
      BY <1>2, <2>2, <2>3, <3>1, <3>2
  <2>4. CASE /\ macros.free # <<>>
             /\ SetMeaning(Reused(macros, Head(macros.free), b), x,
                           Head(macros.free), prefix)
    <3>1. Head(macros.free) \in Defs
      BY <1>t, <2>4 DEF Macros
    <3>2. /\ Reused(macros, Head(macros.free), b) \in Macros
          /\ Reused(macros, Head(macros.free), b).body[Head(macros.free)] = b
      BY <1>t, <2>4, <3>1, ReusedType, NewTexts
    <3> QED
      BY <1>2, <2>2, <2>4, <3>1, <3>2
  <2> QED
    BY <2>1, <2>3, <2>4 DEF Define, DefineRead
<1>4. CASE \E y \in Names : Let(x, y, prefix)
  BY <1>1, <1>4, <1>t DEF Let
<1> QED
  BY <1>3, <1>4

\* So an assignment binds what the document says.
Assignable == [x \in Locs \ Names |-> Held(x)]

LEMMA AssignsBind ==
    ASSUME Stepping, NEW prefix \in BOOLEAN, Assign(prefix)
    PROVE  Abstract!Assigns(Assignable, Boxes, Names, Bodies)
<1>1. ASSUME NEW x \in Locs \ Names, NEW d \in Held(x), Placed(x, d, prefix)
      PROVE  Abstract!Assigns(Assignable, Boxes, Names, Bodies)
  <2>1. Depth' = Depth /\ Bound' \in Abstract!Set(Bound, x, TextIn(macros'.body, x, d))
    BY <1>1, PlacedBinds
  <2>2. TextIn(macros'.body, x, d) = d
    BY DEF TextIn
  <2>3. x \in DOMAIN Assignable /\ Assignable[x] = Held(x)
    BY DEF Assignable
  <2>4. Bound' \in UNION {Abstract!Set(Bound, x, v) : v \in Assignable[x]}
    BY <2>1, <2>2, <2>3
  <2>5. Bound' \in UNION {UNION {Abstract!Set(Bound, y, v) : v \in Assignable[y]} :
                            y \in DOMAIN Assignable}
    BY <2>3, <2>4
  <2>6. Bound' \in Abstract!Assigned(Bound, Assignable, Boxes, Names, Bodies)
    BY <2>5 DEF Abstract!Assigned
  <2> QED
    BY <2>1, <2>6 DEF Abstract!Assigns
<1>2. ASSUME NEW x \in Names,
             \/ \E b \in Bodies : Define(x, b, prefix) \/ DefineRead(x, b, prefix)
             \/ \E y \in Names : Let(x, y, prefix)
      PROVE  Abstract!Assigns(Assignable, Boxes, Names, Bodies)
  <2>1. PICK d \in 0 .. MaxDefs :
           /\ Placed(x, d, prefix)
           /\ \/ \E y \in Names : d = value[y]
              \/ d \in Defs /\ (macros'.refs[d] > 0 => macros'.body[d] \in Bodies)
    BY <1>2, NamesPlace DEF Stepping
  <2> DEFINE v == TextIn(macros'.body, x, d)
  <2>2. x \in Locs /\ value'[x] = d
    BY <2>1 DEF Locs, Placed, Place, Stepping, GroupInv, TypeOK
  <2>3. Depth' = Depth /\ Bound' \in Abstract!Set(Bound, x, v)
    BY <2>1, <2>2, PlacedBinds
  <2>4. d = 0 \/ (d \in Defs /\ macros'.refs[d] > 0)
    <3>1. Len(saves') \in Nat /\ Len(input') \in Nat
      BY DEF Stepping, GroupInv, TypeOK
    <3>2. Count(value', saves', input', d) > 0
      BY <2>2, <3>1, CountedMeaning
    <3>3. \A e \in Defs : macros'.refs[e] = Count(value', saves', input', e)
      BY DEF Stepping, RecordsInv, Exact
    <3> QED
      BY <2>1, <3>2, <3>3, BoundsAssumption DEF Defs
  <2>5. v \in Bodies \cup {Abstract!Meaning(Bound, y) : y \in Names}
    <3>1. CASE d \in Defs /\ (macros'.refs[d] > 0 => macros'.body[d] \in Bodies)
      <4>1. d # 0
        BY <3>1, BoundsAssumption DEF Defs
      <4> QED
        BY <2>4, <3>1, <4>1 DEF TextIn
    <3>2. CASE \E y \in Names : d = value[y]
      <4>1. PICK y \in Names : d = value[y]
        BY <3>2
      <4>2. y \in Locs /\ ~unwinding
        BY <2>1 DEF Locs, Placed
      <4>3. Abstract!Meaning(Bound, y) = TextIn(macros.body, y, value[y])
        BY <4>2, MeaningIs DEF Stepping
      <4>4. d = 0 \/ (d \in Defs /\ macros.refs[d] > 0)
        <5> DEFINE p == <<lev[y], value[y]>>
        <5>1. p \in StandsIn(lev[y], value[y], saves, y) /\ p[2] = d
          BY <4>1 DEF StandsIn
        <5> HIDE DEF p
        <5> QED
          BY <5>1, StandsHeld DEF Stepping
      <4>5. v = TextIn(macros.body, y, value[y])
        BY <2>4, <4>1, <4>4 DEF TextIn, Stepping, TextsStand
      <4> QED
        BY <4>3, <4>5
    <3> QED
      BY <2>1, <3>1, <3>2
  <2> HIDE DEF v
  <2> QED
    BY <2>3, <2>5 DEF Abstract!Assigns, Abstract!Assigned
<1>3. \/ \E x \in Locs \ Names : \E d \in Held(x) : Placed(x, d, prefix)
      \/ \E x \in Names :
            \/ \E b \in Bodies : Define(x, b, prefix) \/ DefineRead(x, b, prefix)
            \/ \E y \in Names : Let(x, y, prefix)
  BY ValuesPlace DEF Assign
<1> QED
  BY <1>1, <1>2, <1>3

\* What each step does to the bindings: an assignment and the use of a box
\* assign, a group opens and closes, and the others do nothing.
Quiet == \/ \E x \in Names : Call(x)
         \/ \E t \in Tokens : ScanAfterGroup(t)
         \/ PopFrame \/ Leave \/ Restore \/ LetGo \/ PutBack
         \/ UNCHANGED vars

LEMMA StepsBind ==
    ASSUME Stepping
    PROVE  /\ \A prefix \in BOOLEAN : Assign(prefix) =>
                 Abstract!Assigns(Assignable, Boxes, Names, Bodies)
           /\ \A x \in Boxes : EmptyBox(x) =>
                 Abstract!Assigns(Assignable, Boxes, Names, Bodies)
           /\ BeginGroup => Abstract!Opens
           /\ EndGroup => Abstract!Closes
           /\ Quiet => UNCHANGED <<Depth, Bound>>
<1>t. /\ level \in Nat /\ \A c \in Bound : c[1] \in Nat /\ c[1] <= level
      /\ unwinding \in BOOLEAN /\ (unwinding => level # 0)
      /\ \A x \in Locs : \A p \in StandsIn(lev[x], value[x], saves, x) :
            p[1] \in Nat /\ p[1] <= level
  BY BoundLevels, LevelTypes DEF Stepping, GroupInv, TypeOK
<1>1. ASSUME NEW prefix \in BOOLEAN, Assign(prefix)
      PROVE  Abstract!Assigns(Assignable, Boxes, Names, Bodies)
  BY <1>1, AssignsBind
<1>2. ASSUME NEW x \in Boxes, EmptyBox(x)
      PROVE  Abstract!Assigns(Assignable, Boxes, Names, Bodies)
  <2>2. Depth' = Depth /\ Bound' = Abstract!Use(Bound, x)
    BY <1>2, EmptiedBinds
  <2>3. Bound' \in Abstract!Assigned(Bound, Assignable, Boxes, Names, Bodies)
    BY <2>2 DEF Abstract!Assigned
  <2> QED
    BY <2>2, <2>3 DEF Abstract!Assigns
<1>3. ASSUME Restore \/ LetGo \/ PutBack PROVE UNCHANGED <<Depth, Bound>>
  BY <1>3, UnwindingBinds
<1>4. ASSUME UNCHANGED <<value, lev, saves>>, Depth' = Depth
      PROVE  UNCHANGED <<Depth, Bound>>
  BY <1>4, SameBound DEF Within
<1>5. ASSUME \/ \E x \in Names : Call(x)
             \/ PopFrame \/ UNCHANGED vars
      PROVE  UNCHANGED <<Depth, Bound>>
  <2>1. UNCHANGED <<value, lev, saves, level, unwinding>>
    BY <1>5 DEF Call, PopFrame, vars
  <2> QED
    BY <1>4, <2>1 DEF Depth
<1>6. ASSUME Leave PROVE UNCHANGED <<Depth, Bound>>
  <2>1. UNCHANGED <<value, lev, saves>> /\ Depth' = Depth
    BY <1>6 DEF Leave, Depth
  <2> QED
    BY <1>4, <2>1
<1>7. ASSUME BeginGroup PROVE Abstract!Opens
  <2>1. UNCHANGED <<value, lev, saves>> /\ Depth = level /\ Depth' = level + 1
    BY <1>7 DEF BeginGroup, Depth
  <2>2. \A x \in Locs : Within(x)' = Within(x)
    BY <1>t, <2>1 DEF Within
  <2>3. Bound' = Bound
    BY <2>2, SameBound
  <2> QED
    BY <2>1, <2>3 DEF Abstract!Opens
<1>8. ASSUME EndGroup PROVE Abstract!Closes
  <2>1. /\ UNCHANGED <<value, lev, saves, macros>>
        /\ Depth = level /\ Depth' = level - 1 /\ level # 0
    BY <1>8 DEF EndGroup, Depth
  <2>2. \A c : c \in Bound <=> c \in BoundOf(lev, value, saves, macros.body, level)
    BY <2>1, BoundIs
  <2>3. \A c : c \in Bound' <=> c \in BoundOf(lev, value, saves, macros.body, level - 1)
    BY <2>1, BoundIs
  <2>4. ASSUME NEW c PROVE c \in Bound' <=> c \in Bound /\ c[1] # level
    <3>1. ASSUME NEW x \in Locs, NEW p \in StandsIn(lev[x], value[x], saves, x)
          PROVE  p[1] <= level - 1 <=> p[1] <= level /\ p[1] # level
      BY <1>t
    <3>2. c \in Bound <=>
            \E x \in Locs : \E p \in StandsIn(lev[x], value[x], saves, x) :
               p[1] <= level /\ c = <<p[1], x, TextIn(macros.body, x, p[2])>>
      BY <2>2, BoundMembers
    <3>3. c \in Bound' <=>
            \E x \in Locs : \E p \in StandsIn(lev[x], value[x], saves, x) :
               p[1] <= level - 1 /\ c = <<p[1], x, TextIn(macros.body, x, p[2])>>
      BY <2>3, BoundMembers
    <3> QED
      BY <3>1, <3>2, <3>3
  <2>5. Bound' = {c \in Bound : c[1] # Depth}
    BY <2>1, <2>4
  <2>6. Depth > 0 /\ Depth' = Depth - 1
    BY <1>t, <2>1
  <2> QED
    BY <2>5, <2>6 DEF Abstract!Closes
<1>9. ASSUME NEW t \in Tokens, ScanAfterGroup(t)
      PROVE  UNCHANGED <<Depth, Bound>>
  <2> DEFINE r == [what |-> AfterGroup, level |-> level,
                   prevLevel |-> 0, prev |-> t]
  <2>1. /\ r \in Saves /\ r.what = AfterGroup /\ saves' = Append(saves, r)
        /\ UNCHANGED <<value, lev>> /\ Depth' = Depth /\ saves \in Seq(Saves)
    BY <1>9, LevelTypes DEF Stepping, ScanAfterGroup, Saves, Depth
  <2> HIDE DEF r
  <2>2. ASSUME NEW x \in Locs PROVE Within(x)' = Within(x)
    <3>1. r.what # x
      BY <2>1, KindsAssumption
    <3>2. CoversIn(lev[x], saves', x) = CoversIn(lev[x], saves, x)
      BY <2>1, <3>1, CoversPush
    <3> QED
      BY <2>1, <3>2 DEF Within, StandsIn
  <2> QED
    BY <2>1, <2>2, SameBound
<1> QED
  BY <1>1, <1>2, <1>3, <1>5, <1>6, <1>7, <1>8, <1>9 DEF Quiet

\* One step of the groups is one of the scopes, or none.
LEMMA NextBinds ==
    ASSUME Stepping, [Next]_vars
    PROVE  \/ Abstract!Binds(Assignable, Boxes, Names, Bodies)
           \/ UNCHANGED <<Depth, Bound>>
  BY StepsBind DEF Abstract!Binds, Next, Quiet

-----------------------------------------------------------------------------
(* What \aftergroup puts by, and what is read. *)

\* The saves there may be when l groups are open.
SavesAt(l) == {s \in Saves : s.level \in 1 .. l /\ (AtEnd(s) => s.prev \in Tokens)}

\* After and Ended of given saves s, when k scopes are open; and what one
\* save of P is to them.
AfterOf(s, k) == FlattenSeq([i \in DOMAIN s |->
                    IF AtEnd(s[i]) /\ s[i].level <= k
                    THEN <<<<s[i].level, s[i].prev>>>> ELSE <<>>])
EndedOf(s, k) == FlattenSeq([i \in DOMAIN s |->
                    IF AtEnd(s[i]) /\ s[i].level > k THEN <<s[i].prev>> ELSE <<>>])
Waits(P, k) == [s \in P |-> IF AtEnd(s) /\ s.level <= k
                            THEN <<<<s.level, s.prev>>>> ELSE <<>>]
Ends(P, k) == [s \in P |-> IF AtEnd(s) /\ s.level > k THEN <<s.prev>> ELSE <<>>]

Waiting == Nat \X Tokens

\* Both are what the saves spread to.
LEMMA AfterIs ==
    ASSUME NEW l, NEW s \in Seq(SavesAt(l)), NEW k
    PROVE  /\ AfterOf(s, k) = Spread(Waits(SavesAt(l), k), s)
           /\ EndedOf(s, k) = Spread(Ends(SavesAt(l), k), s)
           /\ Maps(Waits(SavesAt(l), k), SavesAt(l), Seq(Waiting))
           /\ Maps(Ends(SavesAt(l), k), SavesAt(l), Seq(Tokens))
<1> DEFINE P == SavesAt(l)
<1>1. \A p \in P : p.level \in Nat /\ (AtEnd(p) => p.prev \in Tokens)
  BY DEF SavesAt, Saves
<1> HIDE DEF P
<1>2. s \in Seq(P)
  BY DEF P
<1>3. \A i \in DOMAIN s : s[i] \in P
  BY <1>2
<1>4. /\ Mapped(Waits(P, k), s) = [i \in DOMAIN s |->
                    IF AtEnd(s[i]) /\ s[i].level <= k
                    THEN <<<<s[i].level, s[i].prev>>>> ELSE <<>>]
      /\ Mapped(Ends(P, k), s) = [i \in DOMAIN s |->
                    IF AtEnd(s[i]) /\ s[i].level > k THEN <<s[i].prev>> ELSE <<>>]
  BY <1>3 DEF Mapped, Waits, Ends
<1>5. Maps(Ends(P, k), P, Seq(Tokens))
  <2>1. ASSUME NEW p \in P
        PROVE  (IF AtEnd(p) /\ p.level > k THEN <<p.prev>> ELSE <<>>) \in Seq(Tokens)
    <3>1. CASE AtEnd(p)
      <4>1. p.prev \in Tokens
        BY <1>1, <3>1
      <4> QED
        BY <4>1
    <3>2. CASE ~AtEnd(p)
      BY <3>2
    <3> QED
      BY <3>1, <3>2
  <2> QED
    BY <2>1 DEF Maps, Ends
<1>6. Maps(Waits(P, k), P, Seq(Waiting))
  <2>1. ASSUME NEW p \in P
        PROVE  (IF AtEnd(p) /\ p.level <= k THEN <<<<p.level, p.prev>>>> ELSE <<>>)
                  \in Seq(Waiting)
    <3>1. CASE AtEnd(p)
      <4>1. <<p.level, p.prev>> \in Waiting
        BY <1>1, <3>1 DEF Waiting
      <4> DEFINE w == <<p.level, p.prev>>
      <4> HIDE DEF w
      <4>2. (IF AtEnd(p) /\ p.level <= k THEN <<w>> ELSE <<>>) \in Seq(Waiting)
        <5>1. w \in Waiting
          BY <4>1 DEF w
        <5> QED
          BY <5>1
      <4> QED
        BY <4>2 DEF w
    <3>2. CASE ~AtEnd(p)
      BY <3>2
    <3> QED
      BY <3>1, <3>2
  <2> QED
    BY <2>1 DEF Maps, Waits
<1> QED
  BY <1>4, <1>5, <1>6 DEF AfterOf, EndedOf, Spread, P

\* They are lists, and one save more adds what it puts by.
LEMMA AfterPush ==
    ASSUME NEW l, NEW s \in Seq(SavesAt(l)), NEW k, NEW r \in SavesAt(l)
    PROVE  /\ AfterOf(s, k) \in Seq(Waiting) /\ EndedOf(s, k) \in Seq(Tokens)
           /\ AfterOf(Append(s, r), k) =
                 IF AtEnd(r) /\ r.level <= k
                 THEN Append(AfterOf(s, k), <<r.level, r.prev>>) ELSE AfterOf(s, k)
           /\ EndedOf(Append(s, r), k) =
                 IF AtEnd(r) /\ r.level > k
                 THEN Append(EndedOf(s, k), r.prev) ELSE EndedOf(s, k)
<1> DEFINE P == SavesAt(l)
           t == Append(s, r)
           w == Waits(P, k)
           e == Ends(P, k)
<1> HIDE DEF P
<1>1. s \in Seq(P) /\ r \in P /\ t \in Seq(P)
  BY DEF P
<1> HIDE DEF t, w, e
<1>2. /\ AfterOf(s, k) = Spread(w, s) /\ EndedOf(s, k) = Spread(e, s)
      /\ AfterOf(t, k) = Spread(w, t) /\ EndedOf(t, k) = Spread(e, t)
      /\ Maps(w, P, Seq(Waiting)) /\ Maps(e, P, Seq(Tokens))
  BY <1>1, AfterIs DEF P, w, e
<1>3. AfterOf(s, k) \in Seq(Waiting) /\ EndedOf(s, k) \in Seq(Tokens)
  BY <1>1, <1>2, SpreadType
<1>4. /\ Spread(w, t) = Spread(w, s) \o w[r]
      /\ Spread(e, t) = Spread(e, s) \o e[r]
  <2>1. s \in Seq(P) /\ r \in P
    BY <1>1
  <2>m. Maps(w, P, Seq(Waiting)) /\ Maps(e, P, Seq(Tokens))
    BY <1>2
  <2>2. Spread(w, Append(s, r)) = Spread(w, s) \o w[r]
    BY <2>1, <2>m, SpreadAppend
  <2>3. Spread(e, Append(s, r)) = Spread(e, s) \o e[r]
    BY <2>1, <2>m, SpreadAppend
  <2> QED
    BY <2>2, <2>3 DEF t
<1>5. /\ w[r] = IF AtEnd(r) /\ r.level <= k THEN <<<<r.level, r.prev>>>> ELSE <<>>
      /\ e[r] = IF AtEnd(r) /\ r.level > k THEN <<r.prev>> ELSE <<>>
  BY <1>1 DEF w, e, Waits, Ends
<1>6. \A S : \A q \in Seq(S) : q \o <<>> = q /\ \A z \in S : q \o <<z>> = Append(q, z)
  OBVIOUS
<1>7. AtEnd(r) => r.prev \in Tokens /\ <<r.level, r.prev>> \in Waiting
  BY DEF SavesAt, Saves, Waiting
<1>8. AfterOf(t, k) = IF AtEnd(r) /\ r.level <= k
                      THEN Append(AfterOf(s, k), <<r.level, r.prev>>) ELSE AfterOf(s, k)
  BY <1>2, <1>3, <1>4, <1>5, <1>6, <1>7, ZenonT(40)
<1>9. EndedOf(t, k) = IF AtEnd(r) /\ r.level > k
                      THEN Append(EndedOf(s, k), r.prev) ELSE EndedOf(s, k)
  BY <1>2, <1>3, <1>4, <1>5, <1>6, <1>7
<1> QED
  BY <1>3, <1>8, <1>9 DEF t

\* What spreads to nothing everywhere.
LEMMA SpreadNothing ==
    ASSUME NEW N, NEW S, NEW g, Maps(g, N, Seq(S)), NEW s \in Seq(N),
           \A i \in 1 .. Len(s) : g[s[i]] = <<>>
    PROVE  Spread(g, s) = <<>>
<1> DEFINE Empty(u) == \A i \in 1 .. Len(u) : g[u[i]] = <<>>
           Q(n) == \A u \in Seq(N) : Len(u) = n /\ Empty(u) => Spread(g, u) = <<>>
           T == {n \in Nat : Q(n)}
<1>1. Q(0)
  <2>1. \A u \in Seq(N) : Len(u) = 0 => u = <<>>
    OBVIOUS
  <2> QED
    BY <2>1, SpreadEmpty
<1>2. ASSUME NEW n \in Nat, Q(n) PROVE Q(n + 1)
  <2> SUFFICES ASSUME NEW u \in Seq(N), Len(u) = n + 1, Empty(u)
               PROVE  Spread(g, u) = <<>>
    OBVIOUS
  <2>1. PICK v \in Seq(N), x \in N : u = Append(v, x) /\ Len(v) = n
    BY SplitLast
  <2>2. /\ \A i \in 1 .. n : i \in 1 .. n + 1 /\ u[i] = v[i]
        /\ n + 1 \in 1 .. n + 1 /\ u[n + 1] = x
    BY <2>1
  <2>3. Empty(v) /\ g[x] = <<>>
    BY <2>1, <2>2
  <2>4. Spread(g, v) = <<>>
    BY <1>2, <2>1, <2>3
  <2>5. Spread(g, u) = Spread(g, v) \o g[x]
    BY <2>1, SpreadAppend
  <2>6. <<>> \o <<>> = <<>>
    OBVIOUS
  <2> QED
    BY <2>3, <2>4, <2>5, <2>6
<1>3. Q(Len(s))
  <2> HIDE DEF Q
  <2>1. 0 \in T /\ \A n \in Nat : n \in T => n + 1 \in T
    BY <1>1, <1>2
  <2>2. Nat \subseteq T
    <3> HIDE DEF T
    <3> QED
      BY <2>1, NatInd
  <2> QED
    BY <2>2
<1> QED
  BY <1>3

\* Nothing has ended that is of a scope there is; and a scope more than the
\* saves know is nothing to them.
LEMMA NothingEnded ==
    ASSUME NEW l \in Nat, NEW s \in Seq(SavesAt(l))
    PROVE  /\ EndedOf(s, l) = <<>> /\ EndedOf(s, l + 1) = <<>>
           /\ AfterOf(s, l + 1) = AfterOf(s, l)
<1> DEFINE P == SavesAt(l)
<1>1. \A p \in P : p.level \in Nat /\ p.level <= l
  BY DEF SavesAt
<1> HIDE DEF P
<1>2. s \in Seq(P) /\ \A i \in 1 .. Len(s) : s[i] \in P
  BY DEF P
<1>3. \A p \in P : Ends(P, l)[p] = <<>> /\ Ends(P, l + 1)[p] = <<>>
  BY <1>1 DEF Ends
<1>4. Waits(P, l + 1) = Waits(P, l)
  BY <1>1 DEF Waits
<1>5. \A k : /\ EndedOf(s, k) = Spread(Ends(P, k), s)
             /\ AfterOf(s, k) = Spread(Waits(P, k), s)
             /\ Maps(Ends(P, k), P, Seq(Tokens))
  BY AfterIs DEF P
<1>6. Spread(Ends(P, l), s) = <<>> /\ Spread(Ends(P, l + 1), s) = <<>>
  BY <1>2, <1>3, <1>5, SpreadNothing
<1> QED
  BY <1>4, <1>5, <1>6

\* When a scope ends, what waited for it is what is brought, and the rest
\* waits on.
LEMMA ScopeEnds ==
    ASSUME NEW l \in Nat, NEW s \in Seq(SavesAt(l))
    PROVE  /\ EndedOf(s, l - 1) =
                 FlattenSeq([i \in DOMAIN AfterOf(s, l) |->
                    IF AfterOf(s, l)[i][1] = l THEN <<AfterOf(s, l)[i][2]>> ELSE <<>>])
           /\ AfterOf(s, l - 1) =
                 FlattenSeq([i \in DOMAIN AfterOf(s, l) |->
                    IF AfterOf(s, l)[i][1] # l THEN <<AfterOf(s, l)[i]>> ELSE <<>>])
<1> DEFINE P == SavesAt(l)
           mine == [a \in Waiting |-> IF a[1] = l THEN <<a[2]>> ELSE <<>>]
           others == [a \in Waiting |-> IF a[1] # l THEN <<a>> ELSE <<>>]
           w == Waits(P, l)
<1>1. \A p \in P : p.level \in Nat /\ p.level <= l /\ (AtEnd(p) => p.prev \in Tokens)
  BY DEF SavesAt
<1>m. Maps(mine, Waiting, Seq(Tokens)) /\ Maps(others, Waiting, Seq(Waiting))
  <2>1. ASSUME NEW a \in Waiting
        PROVE  /\ (IF a[1] = l THEN <<a[2]>> ELSE <<>>) \in Seq(Tokens)
               /\ (IF a[1] # l THEN <<a>> ELSE <<>>) \in Seq(Waiting)
    <3>1. a[2] \in Tokens
      BY DEF Waiting
    <3> QED
      BY <3>1
  <2> QED
    BY <2>1 DEF Maps
<1> HIDE DEF P, w
<1>2. s \in Seq(P)
  BY DEF P
<1>3. /\ \A k : /\ EndedOf(s, k) = Spread(Ends(P, k), s)
                /\ AfterOf(s, k) = Spread(Waits(P, k), s)
                /\ Maps(Ends(P, k), P, Seq(Tokens))
                /\ Maps(Waits(P, k), P, Seq(Waiting))
      /\ AfterOf(s, l) = Spread(w, s) /\ Maps(w, P, Seq(Waiting))
  BY AfterIs DEF P, w
<1>4. AfterOf(s, l) \in Seq(Waiting)
  BY <1>2, <1>3, SpreadType
<1> DEFINE a == AfterOf(s, l)
<1> HIDE DEF a
<1>a. a \in Seq(Waiting) /\ \A i \in DOMAIN a : a[i] \in Waiting
  BY <1>4 DEF a
<1>5. /\ Mapped(mine, a) = [i \in DOMAIN a |-> IF a[i][1] = l THEN <<a[i][2]>> ELSE <<>>]
      /\ Mapped(others, a) = [i \in DOMAIN a |-> IF a[i][1] # l THEN <<a[i]>> ELSE <<>>]
  BY <1>a DEF Mapped
<1>6. ASSUME NEW p \in P
      PROVE  /\ Spread(mine, w[p]) = Ends(P, l - 1)[p]
             /\ Spread(others, w[p]) = Waits(P, l - 1)[p]
  <2>1. CASE AtEnd(p)
    <3> DEFINE z == <<p.level, p.prev>>
    <3>1. z \in Waiting /\ z[1] = p.level /\ z[2] = p.prev
      BY <1>1, <2>1 DEF Waiting
    <3>2. w[p] = <<z>>
      BY <1>1, <2>1 DEF w, Waits
    <3>3. /\ Ends(P, l - 1)[p] = IF p.level = l THEN <<p.prev>> ELSE <<>>
          /\ Waits(P, l - 1)[p] = IF p.level # l THEN <<z>> ELSE <<>>
      BY <1>1, <2>1 DEF Ends, Waits
    <3> HIDE DEF z
    <3>4. /\ mine[z] = IF p.level = l THEN <<p.prev>> ELSE <<>>
          /\ others[z] = IF p.level # l THEN <<z>> ELSE <<>>
      BY <3>1
    <3> HIDE DEF mine, others
    <3>5. Spread(mine, <<z>>) = mine[z] /\ Spread(others, <<z>>) = others[z]
      BY <1>m, <3>1, SpreadOne
    <3> QED
      BY <3>2, <3>3, <3>4, <3>5
  <2>2. CASE ~AtEnd(p)
    <3>1. w[p] = <<>> /\ Ends(P, l - 1)[p] = <<>> /\ Waits(P, l - 1)[p] = <<>>
      BY <2>2 DEF w, Ends, Waits
    <3> QED
      BY <3>1, SpreadEmpty
  <2> QED
    BY <2>1, <2>2
<1> HIDE DEF mine, others
<1>7. Spread(mine, Spread(w, s)) = Spread(Ends(P, l - 1), s)
  <2> DEFINE f == Ends(P, l - 1)
  <2>1. Maps(f, P, Seq(Tokens)) /\ \A p \in P : Spread(mine, w[p]) = f[p]
    BY <1>3, <1>6
  <2> HIDE DEF f
  <2>2. Spread(mine, Spread(w, s)) = Spread(f, s)
    BY <1>2, <1>3, <1>m, <2>1, SpreadTwice
  <2> QED
    BY <2>2 DEF f
<1>8. Spread(others, Spread(w, s)) = Spread(Waits(P, l - 1), s)
  <2> DEFINE f == Waits(P, l - 1)
  <2>1. Maps(f, P, Seq(Waiting)) /\ \A p \in P : Spread(others, w[p]) = f[p]
    BY <1>3, <1>6
  <2> HIDE DEF f
  <2>2. Spread(others, Spread(w, s)) = Spread(f, s)
    BY <1>2, <1>3, <1>m, <2>1, SpreadTwice
  <2> QED
    BY <2>2 DEF f
<1>9. /\ EndedOf(s, l - 1) = FlattenSeq(Mapped(mine, a))
      /\ AfterOf(s, l - 1) = FlattenSeq(Mapped(others, a))
  BY <1>3, <1>7, <1>8 DEF Spread, a
<1> QED
  BY <1>5, <1>9 DEF a
-----------------------------------------------------------------------------
(* Reversing, and what is read. *)

\* What is put behind a list comes before it when it is reversed.
LEMMA ReverseIs ==
    ASSUME NEW S, NEW s \in Seq(S), NEW x \in S
    PROVE  /\ Reverse(s) \in Seq(S)
           /\ Reverse(Append(s, x)) = <<x>> \o Reverse(s)
<1>1. Reverse(s) \in Seq(S) /\ Len(Reverse(s)) = Len(s)
      /\ \A i \in 1 .. Len(s) : Reverse(s)[i] = s[Len(s) - i + 1]
  <2>1. \A i \in 1 .. Len(s) : Len(s) - i + 1 \in 1 .. Len(s)
    OBVIOUS
  <2> QED
    BY <2>1 DEF Reverse
<1> DEFINE t == Append(s, x)
           n == Len(s)
           r == Reverse(s)
           q == <<x>> \o r
           u == Reverse(t)
<1>2. /\ n \in Nat /\ t \in Seq(S) /\ Len(t) = n + 1 /\ t[n + 1] = x
      /\ \A i \in 1 .. n : t[i] = s[i]
  OBVIOUS
<1>3. u \in Seq(S) /\ Len(u) = n + 1
      /\ \A i \in 1 .. n + 1 : u[i] = t[(n + 1) - i + 1]
  <2> HIDE DEF t, n
  <2>1. \A i \in 1 .. n + 1 : (n + 1) - i + 1 \in 1 .. n + 1
    BY <1>2
  <2> QED
    BY <1>2, <2>1 DEF Reverse
<1>4. r \in Seq(S) /\ Len(r) = n /\ \A i \in 1 .. n : r[i] = s[n - i + 1]
  BY <1>1
<1> HIDE DEF r, t, u, n
<1>5. q \in Seq(S) /\ Len(q) = n + 1 /\ q[1] = x
      /\ \A i \in 1 .. n : q[i + 1] = r[i]
  BY <1>2, <1>4
<1> HIDE DEF q
<1>6. ASSUME NEW i \in 1 .. n + 1 PROVE u[i] = q[i]
  <2>1. CASE i = 1
    <3>1. u[1] = t[(n + 1) - 1 + 1] /\ (n + 1) - 1 + 1 = n + 1
      BY <1>2, <1>3, <2>1
    <3> QED
      BY <1>2, <1>5, <2>1, <3>1
  <2>2. CASE i # 1
    <3> DEFINE j == i - 1
    <3>1. j \in 1 .. n /\ i = j + 1 /\ (n + 1) - i + 1 = n - j + 1
          /\ n - j + 1 \in 1 .. n
      BY <1>2, <2>2
    <3> HIDE DEF j
    <3>2. u[i] = t[n - j + 1] /\ t[n - j + 1] = s[n - j + 1]
      BY <1>2, <1>3, <3>1
    <3>3. q[i] = r[j] /\ r[j] = s[n - j + 1]
      BY <1>4, <1>5, <3>1
    <3> QED
      BY <3>2, <3>3
  <2> QED
    BY <2>1, <2>2
<1>7. u = q
  BY <1>3, <1>5, <1>6, SeqEqual
<1> QED
  BY <1>4, <1>7 DEF r, t, u, q, n

\* What may be read.
Readable == Tokens \cup Bodies \cup {"cleared"}
Texts == [Defs -> Bodies \cup {"cleared"}]

\* What the frames f read, with these texts.
ReadOf(f, body) ==
    [i \in 1 .. Len(f) |-> IF f[i].kind = "token" THEN f[i].of ELSE body[f[i].of]]
OneRead(x, body) == IF x.kind = "token" THEN x.of ELSE body[x.of]

\* One frame more is one thing more to read.
LEMMA ReadPush ==
    ASSUME NEW f \in Seq(Frames), NEW x \in Frames, NEW body \in Texts
    PROVE  /\ ReadOf(f, body) \in Seq(Readable) /\ Len(ReadOf(f, body)) = Len(f)
           /\ OneRead(x, body) \in Readable
           /\ ReadOf(Append(f, x), body) = Append(ReadOf(f, body), OneRead(x, body))
<1>1. ASSUME NEW z \in Frames PROVE OneRead(z, body) \in Readable
  <2>1. z.kind = "token" => z.of \in Tokens
    BY DEF Frames
  <2>2. z.kind # "token" => z.of \in Defs
    BY DEF Frames
  <2>3. z.kind # "token" => body[z.of] \in Bodies \cup {"cleared"}
    BY <2>2 DEF Texts
  <2> QED
    BY <2>1, <2>3 DEF OneRead, Readable
<1>2. \A g \in Seq(Frames) :
         /\ ReadOf(g, body) = [i \in 1 .. Len(g) |-> OneRead(g[i], body)]
         /\ \A i \in 1 .. Len(g) : g[i] \in Frames
  BY DEF ReadOf, OneRead
<1> DEFINE t == Append(f, x)
           n == Len(f)
           R == ReadOf(f, body)
           U == ReadOf(t, body)
           y == OneRead(x, body)
<1>3. /\ t \in Seq(Frames) /\ n \in Nat /\ Len(t) = n + 1 /\ t[n + 1] = x
      /\ \A i \in 1 .. n : t[i] = f[i]
  OBVIOUS
<1>4. y \in Readable
  BY <1>1
<1> HIDE DEF t, n, R, U, y
<1>5. R \in Seq(Readable) /\ Len(R) = n /\ \A i \in 1 .. n : R[i] = OneRead(f[i], body)
  BY <1>1, <1>2 DEF R, n
<1>6. U \in Seq(Readable) /\ Len(U) = n + 1
      /\ \A i \in 1 .. n + 1 : U[i] = OneRead(t[i], body)
  <2>1. U = [i \in 1 .. n + 1 |-> OneRead(t[i], body)]
    BY <1>2, <1>3 DEF U
  <2>2. \A i \in 1 .. n + 1 : OneRead(t[i], body) \in Readable
    BY <1>1, <1>3
  <2> QED
    BY <1>3, <2>1, <2>2
<1>7. Append(R, y) \in Seq(Readable) /\ Len(Append(R, y)) = n + 1
      /\ Append(R, y)[n + 1] = y /\ \A i \in 1 .. n : Append(R, y)[i] = R[i]
  BY <1>4, <1>5
<1>8. ASSUME NEW i \in 1 .. n + 1 PROVE U[i] = Append(R, y)[i]
  <2>1. CASE i = n + 1
    BY <1>3, <1>6, <1>7, <2>1 DEF y
  <2>2. CASE i # n + 1
    <3>1. i \in 1 .. n
      BY <1>3, <2>2
    <3> QED
      BY <1>3, <1>5, <1>6, <1>7, <3>1
  <2> QED
    BY <2>1, <2>2
<1>9. U = Append(R, y)
  BY <1>6, <1>7, <1>8, SeqEqual
<1> QED
  BY <1>4, <1>5, <1>9 DEF t, n, R, U, y

\* A record that a frame names is held.
LEMMA CountedFrame ==
    ASSUME NEW v, NEW s, NEW f, Len(s) \in Nat, Len(f) \in Nat,
           NEW i \in 1 .. Len(f), f[i].kind = "definition"
    PROVE  Count(v, s, f, f[i].of) > 0
<1>1. <<"frame", i>> \in HoldersOf(v, s, f, f[i].of)
  BY DEF HoldersOf
<1>2. /\ IsFiniteSet(HoldersOf(v, s, f, f[i].of))
      /\ Cardinality(HoldersOf(v, s, f, f[i].of)) \in Nat
  BY HoldersFinite DEF Count
<1>3. Cardinality(HoldersOf(v, s, f, f[i].of)) # 0
  BY <1>1, <1>2, FS_EmptySet
<1> QED
  BY <1>2, <1>3 DEF Count

\* Frames that are there before a step and after it read what they read.
LEMMA ReadSame ==
    ASSUME Stepping, NEW f \in Seq(Frames),
           \A i \in 1 .. Len(f) :
              /\ i \in 1 .. Len(input) /\ f[i] = input[i]
              /\ i \in 1 .. Len(input') /\ f[i] = input'[i]
    PROVE  ReadOf(f, macros'.body) = ReadOf(f, macros.body)
<1>1. /\ Len(saves) \in Nat /\ Len(input) \in Nat
      /\ Len(saves') \in Nat /\ Len(input') \in Nat
  BY DEF Stepping, GroupInv, TypeOK
<1>2. /\ \A e \in Defs : macros.refs[e] = Count(value, saves, input, e)
      /\ \A e \in Defs : macros'.refs[e] = Count(value', saves', input', e)
  BY DEF Stepping, RecordsInv, Exact
<1>3. ASSUME NEW i \in 1 .. Len(f), f[i].kind # "token"
      PROVE  macros'.body[f[i].of] = macros.body[f[i].of]
  <2>1. f[i] \in Frames
    OBVIOUS
  <2>2. f[i].kind = "definition" /\ f[i].of \in Defs
    BY <1>3, <2>1 DEF Frames
  <2>3. input[i].kind = "definition" /\ input'[i].kind = "definition"
        /\ input[i].of = f[i].of /\ input'[i].of = f[i].of
    BY <2>2
  <2>4. Count(value, saves, input, f[i].of) > 0
    BY <1>1, <2>3, CountedFrame
  <2>5. Count(value', saves', input', f[i].of) > 0
    BY <1>1, <2>3, CountedFrame
  <2>6. macros.refs[f[i].of] > 0 /\ macros'.refs[f[i].of] > 0
    BY <1>2, <2>2, <2>4, <2>5
  <2> QED
    BY <2>2, <2>6 DEF Stepping, TextsStand
<1> QED
  BY <1>3 DEF ReadOf

\* What the types say of saves, frames and texts.
LEMMA ReadTypes ==
    ASSUME Stepping
    PROVE  /\ level \in Nat /\ saves \in Seq(SavesAt(level))
           /\ input \in Seq(Frames) /\ input' \in Seq(Frames)
           /\ macros.body \in Texts /\ macros'.body \in Texts
<1>1. /\ level \in Nat /\ saves \in Seq(Saves)
      /\ \A i \in 1 .. Len(saves) :
            saves[i] \in Saves /\ IsSave(saves[i]) /\ saves[i].level \in 1 .. level
  BY LevelTypes DEF Stepping
<1>2. \A i \in 1 .. Len(saves) : saves[i] \in SavesAt(level)
  BY <1>1 DEF SavesAt, IsSave, AtEnd
<1>3. saves \in Seq(SavesAt(level))
  BY <1>1, <1>2
<1>4. /\ input \in Seq(Frames) /\ input' \in Seq(Frames)
      /\ macros \in Macros /\ macros' \in Macros
  BY DEF Stepping, GroupInv, TypeOK
<1> QED
  BY <1>1, <1>3, <1>4 DEF Macros, Texts

\* After and Reading are these.
LEMMA ReadingIs ==
    /\ After = AfterOf(saves, Depth) /\ After' = AfterOf(saves', Depth')
    /\ Reading = ReadOf(input, macros.body) \o Reverse(EndedOf(saves, Depth))
    /\ Reading' = ReadOf(input', macros'.body) \o Reverse(EndedOf(saves', Depth'))
  BY DEF After, Ended, Reading, AfterOf, EndedOf, ReadOf

\* Where no group is being left, what is read is what the frames read.
LEMMA ReadingFrames ==
    ASSUME Stepping
    PROVE  /\ ~unwinding => Reading = ReadOf(input, macros.body)
           /\ ~unwinding /\ Depth' = Depth /\ saves' = saves =>
                 Reading' = ReadOf(input', macros'.body)
<1>t. /\ level \in Nat /\ saves \in Seq(SavesAt(level))
      /\ input \in Seq(Frames) /\ input' \in Seq(Frames)
      /\ macros.body \in Texts /\ macros'.body \in Texts
  BY ReadTypes
<1>1. \A f \in Seq(Frames), body \in Texts : ReadOf(f, body) \in Seq(Readable)
  <2> TAKE f \in Seq(Frames), body \in Texts
  <2>1. \A i \in 1 .. Len(f) : f[i] \in Frames
    OBVIOUS
  <2>2. ASSUME NEW z \in Frames
        PROVE  (IF z.kind = "token" THEN z.of ELSE body[z.of]) \in Readable
    <3>1. OneRead(z, body) \in Readable
      BY ReadPush
    <3> QED
      BY <3>1 DEF OneRead
  <2> QED
    BY <2>1, <2>2 DEF ReadOf
<1>2. \A q \in Seq(Readable) : q \o <<>> = q
  OBVIOUS
<1>3. Reverse(<<>>) = <<>>
  BY DEF Reverse
<1>4. ~unwinding => Depth = level /\ EndedOf(saves, level) = <<>>
  BY <1>t, NothingEnded DEF Depth
<1>5. ReadOf(input, macros.body) \in Seq(Readable)
      /\ ReadOf(input', macros'.body) \in Seq(Readable)
  BY <1>t, <1>1
<1> QED
  BY <1>2, <1>3, <1>4, <1>5, ReadingIs

\* Where the frames stay and what was put by stays, so does what is read.
LEMMA ReadingStays ==
    ASSUME Stepping, input' = input,
           AfterOf(saves', Depth') = AfterOf(saves, Depth),
           EndedOf(saves', Depth') = EndedOf(saves, Depth)
    PROVE  After' = After /\ Reading' = Reading
<1>1. ReadOf(input, macros'.body) = ReadOf(input, macros.body)
  BY ReadTypes, ReadSame
<1> QED
  BY <1>1, ReadingIs

\* Saves of locations are nothing to it.
LEMMA SavesReadNothing ==
    ASSUME Stepping, input' = input, Depth' = Depth,
           \/ saves' = saves
           \/ \E r \in SavesAt(level) : ~AtEnd(r) /\ saves' = Append(saves, r)
           \/ saves # <<>> /\ ~AtEnd(Last(saves)) /\ saves' = Front(saves)
    PROVE  After' = After /\ Reading' = Reading
<1>t. saves \in Seq(SavesAt(level))
  BY ReadTypes
<1>1. CASE saves' = saves
  BY <1>1, ReadingStays
<1>2. CASE \E r \in SavesAt(level) : ~AtEnd(r) /\ saves' = Append(saves, r)
  <2>1. PICK r \in SavesAt(level) : ~AtEnd(r) /\ saves' = Append(saves, r)
    BY <1>2
  <2>2. /\ AfterOf(Append(saves, r), Depth) = AfterOf(saves, Depth)
        /\ EndedOf(Append(saves, r), Depth) = EndedOf(saves, Depth)
    BY <1>t, <2>1, AfterPush
  <2> QED
    BY <2>1, <2>2, ReadingStays
<1>3. CASE saves # <<>> /\ ~AtEnd(Last(saves)) /\ saves' = Front(saves)
  <2> DEFINE t == Front(saves)
             r == Last(saves)
  <2>1. t \in Seq(SavesAt(level)) /\ r \in SavesAt(level) /\ saves = Append(t, r)
    BY <1>t, <1>3, FrontIs
  <2> HIDE DEF t, r
  <2>2. ~AtEnd(r) /\ saves' = t
    BY <1>3 DEF t, r
  <2>3. /\ AfterOf(Append(t, r), Depth) = AfterOf(t, Depth)
        /\ EndedOf(Append(t, r), Depth) = EndedOf(t, Depth)
    BY <2>1, <2>2, AfterPush
  <2> QED
    BY <2>1, <2>2, <2>3, ReadingStays
<1> QED
  BY <1>1, <1>2, <1>3

\* An assignment saves what stood, if it saves.
LEMMA AssignsRead ==
    ASSUME Stepping, NEW prefix \in BOOLEAN, Assign(prefix)
    PROVE  After' = After /\ Reading' = Reading
<1>1. PICK x \in Locs : \E d : Placed(x, d, prefix)
  BY AssignsPlace DEF Stepping
<1>2. input' = input
  BY DEF Assign, AssignRegister, AssignBox, AssignGlobalDefs, AssignParameter,
         Define, DefineRead, Let
<1>3. UNCHANGED <<level, unwinding>> /\ Depth' = Depth
  BY <1>1 DEF Placed, Depth
<1>4. CASE saves' = saves
  BY <1>2, <1>3, <1>4, SavesReadNothing
<1>5. CASE saves' = Saved(x) /\ IsLocal(prefix)
  <2> DEFINE r == [what |-> x, level |-> level,
                   prevLevel |-> lev[x], prev |-> value[x]]
  <2>1. r \in Saves /\ r.what = x /\ r.level = level
    <3>1. level \in Nat /\ lev[x] \in Nat
      BY LevelTypes DEF Stepping
    <3> QED
      BY <3>1 DEF Saves, Stepping, GroupInv, TypeOK
  <2>2. saves' = Append(saves, r)
    BY <1>5 DEF Saved
  <2> HIDE DEF r
  <2>3. level \in Nat /\ level # 0
    BY <1>5, LevelTypes DEF IsLocal, Stepping
  <2>4. ~AtEnd(r)
    BY <2>1, KindsAssumption DEF AtEnd
  <2>5. r \in SavesAt(level)
    BY <2>1, <2>3, <2>4 DEF SavesAt
  <2> QED
    BY <1>2, <1>3, <2>2, <2>4, <2>5, SavesReadNothing
<1> QED
  BY <1>1, <1>4, <1>5 DEF Placed

\* What is put back is the last of what the group's end brings: it was to be
\* read all along.
LEMMA PutBackReads ==
    ASSUME Stepping, PutBack
    PROVE  After' = After /\ Reading' = Reading
<1> DEFINE t == Front(saves)
           r == Last(saves)
           R == ReadOf(input, macros.body)
           E == EndedOf(t, Depth)
           p == r.prev
           x == [kind |-> "token", of |-> p]
<1>t. /\ level \in Nat /\ saves \in Seq(SavesAt(level)) /\ input \in Seq(Frames)
      /\ macros.body \in Texts
  BY ReadTypes
<1>1. /\ unwinding /\ saves # <<>> /\ r.level = level /\ AtEnd(r)
      /\ saves' = t /\ input' = Append(input, x) /\ macros' = macros
      /\ Depth = level - 1 /\ Depth' = Depth
  BY DEF PutBack, Unwinds, Depth, AtEnd
<1>2. t \in Seq(SavesAt(level)) /\ r \in SavesAt(level) /\ saves = Append(t, r)
  BY <1>t, <1>1, FrontIs
<1>3. p \in Tokens
  BY <1>1, <1>2 DEF SavesAt
<1>4. x \in Frames /\ OneRead(x, macros.body) = p
  BY <1>3 DEF Frames, OneRead
<1> HIDE DEF t, r, p, x, R, E
<1>5. r.level > Depth /\ ~(r.level <= Depth)
  BY <1>t, <1>1
<1>6. /\ E \in Seq(Tokens)
      /\ AfterOf(Append(t, r), Depth) = AfterOf(t, Depth)
      /\ EndedOf(Append(t, r), Depth) = Append(E, p)
  BY <1>1, <1>2, <1>5, AfterPush DEF E, p
<1>7. R \in Seq(Readable) /\ ReadOf(input', macros'.body) = Append(R, p)
  <2>1. /\ ReadOf(input, macros.body) \in Seq(Readable)
        /\ ReadOf(Append(input, x), macros.body)
              = Append(ReadOf(input, macros.body), OneRead(x, macros.body))
    BY <1>t, <1>4, ReadPush
  <2> QED
    BY <1>1, <1>4, <2>1 DEF R
<1>8. Reverse(E) \in Seq(Tokens) /\ Reverse(Append(E, p)) = <<p>> \o Reverse(E)
  BY <1>3, <1>6, ReverseIs
<1> DEFINE V == Reverse(E)
           one == <<p>>
<1>9. V \in Seq(Readable) /\ one \in Seq(Readable) /\ Append(R, p) = R \o one
  <2>1. Tokens \subseteq Readable
    BY DEF Readable
  <2>2. V \in Seq(Tokens)
    BY <1>8
  <2> HIDE DEF V
  <2>3. V \in Seq(Readable)
    BY <2>1, <2>2
  <2>4. p \in Readable
    BY <1>3, <2>1
  <2>5. one \in Seq(Readable) /\ Append(R, p) = R \o one
    BY <1>7, <2>4
  <2> QED
    BY <2>3, <2>5
<1> HIDE DEF V, one
<1>10. (R \o one) \o V = R \o (one \o V)
  BY <1>7, <1>9, Associative
<1>11. Reading = R \o (one \o V)
  <2>1. Reading = R \o Reverse(EndedOf(saves, Depth))
    BY ReadingIs DEF R
  <2> QED
    BY <1>2, <1>6, <1>8, <2>1 DEF V, one
<1>12. Reading' = (R \o one) \o V
  <2>1. Reading' = ReadOf(input', macros'.body) \o Reverse(EndedOf(saves', Depth'))
    BY ReadingIs
  <2>2. EndedOf(saves', Depth') = E
    BY <1>1 DEF E
  <2> QED
    BY <1>7, <1>9, <2>1, <2>2 DEF V
<1>13. After' = After
  BY <1>1, <1>2, <1>6, ReadingIs
<1> QED
  BY <1>10, <1>11, <1>12, <1>13

\* A group that begins is a scope that opens.
LEMMA BeginGroupOpens ==
    ASSUME Stepping, BeginGroup
    PROVE  Abstract!Open
<1>t. level \in Nat /\ saves \in Seq(SavesAt(level))
  BY ReadTypes
<1>1. /\ input' = input /\ saves' = saves
      /\ Depth = level /\ Depth' = level + 1
  BY DEF BeginGroup, Depth
<1>2. /\ AfterOf(saves, level + 1) = AfterOf(saves, level)
      /\ EndedOf(saves, level) = <<>> /\ EndedOf(saves, level + 1) = <<>>
  BY <1>t, NothingEnded
<1>3. After' = After /\ Reading' = Reading
  BY <1>1, <1>2, ReadingStays
<1> QED
  BY <1>3, StepsBind DEF Abstract!Open

\* A group that ends is a scope that closes, and brings what was put by.
LEMMA EndGroupCloses ==
    ASSUME Stepping, EndGroup
    PROVE  Abstract!Close
<1>t. level \in Nat /\ saves \in Seq(SavesAt(level)) /\ input \in Seq(Frames)
  BY ReadTypes
<1>1. /\ input' = input /\ saves' = saves /\ ~unwinding
      /\ Depth = level /\ Depth' = level - 1
  BY DEF EndGroup, Depth
<1>2. ReadOf(input, macros'.body) = ReadOf(input, macros.body)
  BY <1>t, <1>1, ReadSame
<1>3. After = AfterOf(saves, level)
  BY <1>1, ReadingIs
<1>f. /\ \A q : Abstract!FlattenSeq(q) = FlattenSeq(q)
      /\ \A q : Abstract!Reverse(q) = Reverse(q)
  BY DEF Abstract!FlattenSeq, FlattenSeq, Abstract!Reverse, Reverse
<1>4. EndedOf(saves, level - 1) = Abstract!Brought
  BY <1>t, <1>f, <1>1, <1>3, ScopeEnds DEF Abstract!Brought
<1>5. After' = FlattenSeq([i \in DOMAIN After |->
                  IF After[i][1] # Depth THEN <<After[i]>> ELSE <<>>])
  BY <1>t, <1>1, <1>3, ScopeEnds, ReadingIs, ZenonT(40)
<1>6. Reading' = Reading \o Reverse(Abstract!Brought)
  <2>1. Reading = ReadOf(input, macros.body)
    BY <1>1, ReadingFrames
  <2> QED
    BY <1>1, <1>2, <1>4, <2>1, ReadingIs
<1>7. Abstract!Closes
  BY StepsBind
<1> QED
  BY <1>f, <1>5, <1>6, <1>7 DEF Abstract!Close

\* \aftergroup puts a token by.
LEMMA AfterGroupPutsBy ==
    ASSUME Stepping, NEW t \in Tokens, ScanAfterGroup(t)
    PROVE  Abstract!PutBy(t)
<1> DEFINE r == [what |-> AfterGroup, level |-> level, prevLevel |-> 0, prev |-> t]
<1>t. level \in Nat /\ saves \in Seq(SavesAt(level)) /\ input \in Seq(Frames)
  BY ReadTypes
<1>1. /\ input' = input /\ level # 0 /\ Depth = level /\ Depth' = level
      /\ saves' = Append(saves, r)
  BY DEF ScanAfterGroup, Depth
<1>2. AtEnd(r) /\ r.level = level /\ r.prev = t
  BY DEF AtEnd
<1>3. r \in SavesAt(level)
  BY <1>t, <1>1 DEF SavesAt, Saves, AtEnd
<1> HIDE DEF r
<1>4. /\ AfterOf(Append(saves, r), level) = Append(AfterOf(saves, level), <<level, t>>)
      /\ EndedOf(Append(saves, r), level) = EndedOf(saves, level)
  <2>1. level <= level /\ ~(level > level)
    BY <1>t
  <2> QED
    BY <1>t, <1>2, <1>3, <2>1, AfterPush
<1>5. After' = Append(After, <<Depth, t>>)
  BY <1>1, <1>4, ReadingIs
<1>6. Reading' = Reading
  <2>1. ReadOf(input, macros'.body) = ReadOf(input, macros.body)
    BY <1>t, <1>1, ReadSame
  <2> QED
    BY <1>1, <1>4, <2>1, ReadingIs
<1>7. UNCHANGED <<Depth, Bound>>
  BY StepsBind DEF Quiet
<1>8. Depth > 0
  BY <1>t, <1>1
<1> QED
  BY <1>5, <1>6, <1>7, <1>8 DEF Abstract!PutBy

\* A call reads the text its name was given.
LEMMA CallReads ==
    ASSUME Stepping, NEW x \in Names, Call(x)
    PROVE  Abstract!Call(x)
<1> DEFINE f == [kind |-> "definition", of |-> value[x]]
<1>t. /\ input \in Seq(Frames) /\ macros.body \in Texts /\ macros'.body \in Texts
      /\ level \in Nat /\ saves \in Seq(SavesAt(level))
  BY ReadTypes
<1>x. x \in Locs /\ value[x] \in Defs /\ macros \in Macros
  <2>1. value[x] \in 0 .. MaxDefs /\ value[x] # 0
    BY RecordTypes DEF Stepping, Call
  <2> QED
    BY <2>1, BoundsAssumption DEF Defs, Locs, Stepping, GroupInv, TypeOK
<1>1. /\ ~unwinding /\ saves' = saves /\ Depth' = Depth
      /\ input' = Append(input, f) /\ macros' = Retain(macros, value[x])
  BY DEF Call, Depth
<1>2. macros'.body = macros.body
  BY <1>x, <1>1, RetainTexts DEF Defs
<1>3. /\ f \in Frames /\ OneRead(f, macros.body) = macros.body[value[x]]
  BY <1>x DEF Frames, OneRead
<1> HIDE DEF f
<1>4. ReadOf(input', macros'.body)
         = Append(ReadOf(input, macros.body), macros.body[value[x]])
  BY <1>t, <1>1, <1>2, <1>3, ReadPush
<1>5. Abstract!Meaning(Bound, x) = macros.body[value[x]]
  <2>1. Abstract!Meaning(Bound, x) = TextIn(macros.body, x, value[x])
    BY <1>x, <1>1, MeaningIs DEF Stepping
  <2>2. value[x] # 0
    BY DEF Call
  <2> QED
    BY <2>1, <2>2 DEF TextIn
<1>6. macros.body[value[x]] # "undefined"
  <2>1. macros.body[value[x]] \in Bodies \cup {"cleared"}
    BY <1>t, <1>x DEF Texts
  <2> QED
    BY <2>1, KindsAssumption
<1>7. Reading' = Append(Reading, Abstract!Meaning(Bound, x))
  BY <1>1, <1>4, <1>5, ReadingFrames
<1>8. UNCHANGED <<Depth, Bound>>
  BY StepsBind DEF Quiet
<1>9. After' = After
  BY <1>1, ReadingIs
<1> QED
  BY <1>5, <1>6, <1>7, <1>8, <1>9 DEF Abstract!Call

\* A frame that is popped has been read.
LEMMA PopFrameReads ==
    ASSUME Stepping, PopFrame
    PROVE  Abstract!Read
<1> DEFINE t == Front(input)
           f == Last(input)
           R == ReadOf(t, macros.body)
           y == OneRead(f, macros.body)
<1>t. /\ input \in Seq(Frames) /\ macros.body \in Texts
  BY ReadTypes
<1>1. /\ ~unwinding /\ saves' = saves /\ Depth' = Depth
      /\ input # <<>> /\ input' = t
  BY DEF PopFrame, Depth
<1>2. t \in Seq(Frames) /\ f \in Frames /\ input = Append(t, f)
  BY <1>t, <1>1, FrontIs
<1> HIDE DEF t, f
<1>3. ReadOf(t, macros'.body) = ReadOf(t, macros.body)
  <2>1. \A i \in 1 .. Len(t) :
           /\ i \in 1 .. Len(input) /\ t[i] = input[i]
           /\ i \in 1 .. Len(input') /\ t[i] = input'[i]
    BY <1>1, <1>2
  <2> QED
    BY <1>2, <2>1, ReadSame
<1>4. /\ R \in Seq(Readable) /\ y \in Readable
      /\ ReadOf(input, macros.body) = Append(R, y)
  BY <1>t, <1>2, ReadPush
<1> HIDE DEF R, y
<1>5. Reading = Append(R, y) /\ Reading' = R
  BY <1>1, <1>3, <1>4, ReadingFrames DEF R
<1>6. Append(R, y) # <<>> /\ Front(Append(R, y)) = R
  BY <1>4 DEF Front
<1>7. UNCHANGED <<Depth, Bound>>
  BY StepsBind DEF Quiet
<1>8. After' = After
  BY <1>1, ReadingIs
<1> QED
  BY <1>5, <1>6, <1>7, <1>8 DEF Abstract!Read, Abstract!Front, Front

\* One step of the groups is one of the scopes, or none.
LEMMA NextImplements ==
    ASSUME Stepping, [Next]_vars
    PROVE  \/ Abstract!Next(Assignable, Boxes, Names, Tokens, Bodies)
           \/ UNCHANGED <<Depth, Bound, After, Reading>>
<1>1. ASSUME NEW prefix \in BOOLEAN, Assign(prefix)
      PROVE  Abstract!Assigns(Assignable, Boxes, Names, Bodies)
                /\ UNCHANGED <<After, Reading>>
  BY <1>1, StepsBind, AssignsRead
<1>2. ASSUME NEW x \in Boxes, EmptyBox(x)
      PROVE  Abstract!Assigns(Assignable, Boxes, Names, Bodies)
                /\ UNCHANGED <<After, Reading>>
  <2>1. input' = input /\ saves' = saves /\ Depth' = Depth
    BY <1>2 DEF EmptyBox, Depth
  <2> QED
    BY <1>2, <2>1, StepsBind, SavesReadNothing
<1>3. ASSUME Restore \/ LetGo \/ PutBack \/ Leave \/ UNCHANGED vars
      PROVE  UNCHANGED <<Depth, Bound, After, Reading>>
  <2>1. UNCHANGED <<Depth, Bound>>
    BY <1>3, StepsBind DEF Quiet
  <2>2. CASE Restore \/ LetGo
    <3>1. /\ input' = input /\ saves # <<>> /\ saves' = Front(saves)
          /\ ~AtEnd(Last(saves))
      BY <2>2 DEF Restore, LetGo, Unwinds, AtEnd
    <3> QED
      BY <2>1, <3>1, SavesReadNothing
  <2>3. CASE PutBack
    BY <2>1, <2>3, PutBackReads
  <2>4. CASE Leave \/ UNCHANGED vars
    <3>1. input' = input /\ saves' = saves
      BY <2>4 DEF Leave, vars
    <3> QED
      BY <2>1, <3>1, SavesReadNothing
  <2> QED
    BY <1>3, <2>2, <2>3, <2>4
<1> QED
  BY <1>1, <1>2, <1>3, BeginGroupOpens, EndGroupCloses, AfterGroupPutsBy,
     CallReads, PopFrameReads DEF Next, Abstract!Next

-----------------------------------------------------------------------------
(* The theorems. *)

\* For any names, registers, values and texts, what assign_*, set_meaning,
\* save_value, empty_box_register and end_group do to values, levels and the
\* save stack is what nested scopes would do, and every name keeps the text
\* it was given.
THEOREM SaveStackIsScopes == Spec => BindingsAreScopes
<1> DEFINE All == GroupInv /\ RecordsInv /\ ScopesInv
<1>1. Init => All
  BY InitGroups, InitRecords, InitScopes
<1>2. All /\ [Next]_vars => All'
  BY NextGroups, NextRecords, NextScopes
<1>3. All /\ All' /\ [Next]_vars =>
         [Abstract!Binds([x \in Locs \ Names |-> Held(x)], Boxes, Names,
                         Bodies)]_<<Depth, Bound>>
  <2> SUFFICES ASSUME All, All', [Next]_vars
               PROVE  \/ Abstract!Binds(Assignable, Boxes, Names, Bodies)
                      \/ UNCHANGED <<Depth, Bound>>
    BY DEF Assignable
  <2>1. Stepping
    BY TextsAreKept DEF Stepping
  <2> QED
    BY <2>1, NextBinds
<1> HIDE DEF All
<1> QED
  BY <1>1, <1>2, <1>3, PTL DEF Spec, BindingsAreScopes

\* And so the groups are scopes in all: what \aftergroup put by is read when
\* its group ends, in the order it came and before anything else, and a call
\* reads what the name meant when it was called, whatever is freed and used
\* again meanwhile (scan_after_group, end_group, instantiate_macro,
\* pop_frame).
THEOREM GroupsImplementScopes == Spec => ImplementsScopes
<1> DEFINE All == GroupInv /\ RecordsInv /\ ScopesInv
<1>1. Init => All
  BY InitGroups, InitRecords, InitScopes
<1>2. All /\ [Next]_vars => All'
  BY NextGroups, NextRecords, NextScopes
<1>3. All /\ All' /\ [Next]_vars =>
         [Abstract!Next([x \in Locs \ Names |-> Held(x)], Boxes, Names, Tokens,
                        Bodies)]_<<Depth, Bound, After, Reading>>
  <2> SUFFICES ASSUME All, All', [Next]_vars
               PROVE  \/ Abstract!Next(Assignable, Boxes, Names, Tokens, Bodies)
                      \/ UNCHANGED <<Depth, Bound, After, Reading>>
    BY DEF Assignable
  <2>1. Stepping
    BY TextsAreKept DEF Stepping
  <2> QED
    BY <2>1, NextImplements
<1> HIDE DEF All
<1> QED
  BY <1>1, <1>2, <1>3, PTL DEF Spec, ImplementsScopes

\* And no text changes or is handed out again while a meaning, a save or a
\* frame that is being read names its record (instantiate_macro, pop_frame,
\* release_definition).
THEOREM TextsOutliveTheirReaders == Spec => [][TextsStand]_vars
<1> DEFINE All == GroupInv /\ RecordsInv
<1>1. Init => All
  BY InitGroups, InitRecords
<1>2. All /\ [Next]_vars => All'
  BY NextGroups, NextRecords
<1>3. All /\ [Next]_vars => [TextsStand]_vars
  BY TextsAreKept
<1> HIDE DEF All
<1> QED
  BY <1>1, <1>2, <1>3, PTL DEF Spec
=============================================================================
