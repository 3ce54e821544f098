------------------------------- MODULE Groups -------------------------------
(***************************************************************************)
(* Groups, assignments and the definitions they hold (src/engine.c,        *)
(* src/source.c).                                                          *)
(*                                                                         *)
(* Everything a group may change carries the level of the assignment that  *)
(* stands; a local assignment from another level first puts what stood on  *)
(* the save stack, and the end of the group takes it back unless something *)
(* global has taken the place over.  A macro's text lives in a record that *)
(* meanings, saves and the frames being read hold by reference count; a    *)
(* record nobody holds is put on a free list and used again.               *)
(*                                                                         *)
(* Each kind of location has its own tables in the code, handled alike;    *)
(* four kinds differ in what the code does and are kept apart: Names       *)
(* (counted), Regs, Params (saved at every local assignment: glue and      *)
(* muglue parameters) and Boxes (which can be emptied by being used).      *)
(***************************************************************************)
EXTENDS Integers, Sequences, FiniteSets, SequencesExt

CONSTANTS
    Names, Regs, Params, Boxes,
    GlobalDefs,  \* the location of \globaldefs, an integer parameter
    Settings,    \* what \globaldefs is ever set to
    Values,      \* what a register may hold; Void among them
    Void,
    Bodies,      \* macro texts
    Tokens,      \* what \aftergroup may put by
    AfterGroup,  \* HSTEX_SAVE_AFTER_GROUP, the save that names no location
    MaxDefs, MaxLevel, MaxSaves, MaxInput   \* bounds of the instance

Locs == Names \cup Regs \cup Params \cup Boxes \cup {GlobalDefs}
Defs == 1 .. MaxDefs

ASSUME NamesAssumption == IsFiniteSet(Names)
ASSUME BoundsAssumption ==
    /\ MaxDefs \in Nat /\ MaxLevel \in Nat
    /\ MaxSaves \in Nat /\ MaxInput \in Nat
ASSUME KindsAssumption ==
    /\ Names \cap (Regs \cup Params \cup Boxes \cup {GlobalDefs}) = {}
    /\ Params \cap (Regs \cup Boxes \cup {GlobalDefs}) = {}
    /\ GlobalDefs \notin Regs \cup Boxes
    /\ AfterGroup \notin Locs /\ "undefined" \notin Bodies
    /\ Void \in Values /\ Settings \subseteq Int

VARIABLES
    level,     \* engine->group_level
    value,     \* what stands; of a name, its record, or 0 for none
    lev,       \* the level of the assignment that put it there
    saves,     \* the save stack
    macros,    \* the records: the text in each, its reference count, the
               \* free list, its head first, and how many were ever made
    input,     \* what is being read: records held by a frame, single tokens
    unwinding  \* inside end_group

vars == <<level, value, lev, saves, macros, input, unwinding>>

Held(x) == IF x \in Names THEN 0 .. MaxDefs
           ELSE IF x = GlobalDefs THEN Settings \cup {0} ELSE Values

Frames == [kind : {"definition"}, of : Defs] \cup [kind : {"token"}, of : Tokens]

Saves == [what : Locs \cup {AfterGroup}, level : Nat, prevLevel : Nat,
          prev : Tokens \cup Values \cup Settings \cup 0 .. MaxDefs]
IsSave(s) ==
    /\ s.level \in 1 .. level
    /\ IF s.what = AfterGroup THEN s.prev \in Tokens
       ELSE s.prev \in Held(s.what)

Macros == [body : [Defs -> Bodies \cup {"cleared"}], refs : [Defs -> Nat],
           free : Seq(Defs), made : 0 .. MaxDefs]

TypeOK ==
    /\ level \in 0 .. MaxLevel
    /\ value \in [Locs -> Values \cup Settings \cup 0 .. MaxDefs]
    /\ \A x \in Locs : value[x] \in Held(x)
    /\ lev \in [Locs -> Nat]
    /\ saves \in Seq(Saves) /\ \A i \in 1 .. Len(saves) : IsSave(saves[i])
    /\ macros \in Macros
    /\ input \in Seq(Frames)
    /\ unwinding \in BOOLEAN

Init ==
    /\ level = 0
    /\ value = [x \in Locs |-> IF x \in Names \cup {GlobalDefs} THEN 0 ELSE Void]
    /\ lev = [x \in Locs |-> 0]
    /\ saves = <<>>
    /\ macros = [body |-> [d \in Defs |-> "cleared"],
                 refs |-> [d \in Defs |-> 0], free |-> <<>>, made |-> 0]
    /\ input = <<>>
    /\ unwinding = FALSE

-----------------------------------------------------------------------------
(* Assignments. *)

\* assignment_is_global: \globaldefs overrules the prefix.
AssignmentIsGlobal(prefix) ==
    IF value[GlobalDefs] = 0 THEN prefix ELSE value[GlobalDefs] > 0

IsLocal(prefix) == ~AssignmentIsGlobal(prefix) /\ level # 0

\* The save stack with what stands at x put on it.
Saved(x) == Append(saves, [what |-> x, level |-> level,
                           prevLevel |-> lev[x], prev |-> value[x]])

\* save_value: what is kept is what stood before the group began.
SaveValue(x) == IF lev[x] = level THEN saves ELSE Saved(x)

Place(x, v, prefix) ==
    /\ value' = [value EXCEPT ![x] = v]
    /\ lev' = [lev EXCEPT ![x] = IF IsLocal(prefix) THEN level ELSE 0]

\* assign_count and its like.
AssignRegister(x, v, prefix) ==
    /\ ~unwinding
    /\ saves' = IF IsLocal(prefix) THEN SaveValue(x) ELSE saves
    /\ Len(saves') <= MaxSaves
    /\ Place(x, v, prefix)
    /\ UNCHANGED <<level, macros, input, unwinding>>

\* assign_box and assign_integer_parameter do the same.
AssignBox(x, v, prefix) == AssignRegister(x, v, prefix)
AssignGlobalDefs(v, prefix) == AssignRegister(GlobalDefs, v, prefix)

\* assign_glue_parameter, assign_muglue_parameter: saved every time.
AssignParameter(x, v, prefix) ==
    /\ ~unwinding
    /\ saves' = IF IsLocal(prefix) THEN Saved(x) ELSE saves
    /\ Len(saves') <= MaxSaves
    /\ Place(x, v, prefix)
    /\ UNCHANGED <<level, macros, input, unwinding>>

\* Mutant of EmptyBox: emptied by a global assignment.
EmptyGlobally(x) ==
    /\ ~unwinding
    /\ Place(x, Void, TRUE)
    /\ UNCHANGED <<level, saves, macros, input, unwinding>>

\* empty_box_register: a box that is used is no assignment: no save is made
\* for it and the level is left where it stood.
EmptyBox(x) ==
    /\ ~unwinding
    /\ value' = [value EXCEPT ![x] = Void]
    /\ UNCHANGED <<level, lev, saves, macros, input, unwinding>>

-----------------------------------------------------------------------------
(* Records, and what holds them. *)

\* retain_definition
Retain(m, d) == IF d = 0 THEN m ELSE [m EXCEPT !.refs[d] = @ + 1]

\* release_definition: the last one to let go clears the text and puts the
\* record on the free list.
Release(m, d) ==
    IF d = 0 \/ m.refs[d] = 0 THEN m
    ELSE IF m.refs[d] > 1 THEN [m EXCEPT !.refs[d] = @ - 1]
    ELSE [m EXCEPT !.refs[d] = 0, !.body[d] = "cleared", !.free = <<d>> \o @]

\* Mutants of SetMeaning: the old let go before the new is held; a saved
\* meaning let go as well.
SetMeaningLettingGoFirst(m, x, d, prefix) ==
    /\ saves' = IF IsLocal(prefix) THEN SaveValue(x) ELSE saves
    /\ Len(saves') <= MaxSaves
    /\ Place(x, d, prefix)
    /\ macros' = IF IsLocal(prefix) /\ lev[x] # level
                 THEN Retain(m, d) ELSE Retain(Release(m, value[x]), d)

\* set_meaning: the new is held before the old is let go; where the old is
\* saved, the save takes its reference over.
SetMeaning(m, x, d, prefix) ==
    /\ saves' = IF IsLocal(prefix) THEN SaveValue(x) ELSE saves
    /\ Len(saves') <= MaxSaves
    /\ Place(x, d, prefix)
    /\ macros' = IF IsLocal(prefix) /\ lev[x] # level
                 THEN Retain(m, d) ELSE Release(Retain(m, d), value[x])

\* A record for a new text: one nobody holds if there is one, else another.
Reused(m, d, text) ==
    [m EXCEPT !.free = Tail(@), !.body[d] = text, !.refs[d] = 0]
Made(m, text) ==
    [m EXCEPT !.made = @ + 1, !.body[m.made + 1] = text]

\* scan_definition, end_write_token.
Define(x, text, prefix) ==
    /\ ~unwinding
    /\ IF macros.free # <<>>
       THEN LET d == Head(macros.free)
            IN  SetMeaning(Reused(macros, d, text), x, d, prefix)
       ELSE macros.made < MaxDefs
            /\ SetMeaning(Made(macros, text), x, macros.made + 1, prefix)
    /\ UNCHANGED <<level, input, unwinding>>

\* define_read_tokens: \read always makes another record.
DefineRead(x, text, prefix) ==
    /\ ~unwinding
    /\ macros.made < MaxDefs
    /\ SetMeaning(Made(macros, text), x, macros.made + 1, prefix)
    /\ UNCHANGED <<level, input, unwinding>>

\* scan_let: what y means now, or 0 for anything that is no macro.
Let(x, y, prefix) ==
    /\ ~unwinding
    /\ SetMeaning(macros, x, value[y], prefix)
    /\ UNCHANGED <<level, input, unwinding>>

AtEnd(s) == s.what = AfterGroup

\* The bound on what is read, counting what groups will still bring.
InputRoom == Len(input) + Len(SelectSeq(saves, AtEnd)) < MaxInput

\* instantiate_macro: the frame that reads a long body where it stands, or
\* that shows an error what the arguments were, holds the definition.  (A
\* short body without arguments is copied, which changes nothing here.)
Call(x) ==
    /\ ~unwinding
    /\ value[x] # 0
    /\ InputRoom
    /\ macros' = Retain(macros, value[x])
    /\ input' = Append(input, [kind |-> "definition", of |-> value[x]])
    /\ UNCHANGED <<level, value, lev, saves, unwinding>>

\* pop_frame: what is on top has been read.
PopFrame ==
    /\ ~unwinding
    /\ input # <<>>
    /\ input' = Front(input)
    /\ macros' = IF Last(input).kind = "definition"
                 THEN Release(macros, Last(input).of) ELSE macros
    /\ UNCHANGED <<level, value, lev, saves, unwinding>>

-----------------------------------------------------------------------------
(* Groups. *)

BeginGroup ==
    /\ ~unwinding
    /\ level < MaxLevel
    /\ level' = level + 1
    /\ UNCHANGED <<value, lev, saves, macros, input, unwinding>>

\* scan_after_group; at the outer level the token is dropped.
ScanAfterGroup(t) ==
    /\ ~unwinding
    /\ level # 0
    /\ Len(saves) < MaxSaves /\ InputRoom
    /\ saves' = Append(saves, [what |-> AfterGroup, level |-> level,
                               prevLevel |-> 0, prev |-> t])
    /\ UNCHANGED <<level, value, lev, macros, input, unwinding>>

\* end_group.  At the outer level there is nothing to end and the brace is
\* gone.  What is spent of the input has been popped.
EndGroup ==
    /\ ~unwinding
    /\ level # 0
    /\ unwinding' = TRUE
    /\ UNCHANGED <<level, value, lev, saves, macros, input>>

\* The save on top, when it belongs to the group being left.
Unwinds == /\ unwinding
           /\ saves # <<>>
           /\ Last(saves).level = level

\* Mutant of Restore: the value comes back, the level of it does not.
RestoreLevelless ==
    /\ Unwinds
    /\ LET s == Last(saves) IN
       /\ s.what # AfterGroup
       /\ lev[s.what] = level
       /\ value' = [value EXCEPT ![s.what] = s.prev]
       /\ macros' = IF s.what \in Names THEN Release(macros, value[s.what])
                    ELSE macros
    /\ saves' = Front(saves)
    /\ UNCHANGED <<level, lev, input, unwinding>>

\* What stands is this group's: what was saved is put back.
Restore ==
    /\ Unwinds
    /\ LET s == Last(saves) IN
       /\ s.what # AfterGroup
       /\ lev[s.what] = level
       /\ value' = [value EXCEPT ![s.what] = s.prev]
       /\ lev' = [lev EXCEPT ![s.what] = s.prevLevel]
       /\ macros' = IF s.what \in Names THEN Release(macros, value[s.what])
                    ELSE macros
    /\ saves' = Front(saves)
    /\ UNCHANGED <<level, input, unwinding>>

\* Something global took the place over: what was kept is let go.
LetGo ==
    /\ Unwinds
    /\ LET s == Last(saves) IN
       /\ s.what # AfterGroup
       /\ lev[s.what] # level
       /\ macros' = IF s.what \in Names THEN Release(macros, s.prev)
                    ELSE macros
    /\ saves' = Front(saves)
    /\ UNCHANGED <<level, value, lev, input, unwinding>>

\* Mutant of PutBack: behind what is to be read.
PutBehind ==
    /\ Unwinds
    /\ Last(saves).what = AfterGroup
    /\ input' = <<[kind |-> "token", of |-> Last(saves).prev]>> \o input
    /\ saves' = Front(saves)
    /\ UNCHANGED <<level, value, lev, macros, unwinding>>

\* A token of \aftergroup is put back to be read.
PutBack ==
    /\ Unwinds
    /\ Last(saves).what = AfterGroup
    /\ input' = Append(input, [kind |-> "token", of |-> Last(saves).prev])
    /\ saves' = Front(saves)
    /\ UNCHANGED <<level, value, lev, macros, unwinding>>

\* Nothing of this group is left on the save stack.
Leave ==
    /\ unwinding
    /\ ~Unwinds
    /\ level' = level - 1
    /\ unwinding' = FALSE
    /\ UNCHANGED <<value, lev, saves, macros, input>>

-----------------------------------------------------------------------------
Assign(prefix) ==
    \/ \E x \in Regs, v \in Values : AssignRegister(x, v, prefix)
    \/ \E x \in Boxes, v \in Values : AssignBox(x, v, prefix)
    \/ \E v \in Settings : AssignGlobalDefs(v, prefix)
    \/ \E x \in Params, v \in Values : AssignParameter(x, v, prefix)
    \/ \E x \in Names, b \in Bodies :
          Define(x, b, prefix) \/ DefineRead(x, b, prefix)
    \/ \E x, y \in Names : Let(x, y, prefix)

Next ==
    \/ \E prefix \in BOOLEAN : Assign(prefix)
    \/ \E x \in Boxes : EmptyBox(x)
    \/ \E x \in Names : Call(x)
    \/ PopFrame
    \/ BeginGroup \/ EndGroup \/ Leave
    \/ \E t \in Tokens : ScanAfterGroup(t)
    \/ Restore \/ LetGo \/ PutBack

Spec == Init /\ [][Next]_vars

-----------------------------------------------------------------------------
(* What must hold. *)

\* A record is counted once for every meaning, every save and every frame
\* that names it: one count too many is a text kept for ever, one too few is
\* a text used after it was given back.
Holders(d) ==
    {<<"meaning", x>> : x \in {y \in Names : value[y] = d}}
    \cup {<<"save", i>> : i \in {j \in 1 .. Len(saves) :
             saves[j].what \in Names /\ saves[j].prev = d}}
    \cup {<<"frame", i>> : i \in {j \in 1 .. Len(input) :
             input[j].kind = "definition" /\ input[j].of = d}}
CountsExact ==
    \A d \in Defs : macros.refs[d] = Cardinality(Holders(d))

\* Every record that was made is held by somebody or on the free list, once,
\* and never both: no definition is used after it was given back or handed
\* out twice.
FreeOrHeld ==
    \A d \in 1 .. macros.made :
        (Holders(d) = {}) = (Cardinality({i \in 1 .. Len(macros.free) :
                                            macros.free[i] = d}) = 1)

\* So a text lives exactly as long as somebody may read it (retain_definition,
\* release_definition).
RecordsHold == CountsExact /\ FreeOrHeld

\* An assignment made in a group does not outlive it: what stands anywhere
\* was assigned globally or in a group that is still open.  (A level left
\* behind would make the next group at that level think it had saved.)
NoLocalOutlives == \A x \in Locs : lev[x] <= level

-----------------------------------------------------------------------------
(* The save stack implements scopes.                                        *)

\* What would be put back at x when the groups end: not what is saved below
\* something global, which took the place over for good.
Live(x) ==
    {i \in 1 .. Len(saves) :
        /\ saves[i].what = x /\ lev[x] # 0
        /\ \A j \in i + 1 .. Len(saves) :
              saves[j].what = x => saves[j].prevLevel # 0}

\* What stands at x and what it covers, each with its level; of several
\* saves at one level the first alone leads to another.
Stands(x) ==
    {<<lev[x], value[x]>>}
    \cup {<<saves[i].prevLevel, saves[i].prev>> :
             i \in {j \in Live(x) : saves[j].prevLevel # saves[j].level}}

Text(x, v) == IF x \notin Names THEN v
              ELSE IF v = 0 THEN "undefined" ELSE macros.body[v]

Bindings(x) == {<<p[1], x, Text(x, p[2])>> : p \in Stands(x)}

\* While a group is left it is gone, and its tokens are there to be read.
Depth == IF unwinding THEN level - 1 ELSE level
Bound == {c \in UNION {Bindings(x) : x \in Locs} : c[1] <= Depth}
After == FlattenSeq([i \in DOMAIN saves |->
            IF AtEnd(saves[i]) /\ saves[i].level <= Depth
            THEN <<<<saves[i].level, saves[i].prev>>>> ELSE <<>>])
Ended == FlattenSeq([i \in DOMAIN saves |->
            IF AtEnd(saves[i]) /\ saves[i].level > Depth
            THEN <<saves[i].prev>> ELSE <<>>])
Reading ==
    [i \in 1 .. Len(input) |->
        IF input[i].kind = "token" THEN input[i].of
        ELSE macros.body[input[i].of]]
    \o Reverse(Ended)

Abstract == INSTANCE Scopes WITH depth <- Depth, bound <- Bound,
                                 after <- After, input <- Reading

\* Whatever is assigned, saved, restored, let go, freed and used again, what
\* is bound is what a stack of scopes would bind.
BindingsAreScopes ==
    [][Abstract!Binds([x \in Locs \ Names |-> Held(x)], Boxes, Names,
                      Bodies)]_<<Depth, Bound>>

\* And what is read is what it would bring: a call reads what was defined.
ImplementsScopes ==
    [][Abstract!Next([x \in Locs \ Names |-> Held(x)], Boxes, Names, Tokens,
                     Bodies)]_<<Depth, Bound, After, Reading>>
=============================================================================
