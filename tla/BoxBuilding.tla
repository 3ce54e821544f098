----------------------------- MODULE BoxBuilding -----------------------------
(***************************************************************************)
(* Boxes as a document builds them (src/engine.c): \hbox, \vbox and \vtop  *)
(* nested in one another, what is put on their lists and taken off again,  *)
(* box registers, unboxing, displacement, leaders and \vsplit.             *)
(*                                                                         *)
(* Every list built here belongs to a \setbox, so nothing reaches the page *)
(* (PageBuilder has that); no paragraph is begun (LineBreaking), and every *)
(* \setbox is global (Groups has the others).  \lastskip and its kind only *)
(* look, and are left out.                                                 *)
(***************************************************************************)
EXTENDS Packing

CONSTANTS
    Registers,
    Across,       \* what may be put on a horizontal list
    Down,         \* and on a vertical one
    LeaderGlues,  \* the glue that may follow \leaders
    LeaderKinds,
    Specs,        \* [how, by]: the size a box is asked for
    Shifts,       \* how far \raise and its kind displace
    Parts,        \* what the parts of a \discretionary may be asked to hold
    Heights,      \* what \vsplit is asked for
    Documents,    \* [stock, work]: what stands in the registers at first, and
                  \* how many commands follow
    TakesBoxes,   \* whether the document says \lastbox
    MaxNest       \* bound: boxes in one another

VARIABLES
    nest,         \* the lists being built, the innermost last
    reg,          \* the box registers
    leader,       \* pending_leader: what the next glue is to be filled with
    packed,       \* history: the last box packed and what was said of it
    split,        \* history: the last \vsplit
    work          \* the commands that are left

vars == << nest, reg, leader, packed, split, work >>

Working  == work > 0 /\ nest # <<>> /\ leader = <<>>
InMode(m) == nest[Len(nest)].list.mode = m
Current  == nest[Len(nest)].list

\* The nest with the list on top of it replaced.
Into(levels, list) == [levels EXCEPT ![Len(levels)].list = list]

-----------------------------------------------------------------------------
(* Where a box goes once there is one: a register, the list, displaced or  *)
(* not, or in front of the glue it is to fill.                             *)

\* migrate_out_of_hbox: what only passes through a line moves out of a box
\* that goes straight from its } into a vertical list, and stands behind it.
Migrates(node) == node.kind \in {"mark", "insert", "adjust"}
MovedOut(items) ==
    FlattenSeq([i \in 1 .. Len(items) |->
                  IF items[i].kind = "adjust" THEN items[i].held ELSE <<items[i]>>])
LetOut(list, box) ==
    LET stays   == [box EXCEPT !.items = SelectSeq(@, LAMBDA n : ~Migrates(n))]
        out     == MovedOut(SelectSeq(box.items, Migrates))
        boxed   == PutBelow(list, ListNode(stays, 0))
    IN  [FoldLeft(PutDown, boxed, out) EXCEPT !.prev = boxed.prev]

\* execute_box_constructor, execute_box_reference, execute_shift_box,
\* execute_set_box and execute_leaders, when the box has been scanned.
Deliver(box, goal, levels, registers, built) ==
    LET top   == levels[Len(levels)].list
        blank == With(Node("list", 0, 0, 0), [box |-> Void])
    IN  CASE goal.what = "set" ->
                 /\ reg' = [registers EXCEPT ![goal.register] = box]
                 /\ nest' = levels
                 /\ leader' = <<>>
          [] goal.what = "put" ->
                 /\ reg' = registers
                 /\ nest' = IF box = Void THEN levels
                            ELSE IF built /\ goal.straight /\ box.kind = "hlist"
                                    /\ top.mode = "v"
                            THEN Into(levels, LetOut(top, box))
                            ELSE Into(levels, PutOn(top, ListNode(box, goal.shift)))
                 /\ leader' = <<>>
          [] goal.what = "leaders" ->
                 /\ reg' = registers
                 /\ nest' = levels
                 /\ leader' = << [node |-> IF box = Void THEN blank ELSE ListNode(box, 0),
                                  kind |-> goal.kind] >>

Goals == [what : {"set"}, register : Registers]
         \cup [what : {"put"}, shift : {0}, straight : {TRUE}]
         \cup [what : {"put"}, shift : Shifts, straight : {FALSE}]
         \cup [what : {"leaders"}, kind : LeaderKinds]

-----------------------------------------------------------------------------
(* Commands. *)

Nothing == [box |-> Void, natural |-> 0, said |-> "nothing", list |-> HList]
NoSplit == [box |-> Void, at |-> 0, top |-> Void, rest |-> Void, said |-> "nothing"]

Begins(document) ==
    /\ nest = <<>>
    /\ leader = <<>>
    /\ packed = Nothing
    /\ split = NoSplit
    /\ reg = document.stock
    /\ work = document.work

Init == \E d \in Documents : Begins(d)

\* evaluate_hbox_contents and evaluate_vbox_contents begin a list of their
\* own: a body finds an empty list, and \prevdepth at nothing.
Begin(form, spec, goal) ==
    /\ work > 0
    /\ leader = <<>>
    /\ Len(nest) < MaxNest
    /\ nest = <<>> => goal.what = "set"
    /\ nest' = Append(nest, [list |-> IF form = "hbox" THEN HList ELSE VList,
                             form |-> form, spec |-> spec, goal |-> goal])
    /\ work' = work - 1
    /\ UNCHANGED << reg, leader, packed, split >>

\* The box is made and goes where it was asked for; of \vtop, the measure it was given is told.
Ended(top, box, natural, said) ==
    /\ packed' = [box |-> box, natural |-> natural, said |-> said, list |-> top.list]
    /\ \E made \in {IF top.form = "vtop" THEN TopBox(box) ELSE box} :
          IF Len(nest) = 1
          THEN /\ reg' = [reg EXCEPT ![top.goal.register] = made]
               /\ nest' = <<>>
               /\ leader' = <<>>
          ELSE Deliver(made, top.goal, SubSeq(nest, 1, Len(nest) - 1), reg, TRUE)

\* The } of a box: finalize_hbox, or finalize_vbox with \boxmaxdepth.
Close ==
    /\ nest # <<>>
    /\ leader = <<>>
    /\ LET top  == nest[Len(nest)]
       IN  IF top.form = "hbox"
           THEN Ended(top, HBox(top.list, top.spec), top.list.width, SaidOfH(top.list, top.spec))
           ELSE Ended(top, VBox(top.list, top.spec, BoxMaxDepth), HeightOf(top.list, BoxMaxDepth),
                      SaidOfV(top.list, top.spec, BoxMaxDepth))
    /\ UNCHANGED << split, work >>

\* Characters, rules, kerns, glue, penalties, marks and their kind:
\* execute_vrule, execute_hrule, execute_kern, execute_glue,
\* execute_penalty, new_whatsit.
Put(node) ==
    /\ Working
    /\ node \in IF InMode("h") THEN Across ELSE Down
    /\ nest' = Into(nest, PutOn(Current, node))
    /\ work' = work - 1
    /\ UNCHANGED << reg, leader, packed, split >>

\* The glue that \leaders fill, or something else: the leaders are dropped.
PutLeaders(glue) ==
    /\ leader # <<>>
    /\ nest' = Into(nest, PutOn(Current,
                    GlueNode(glue, <<leader[1].node>>, leader[1].kind)))
    /\ leader' = <<>>
    /\ UNCHANGED << reg, packed, split, work >>

NoProperGlue ==
    /\ leader # <<>>
    /\ leader' = <<>>
    /\ UNCHANGED << nest, reg, packed, split, work >>

LeaderRule(rule, kind) ==
    /\ Working
    /\ rule.kind = "rule"
    /\ leader' = << [node |-> rule, kind |-> kind] >>
    /\ work' = work - 1
    /\ UNCHANGED << nest, reg, packed, split >>

\* scan_discretionary_list: a part ends at the first node it may not hold.
Proper(node) == node.kind \in {"char", "kern", "list", "rule"}
DiscPart(items) ==
    SubSeq(items, 1, Min({i \in 1 .. Len(items) : ~Proper(items[i])}
                         \cup {Len(items) + 1}) - 1)

\* execute_discretionary: what is replaced joins the list, and is counted.
Discretionary(pre, post, replaced) ==
    /\ Working
    /\ InMode("h")
    /\ LET third == DiscPart(replaced)
       IN  nest' = Into(nest, FoldLeft(PutAcross, Current,
                        <<DiscNode(DiscPart(pre), DiscPart(post), Len(third))>> \o third))
    /\ work' = work - 1
    /\ UNCHANGED << reg, leader, packed, split >>

\* \unskip, \unkern and \unpenalty: execute_remove_last.
RemoveLast(kind) ==
    /\ Working
    /\ Current.items # <<>>
    /\ Current.items[Len(Current.items)].kind = kind
    /\ ~LastIsReplaced(Current.items)
    /\ nest' = Into(nest, WithoutLast(Current))
    /\ work' = work - 1
    /\ UNCHANGED << reg, leader, packed, split >>

\* \lastbox, wherever a box may stand: scan_last_box.
LastBox(goal) ==
    /\ TakesBoxes
    /\ Working
    /\ LET n    == Len(Current.items)
           take == n # 0 /\ Current.items[n].kind = "list"
       IN  Deliver(IF take THEN Current.items[n].box ELSE Void, goal,
                   IF take THEN Into(nest, WithoutLast(Current)) ELSE nest, reg, TRUE)
    /\ work' = work - 1
    /\ UNCHANGED << packed, split >>

\* \box and \copy: a copy leaves the register what it holds.
UseBox(register, copy, goal) ==
    /\ Working
    /\ reg[register] # Void
    /\ Deliver(reg[register], goal, nest,
               IF copy THEN reg ELSE [reg EXCEPT ![register] = Void], FALSE)
    /\ work' = work - 1
    /\ UNCHANGED << packed, split >>

\* execute_unbox: no glue between, and \prevdepth is left where it was.
Unbox(register, copy) ==
    /\ Working
    /\ reg[register] # Void
    /\ reg[register].kind = IF InMode("h") THEN "hlist" ELSE "vlist"
    /\ LET items == reg[register].items
       IN  nest' = Into(nest, IF InMode("h") THEN FoldLeft(PutAcross, Current, items)
                              ELSE [FoldLeft(PutDown, Current, items)
                                      EXCEPT !.prev = Current.prev])
    /\ reg' = IF copy THEN reg ELSE [reg EXCEPT ![register] = Void]
    /\ work' = work - 1
    /\ UNCHANGED << leader, packed, split >>

\* \vsplit: what is left goes back into the register it came from.
Separate(parts, register, height, goal) ==
    LET said == SaidOfV(parts.list, [how |-> "to", by |-> height], SplitMaxDepth)
    IN  /\ Deliver(parts.top, goal, nest, [reg EXCEPT ![register] = parts.rest], TRUE)
        /\ packed' = [box |-> parts.top, said |-> said, list |-> parts.list,
                      natural |-> HeightOf(parts.list, SplitMaxDepth)]
        /\ split' = [box |-> reg[register], at |-> parts.at, said |-> said,
                     top |-> parts.top, rest |-> parts.rest]

Vsplit(register, height, goal) ==
    /\ Working
    /\ reg[register] # Void
    /\ IF reg[register].kind # "vlist"
       THEN /\ Deliver(Void, goal, nest, reg, TRUE)
            /\ UNCHANGED << packed, split >>
       ELSE \E parts \in {Split(reg[register], height)} : Separate(parts, register, height, goal)
    /\ work' = work - 1

Next ==
    \/ \E form \in {"hbox", "vbox", "vtop"}, spec \in Specs, goal \in Goals :
          Begin(form, spec, goal)
    \/ Close
    \/ \E node \in Across \cup Down : Put(node)
    \/ \E glue \in LeaderGlues : PutLeaders(glue)
    \/ NoProperGlue
    \/ \E rule \in Across \cup Down, kind \in LeaderKinds : LeaderRule(rule, kind)
    \/ \E pre, post, replaced \in Parts : Discretionary(pre, post, replaced)
    \/ \E kind \in {"glue", "kern", "penalty"} : RemoveLast(kind)
    \/ \E goal \in Goals : LastBox(goal)
    \/ \E r \in Registers, copy \in BOOLEAN, goal \in Goals : UseBox(r, copy, goal)
    \/ \E r \in Registers, copy \in BOOLEAN : Unbox(r, copy)
    \/ \E r \in Registers, h \in Heights, goal \in Goals : Vsplit(r, h, goal)

Spec == Init /\ [][Next]_vars

-----------------------------------------------------------------------------
(* Properties. *)

\* What the glue of a box takes in the end.
GlueTaken(box) ==
    FoldLeft(LAMBDA run, n : SetGlueStep(box.set, run, n.glue),
             NothingPassed, GlueIn(box.items)).given

\* A box that was packed is filled exactly by what is on its list, each piece
\* of its glue rounded as it is set, or a fault was reported, or it is empty,
\* or the fault is smaller than \hfuzz and \vfuzz let pass (finalize_hbox,
\* finalize_vbox, packing_glue_set, report_packing).
FilledOrReported ==
    LET box   == packed.box
        size  == IF box.kind = "hlist" THEN box.width ELSE box.height
        taken == packed.natural + GlueTaken(box)
        fuzz  == IF box.kind = "hlist" THEN HFuzz ELSE VFuzz
    IN  box = Void \/ \/ taken = size
                      \/ packed.said \in {"underfull", "overfull"}
                      \/ packed.list.items = <<>>
                      \/ taken > size /\ taken - size <= fuzz

\* Every discretionary on a list that is being built or has been packed has
\* what it replaces behind it (execute_discretionary, execute_remove_last):
\* a line broken there drops that and nothing else.
HoldsItsOwn(items) ==
    \A i \in 1 .. Len(items) :
        items[i].kind = "disc" =>
            /\ i + items[i].replaces <= Len(items)
            /\ \A j \in i + 1 .. i + items[i].replaces : Proper(items[j])

DiscretionariesHoldTheirOwn ==
    /\ \A l \in 1 .. Len(nest) : HoldsItsOwn(nest[l].list.items)
    /\ \A r \in Registers : reg[r] # Void => HoldsItsOwn(reg[r].items)

\* What \vsplit takes away and what it leaves are the list it was given, in
\* its order: only glue, kerns and penalties behind the break are gone, and
\* \splittopskip is new; and where a break before the last of those looked at
\* would do, what comes away is not too high (vertical_break_measured,
\* prune_split_top, scan_vsplit).
Kept(items) == SelectSeq(items, LAMBDA n : ~Discardable(n))
Doable(items, height) ==
    \E i \in 1 .. Len(items) :
        LET list == FoldLeft(PutDown, VList, SubSeq(items, 1, i - 1))
        IN  /\ VBreakable(items, i)
            /\ \A j \in 1 .. i : BreakPenalty(items, j) > -InfinitePenalty
            /\ BreakPenalty(items, i) < InfinitePenalty
            /\ HeightOf(list, SplitMaxDepth) <= height
SplitKeepsAndFits ==
    LET items == split.box.items
        left  == IF split.rest = Void THEN <<>> ELSE split.rest.items
    IN  split.box # Void =>
          /\ Kept(split.top.items) \o Kept(left) = Kept(items)
          /\ split.top.items = SubSeq(items, 1, split.at)
          /\ \E k \in 0 .. Len(items) :
                LET tail == SubSeq(items, Len(items) - k + 1, Len(items))
                IN  k <= Len(left) /\ SubSeq(left, Len(left) - k + 1, Len(left)) = tail
                    /\ \A i \in split.at + 1 .. Len(items) - k :
                          Discardable(items[i]) \/ items[i].kind \in {"mark", "whatsit", "insert"}
          /\ Doable(items, split.top.height) => split.said # "overfull"
=============================================================================
