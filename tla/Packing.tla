------------------------------- MODULE Packing -------------------------------
(***************************************************************************)
(* How src/engine.c measures lists, packs them into boxes, sets their glue *)
(* and finds where a vertical list is best broken.                         *)
(*                                                                         *)
(* A node is a record with a kind, a size and a shift, and what its kind   *)
(* needs besides; a box has the list in it and how its glue is set.  A     *)
(* list being built is a record with what has been put on it and the sizes *)
(* its builder keeps; prev is \prevdepth, which a vertical list has to     *)
(* itself: every list built inside another puts back what it found.        *)
(***************************************************************************)
EXTENDS Stretching, Sequences, FiniteSets, SequencesExt, FiniteSetsExt

CONSTANTS
    BaselineSkip, LineSkip,      \* glue
    LineSkipLimit,
    SplitTopSkip,                \* glue
    BoxMaxDepth, SplitMaxDepth,
    HFuzz, VFuzz, HBadness, VBadness,
    OverfullRule

Running     == -1073741824   \* HSTEX_RUNNING_DIMEN: as far as the box reaches
IgnoreDepth == -65536000     \* HSTEX_IGNORE_DEPTH: no interline glue
AwfulBadness     == 1073741823
DeplorableCost   == 100000
OverfullBadness  == 1000000
InfinitePenalty  == 10000

-----------------------------------------------------------------------------
(* Nodes and boxes. *)

Node(kind, width, height, depth) ==
    [kind |-> kind, width |-> width, height |-> height, depth |-> depth,
     shift |-> 0]

With(node, more) == [f \in DOMAIN node \cup DOMAIN more |->
                        IF f \in DOMAIN more THEN more[f] ELSE node[f]]

\* Glue, perhaps with the box or rule that leaders fill it with.
GlueNode(glue, leader, kind) ==
    With(Node("glue", glue.width, 0, 0),
         [glue |-> glue, leader |-> leader, leaders |-> kind])
PlainGlue(glue) == GlueNode(glue, <<>>, "none")

PenaltyNode(p)        == With(Node("penalty", 0, 0, 0), [penalty |-> p])
ListNode(box, shift)  ==
    [With(Node("list", box.width, box.height, box.depth), [box |-> box])
        EXCEPT !.shift = shift]
DiscNode(pre, post, replaced) ==
    With(Node("disc", 0, 0, 0), [pre |-> pre, post |-> post, replaces |-> replaced])

Void == [kind |-> "void"]

Packed(size) == IF size = Running THEN 0 ELSE size

\* What only passes through a line measures nothing in it.
Sizeless(node) == node.kind \in {"whatsit", "insert", "mark", "adjust"}

Discardable(node) == node.kind \in {"glue", "kern", "penalty"}

HasLeader(node) == node.kind = "glue" /\ node.leader # <<>>

Larger(a, b) == IF a > b THEN a ELSE b

-----------------------------------------------------------------------------
(* Lists being built. *)

HList == [mode |-> "h", items |-> <<>>, width |-> 0, height |-> 0, depth |-> 0]
VList == [mode |-> "v", items |-> <<>>, width |-> 0, extent |-> 0,
          trailing |-> 0, prev |-> IgnoreDepth]

\* append_hbox_item
PutAcross(list, node) ==
    LET leader  == IF HasLeader(node) THEN node.leader[1] ELSE node
        shift   == IF HasLeader(node) THEN 0 ELSE node.shift
        raised  == Packed(leader.height) - shift
        dropped == Packed(leader.depth) + shift
    IN  IF Sizeless(node) THEN [list EXCEPT !.items = Append(@, node)]
        ELSE [list EXCEPT !.items  = Append(@, node),
                          !.width  = @ + Packed(node.width),
                          !.height = Larger(@, raised),
                          !.depth  = Larger(@, dropped)]

\* append_vbox_item
PutDown(list, node) ==
    LET space  == node.kind \in {"glue", "kern"}
        solid  == node.kind \in {"rule", "char", "list"}
        reach  == CASE node.kind \in {"rule", "list"} -> Packed(node.width) + node.shift
                    [] HasLeader(node) -> Packed(node.leader[1].width)
                    [] OTHER -> 0
        wide   == Larger(list.width, reach)
    IN  [list EXCEPT
           !.items    = Append(@, node),
           !.extent   = CASE space -> @ + list.trailing + Packed(node.width)
                          [] solid -> @ + list.trailing + Packed(node.height)
                          [] OTHER -> @,
           !.trailing = CASE space -> 0
                          [] solid -> Packed(node.depth)
                          [] OTHER -> @,
           !.width    = wide,
           !.prev     = CASE node.kind = "list" -> Packed(node.depth)
                          [] node.kind = "rule" -> IgnoreDepth
                          [] OTHER -> @]

\* append_interline_glue
InterlineGlue(list, height) ==
    LET separation == BaselineSkip.width - list.prev - height
    IN  CASE list.prev <= IgnoreDepth   -> <<>>
          [] OTHER -> << PlainGlue(IF separation < LineSkipLimit THEN LineSkip
                                   ELSE [BaselineSkip EXCEPT !.width = separation]) >>

\* append_vbox_node
PutBelow(list, node) ==
    LET between == IF node.kind = "list"
                   THEN InterlineGlue(list, Packed(node.height)) ELSE <<>>
    IN  PutDown(FoldLeft(PutDown, list, between), node)

\* append_current_list_node
PutOn(list, node) == IF list.mode = "h" THEN PutAcross(list, node)
                     ELSE PutBelow(list, node)

\* drop_last_list_node: the sizes are worked out again from what is left.
WithoutLast(list) ==
    LET left == SubSeq(list.items, 1, Len(list.items) - 1)
    IN  IF list.mode = "h" THEN FoldLeft(PutAcross, HList, left)
        ELSE FoldLeft(PutDown, [VList EXCEPT !.prev = list.prev], left)

\* last_node_is_replaced_by_a_discretionary
LastIsReplaced(items) ==
    \E i \in 1 .. Len(items) - 1 :
        /\ items[i].kind = "disc"
        /\ items[i].replaces # 0
        /\ i + items[i].replaces >= Len(items)

-----------------------------------------------------------------------------
(* Packing. *)

Orders == 0 .. 3

GlueIn(items) == SelectSeq(items, LAMBDA n : n.kind = "glue")

\* What the glue comes to, order by order, and of that the highest there is.
WithGlue(sums, n) ==
    [sums EXCEPT !.stretch[n.glue.up] = @ + n.glue.stretch,
                 !.shrink[n.glue.down] = @ + n.glue.shrink]
Highest(sum) == Max({0} \cup {o \in Orders : sum[o] # 0})

ByOrder(sums, up, down) ==
    [stretch |-> sums.stretch[up], up |-> up, shrink |-> sums.shrink[down], down |-> down]
Totals(sums) == ByOrder(sums, Highest(sums.stretch), Highest(sums.shrink))

\* list_total_glue
TotalGlue(items) ==
    Totals(FoldLeft(WithGlue, [stretch |-> [o \in Orders |-> 0], shrink |-> [o \in Orders |-> 0]],
                    GlueIn(items)))

NotSet == [sign |-> "normal", order |-> 0, needed |-> 0, total |-> 0]

\* packing_glue_set
GlueSet(natural, target, total) ==
    LET over == natural - target
    IN  CASE over < 0 /\ total.stretch # 0 ->
                 [sign |-> "stretching", order |-> total.up, needed |-> -over,
                  total |-> total.stretch]
          [] over > 0 /\ total.shrink # 0 ->
                 [sign |-> "shrinking", order |-> total.down,
                  needed |-> IF total.down = 0 /\ over > total.shrink
                             THEN total.shrink ELSE over,
                  total |-> total.shrink]
          [] OTHER -> NotSet

\* packing_badness
PackingBadness(natural, target, total) ==
    LET over == natural - target
    IN  CASE over = 0 -> 0
          [] over < 0 -> IF total.up # 0 THEN 0 ELSE GlueBadness(-over, total.stretch)
          [] OTHER    -> CASE total.down # 0      -> 0
                           [] total.down = 0 /\ over > total.shrink -> OverfullBadness
                           [] OTHER -> GlueBadness(over, total.shrink)

\* report_packing: what is said of a box that does not fit.
Reported(natural, target, total, items, fuzz, limit) ==
    LET over    == natural - target
        beyond  == over - total.shrink
        badness == PackingBadness(natural, target, total)
    IN  CASE items = <<>> -> "nothing"
          [] items # <<>> /\ over > 0 /\ total.down = 0 /\ beyond > 0 ->
                 IF beyond > fuzz \/ limit < 100 THEN "overfull" ELSE "nothing"
          [] items # <<>> /\ over > 0 /\ ~(total.down = 0 /\ beyond > 0) ->
                 IF total.down = 0 /\ badness > limit THEN "tight" ELSE "nothing"
          [] OTHER -> IF total.up = 0 /\ badness > limit
                      THEN IF badness > 100 THEN "underfull" ELSE "loose"
                      ELSE "nothing"

Natural == [how |-> "natural", by |-> 0]

Target(natural, spec) == CASE spec.how = "natural" -> natural
                           [] spec.how = "to"      -> spec.by
                           [] spec.how = "spread"  -> natural + spec.by

OverfullMark == Node("rule", OverfullRule, Running, Running)

\* finalize_hbox: the rule that marks an overfull box is no part of what was
\* measured.
Filled(list, target, total) ==
    LET over   == list.width - target
        marked == /\ list.items # <<>> /\ OverfullRule > 0 /\ over > 0
                  /\ total.down = 0 /\ over - total.shrink > HFuzz
    IN  [kind |-> "hlist", width |-> target, height |-> list.height,
         depth |-> list.depth, set |-> GlueSet(list.width, target, total),
         items |-> list.items \o (IF marked THEN <<OverfullMark>> ELSE <<>>)]

HBox(list, spec) == Filled(list, Target(list.width, spec), TotalGlue(list.items))

SaidOfH(list, spec) ==
    Reported(list.width, Target(list.width, spec), TotalGlue(list.items),
             list.items, HFuzz, HBadness)

\* finalize_vbox: what hangs below the most it may is height.
HeightOf(list, limit) == list.extent + Larger(0, list.trailing - limit)

VBox(list, spec, limit) ==
    LET natural == HeightOf(list, limit)
        target  == Target(natural, spec)
    IN  [kind |-> "vlist", width |-> list.width, height |-> target,
         depth |-> IF list.trailing > limit THEN limit ELSE list.trailing,
         set |-> GlueSet(natural, target, TotalGlue(list.items)),
         items |-> list.items]

SaidOfV(list, spec, limit) ==
    LET natural == HeightOf(list, limit)
    IN  Reported(natural, Target(natural, spec), TotalGlue(list.items),
                 list.items, VFuzz, VBadness)

\* \vtop: the height of its first item, if that is a box or a rule.
TopBox(box) ==
    LET first == IF box.items # <<>> /\ box.items[1].kind \in {"list", "rule"}
                 THEN Packed(box.items[1].height) ELSE 0
    IN  [box EXCEPT !.height = first, !.depth = box.height + box.depth - first]

-----------------------------------------------------------------------------
(* Glue as it is set: each piece takes what the running total gains. *)

\* rounded_amount: the nearest whole number, halves away from zero.
Rounded(num, den) ==
    LET n == IF den < 0 THEN -num ELSE num
        d == IF den < 0 THEN -den ELSE den
    IN  IF n >= 0 THEN (2 * n + d) \div (2 * d) ELSE -((2 * (-n) + d) \div (2 * d))

NothingPassed == [passed |-> 0, given |-> 0]

\* Mutant of SetGlueStep: each piece rounded by itself.
StepByItself(set, running, glue) ==
    LET counts == \/ set.sign = "stretching" /\ glue.up = set.order
                  \/ set.sign = "shrinking" /\ glue.down = set.order
        amount == IF set.sign = "stretching" THEN glue.stretch ELSE -glue.shrink
    IN  IF set.total = 0 \/ ~counts THEN running
        ELSE [passed |-> running.passed + amount,
              given |-> running.given + Rounded(set.needed * amount, set.total)]

\* set_glue_step: the running total behind a piece of glue.
SetGlueStep(set, running, glue) ==
    LET counts == \/ set.sign = "stretching" /\ glue.up = set.order
                  \/ set.sign = "shrinking" /\ glue.down = set.order
        passed == running.passed
                  + (IF set.sign = "stretching" THEN glue.stretch ELSE -glue.shrink)
    IN  IF set.total = 0 \/ ~counts THEN running
        ELSE [passed |-> passed, given |-> Rounded(set.needed * passed, set.total)]

-----------------------------------------------------------------------------
(* Breaking a vertical list: vertical_break_measured. *)

VBreakable(items, i) ==
    \/ i = Len(items) + 1
    \/ i <= Len(items) /\ items[i].kind = "penalty"
    \/ i <= Len(items) /\ items[i].kind = "glue" /\ i > 1 /\ ~Discardable(items[i - 1])
    \/ i < Len(items) /\ items[i].kind = "kern" /\ items[i + 1].kind = "glue"

BreakPenalty(items, i) ==
    CASE i > Len(items)              -> -InfinitePenalty
      [] i <= Len(items) /\ items[i].kind = "penalty" -> items[i].penalty
      [] OTHER                       -> 0

NothingYet == [total |-> 0, stretch |-> [o \in Orders |-> 0], shrink |-> 0, depth |-> 0]

\* Mutant of Measured: what hangs too low is not counted.
MeasuredHanging(sum, node, limit) ==
    LET space == node.kind \in {"glue", "kern"}
        solid == node.kind \in {"rule", "list", "char"}
        sized == [sum EXCEPT
                    !.total = CASE space -> @ + sum.depth + Packed(node.width)
                                [] solid -> @ + sum.depth + Packed(node.height)
                                [] OTHER -> @,
                    !.depth = CASE space -> 0 [] solid -> Packed(node.depth) [] OTHER -> @]
    IN  IF node.kind # "glue" THEN sized
        ELSE [sized EXCEPT !.stretch[node.glue.up] = @ + node.glue.stretch,
                           !.shrink = @ + node.glue.shrink]

\* What one more item above the break adds; no more than limit hangs below.
Measured(sum, node, limit) ==
    LET space == node.kind \in {"glue", "kern"}
        solid == node.kind \in {"rule", "list", "char"}
        total == CASE space -> sum.total + sum.depth + Packed(node.width)
                   [] solid -> sum.total + sum.depth + Packed(node.height)
                   [] OTHER -> sum.total
        depth == CASE space -> 0 [] solid -> Packed(node.depth) [] OTHER -> sum.depth
        sized == [sum EXCEPT !.total = total + Larger(0, depth - limit),
                             !.depth = IF depth > limit THEN limit ELSE depth]
    IN  IF node.kind # "glue" THEN sized
        ELSE [sized EXCEPT !.stretch[node.glue.up] = @ + node.glue.stretch,
                           !.shrink = @ + node.glue.shrink]

\* What it costs to break before item i, for a list to come to height.
VBreakCost(sum, penalty, height) ==
    LET over == sum.total - height
        fit  == CASE over < 0 /\ (\E o \in 1 .. 3 : sum.stretch[o] # 0) -> 0
                  [] over < 0 /\ (\A o \in 1 .. 3 : sum.stretch[o] = 0) ->
                         GlueBadness(-over, sum.stretch[0])
                  [] over >= 0 /\ over > sum.shrink  -> AwfulBadness
                  [] over >= 0 /\ over <= sum.shrink -> GlueBadness(over, sum.shrink)
    IN  CASE fit = AwfulBadness -> AwfulBadness
          [] fit < AwfulBadness /\ penalty <= -InfinitePenalty -> penalty
          [] fit < InfiniteBadness /\ penalty > -InfinitePenalty -> fit + penalty
          [] OTHER -> DeplorableCost

\* The search stops at the first break that is too far or forced, and takes
\* the last of those that cost least; how many items go above it.
VerticalBreak(items, height, limit) ==
    LET n == Len(items)
        sum[i \in 1 .. n + 1] ==
            IF i = 1 THEN NothingYet ELSE Measured(sum[i - 1], items[i - 1], limit)
        open == {i \in 1 .. n + 1 : /\ VBreakable(items, i)
                                    /\ BreakPenalty(items, i) < InfinitePenalty}
        cost == [i \in open |-> VBreakCost(sum[i], BreakPenalty(items, i), height)]
        last == Min({i \in open : \/ cost[i] = AwfulBadness
                                  \/ BreakPenalty(items, i) <= -InfinitePenalty})
        seen == {i \in open : i <= last}
    IN  Max({i \in seen : \A j \in seen : cost[i] <= cost[j]}) - 1

\* prune_split_top: what is left begins with what only passes through, then
\* glue in front of the first box or rule.
Pruned(items) ==
    LET stays(n)  == n.kind \in {"mark", "whatsit", "insert"}
        heads     == {i \in 1 .. Len(items) : ~Discardable(items[i]) /\ ~stays(items[i])}
        first     == IF heads = {} THEN Len(items) + 1 ELSE Min(heads)
        kept      == SelectSeq(SubSeq(items, 1, first - 1), stays)
        rest      == SubSeq(items, first, Len(items))
        top       == IF rest = <<>> THEN <<>>
                     ELSE << PlainGlue([SplitTopSkip EXCEPT
                                !.width = Larger(0, @ - Packed(rest[1].height))]) >>
        list      == FoldLeft(PutDown, VList, kept \o top \o rest)
    IN  IF kept = <<>> /\ rest = <<>> THEN Void ELSE VBox(list, Natural, BoxMaxDepth)

\* scan_vsplit: what comes away, and what is left in the register.
SplitAt(items, height, at, list) ==
    [at |-> at, list |-> list,
     top |-> VBox(list, [how |-> "to", by |-> height], SplitMaxDepth),
     rest |-> Pruned(SubSeq(items, at + 1, Len(items)))]

SplitBehind(items, height, at) ==
    SplitAt(items, height, at, FoldLeft(PutDown, VList, SubSeq(items, 1, at)))

Split(box, height) ==
    SplitBehind(box.items, height, VerticalBreak(box.items, height, SplitMaxDepth))
=============================================================================
