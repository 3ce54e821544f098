----------------------------- MODULE PageBuilder -----------------------------
(***************************************************************************)
(* The page builder of src/engine.c and the output routine it runs.        *)
(*                                                                         *)
(* The document puts nodes on the contribution list.  build_page moves     *)
(* them to the current page one at a time and weighs each place where the  *)
(* page may break; when a break is forced or the page is overfull, fire_up *)
(* packs what stands before the best break into \box255, gathers the       *)
(* insertions of that part into the boxes of their classes, gives back     *)
(* what does not belong to the page, and runs \output.  \end is read again *)
(* until everything has come out.                                          *)
(*                                                                         *)
(* A node is a record.  Boxes and marks have the number of the item they   *)
(* are or came with, their id, and those in an insertion the place they    *)
(* had there, their line, by which they can be followed; 0 is for what the *)
(* builder made itself, and the line of the text.  Sizes are integers.     *)
(***************************************************************************)
EXTENDS Stretching, Sequences, FiniteSets, SequencesExt, FiniteSetsExt,
        Functions

CONSTANTS
    Items,         \* what the document may contribute
    MaxItems,      \* bound: how much of it
    VSize, TopSkip, MaxDepth,
    Classes,       \* the insertion classes
    Limit,         \* \dimen of a class: the most of it on one page
    Factor,        \* \count of a class: 1000, or 0 if it takes no room
    ClassSkip,     \* \skip of a class: room taken by its first insertion
    FloatCost,     \* \floatingpenalty
    SplitTopSkip, SplitMaxDepth,
    Routine,       \* \output is not empty
    Holdings,      \* what \holdinginserts may be at first
    MaxDeadCycles

ASSUME FactorAssumption == Factor \in {0, 1000}
ASSUME DeadAssumption   == MaxDeadCycles \in Nat \ {0}
ASSUME BoundAssumption  == MaxItems \in Nat
ASSUME SizesAssumption  ==
    {VSize, TopSkip, MaxDepth, Limit, ClassSkip, FloatCost, SplitTopSkip,
     SplitMaxDepth} \subseteq Int
ASSUME ClassesAssumption == IsFiniteSet(Classes)
ASSUME RoutineAssumption == Routine \in BOOLEAN /\ Holdings \subseteq BOOLEAN

InfinitePenalty == 10000
Deplorable      == 100000
Awful           == 1073741823
Eject           == -1073741824    \* the penalty \end appends

VARIABLES
    pc,         \* reading, building, routine, over
    read,       \* how many items the document has contributed
    material,   \* history: and how many boxes, marks and lines they held
    ended,      \* \end has been read, and is being read again
    contribs,   \* contribution_builder
    page,       \* page_builder
    hasBox,     \* page_has_box
    frozen,     \* page_frozen
    dims, goal, \* page_dimens: the page so far; \pagegoal
    best,       \* best_page_break, _penalty, _size and least_page_cost
    inserts,    \* page_inserts: a record for each class on the page
    insertPenalties,
    deadCycles,
    marks,      \* \topmark, \firstmark, \botmark
    box255,
    boxes,      \* the box of each class
    outPenalty, \* \outputpenalty
    holding,    \* \holdinginserts
    made,       \* the routine's own list
    shipped,    \* history: what has been shipped out, in order
    gone,       \* history: what has been thrown away
    sent,       \* history: what the last page sent off came to
    putBack     \* history: a page was put back whole, or apart from its insertions

lists  == <<contribs, page, made>>
weighs == <<hasBox, frozen, dims, goal, best, inserts, insertPenalties>>
cycle  == <<deadCycles, marks, outPenalty>>
out    == <<box255, boxes, shipped, gone>>
vars   == <<pc, read, material, ended, lists, weighs, cycle, out, holding, sent, putBack>>

-----------------------------------------------------------------------------
(* Nodes and lists of nodes. *)

Discardable == {"glue", "kern", "penalty"}

Box(id, height, depth) ==
    [kind |-> "box", id |-> id, line |-> 0, height |-> height, depth |-> depth]
Mark(id)    == [kind |-> "mark", id |-> id, line |-> 0]
Kern(width) == [kind |-> "kern", width |-> width]
Penalty(p)  == [kind |-> "penalty", penalty |-> p]
Glue(width, stretch, fil, shrink) ==
    [kind |-> "glue", width |-> width, stretch |-> stretch, fil |-> fil,
     shrink |-> shrink]

(* How tall a list is and what its glue can give.  Its last box may hang    *)
(* below by no more than the limit.                                         *)
Nothing ==
    [total |-> 0, depth |-> 0, stretch |-> 0, fil |-> FALSE, shrink |-> 0]

Sized(n)  == n.kind \in {"box", "glue", "kern"}
Extent(n) == CASE n.kind = "box"            -> n.height + n.depth
               [] n.kind \in {"glue", "kern"} -> n.width
               [] OTHER                       -> 0
Hangs(n, limit) == IF n.kind = "box" THEN Min({n.depth, limit}) ELSE 0

\* The list, with one node more.
Grown(m, n, limit) ==
    IF ~Sized(n) THEN m
    ELSE [total   |-> m.total + m.depth + Extent(n) - Hangs(n, limit),
          depth   |-> Hangs(n, limit),
          stretch |-> m.stretch + IF n.kind = "glue" /\ ~n.fil
                                  THEN n.stretch ELSE 0,
          fil     |-> m.fil \/ (n.kind = "glue" /\ n.fil),
          shrink  |-> m.shrink + IF n.kind = "glue" THEN n.shrink ELSE 0]

Total(numbers) ==
    LET first[i \in 0 .. Len(numbers)] ==
            IF i = 0 THEN 0 ELSE first[i - 1] + numbers[i]
    IN  first[Len(numbers)]

\* The whole list.
Measure(list, limit) ==
    LET last    == SelectLastInSeq(list, Sized)
        hangs   == IF last = 0 THEN 0 ELSE Hangs(list[last], limit)
        glue(i) == list[i].kind = "glue"
    IN  [total   |-> Total([i \in DOMAIN list |-> Extent(list[i])]) - hangs,
         depth   |-> hangs,
         stretch |-> Total([i \in DOMAIN list |->
                        IF glue(i) /\ ~list[i].fil THEN list[i].stretch ELSE 0]),
         fil     |-> \E i \in DOMAIN list : glue(i) /\ list[i].fil,
         shrink  |-> Total([i \in DOMAIN list |->
                        IF glue(i) THEN list[i].shrink ELSE 0])]

\* height + depth of the list packed at its natural size
Size(list) == Total([i \in DOMAIN list |-> Extent(list[i])])

Insert(class, list) ==
    [kind |-> "insert", class |-> class, list |-> list, height |-> Size(list)]

\* The nodes of a list that pass a test.
Only(list, Test(_)) ==
    FlattenSeq([i \in DOMAIN list |->
                   IF Test(list[i]) THEN <<list[i]>> ELSE <<>>])

\* The glue in front of the first box of a page or of what a split leaves.
SkipTo(skip, n) == Glue(Max({0, skip - n.height}), 0, FALSE, 0)

-----------------------------------------------------------------------------
(* The nodes there are. *)

Plain ==
    [kind : {"kern"}, width : Int] \cup [kind : {"penalty"}, penalty : Int]
    \cup [kind : {"glue"}, width : Int, stretch : Int, fil : BOOLEAN,
          shrink : Int]

Pieces(ids, lines) ==
    Plain \cup [kind : {"mark"}, id : ids, line : lines]
    \cup [kind : {"box"}, id : ids, line : lines, height : Int, depth : Int]

LineNode == Pieces(Nat \ {0}, Nat \ {0})

\* What may stand on a list of the builder; one box is that of \end.
Node ==
    Pieces(Nat \ {0}, {0}) \cup {Box(0, 0, 0)}
    \cup [kind : {"insert"}, class : Classes, list : Seq(LineNode), height : Int]

Measures ==
    [total : Int, depth : Int, stretch : Int, fil : BOOLEAN, shrink : Int]

ASSUME ItemsAssumption ==
    \A x \in Items :
       \/ x \in Pieces({0}, {0})
       \/ /\ x.kind = "insert" /\ x.class \in Classes
          /\ x.list \in Seq(Pieces({0}, {0}))
          /\ x = Insert(x.class, x.list)

-----------------------------------------------------------------------------
(* What a break costs. *)

Badness(m, size) ==
    IF m.total < size
    THEN IF m.fil THEN 0 ELSE GlueBadness(size - m.total, m.stretch)
    ELSE IF m.total - size > m.shrink THEN Awful
         ELSE GlueBadness(m.total - size, m.shrink)

BreakCost(badness, penalty, extra) ==
    IF badness = Awful THEN Awful
    ELSE IF penalty <= -InfinitePenalty THEN penalty
    ELSE IF badness < InfiniteBadness THEN badness + penalty + extra
    ELSE Deplorable

\* May the list break at n, standing between these two?
Legal(before, n, after) ==
    \/ /\ n.kind = "glue"
       /\ before # <<>>
       /\ Last(before).kind \notin Discardable
    \/ n.kind = "kern" /\ after # <<>> /\ Head(after).kind = "glue"
    \/ n.kind = "penalty" /\ n.penalty < InfinitePenalty

PenaltyAt(list, i) ==
    IF i = Len(list) THEN -InfinitePenalty
    ELSE IF list[i + 1].kind = "penalty" THEN list[i + 1].penalty ELSE 0

(* The places where a list may be split: how many nodes go above, what they *)
(* measure, and the penalty that stands there.                              *)
Places(list, depth) ==
    LET points == {i \in 0 .. Len(list) :
                     \/ i = Len(list)
                     \/ Legal(SubSeq(list, 1, i), list[i + 1],
                              SubSeq(list, i + 2, Len(list)))}
    IN  {[at |-> i, above |-> Measure(SubSeq(list, 1, i), depth),
          penalty |-> PenaltyAt(list, i)] : i \in points}

(* The best of them for this height, in a set of its own: the last of the   *)
(* cheapest, up to the first that is overfull or forced.                    *)
VerticalBreak(places, height) ==
    LET cost(p)  == BreakCost(Badness(p.above, height), p.penalty, 0)
        stops(p) == cost(p) = Awful \/ p.penalty <= -InfinitePenalty
        tried    == {p \in places : \A q \in places :
                                       stops(q) => p.at <= q.at}
    IN  {p \in tried : \A q \in tried :
           cost(p) < cost(q) \/ (cost(p) = cost(q) /\ p.at >= q.at)}

(* What is left after a split: it begins with no glue, kern or penalty but  *)
(* with \splittopskip in front of its first box.                            *)
Pruned(list) ==
    LET boxBefore(i) == \E j \in 1 .. i - 1 : list[j].kind = "box"
    IN  FlattenSeq([i \in DOMAIN list |->
            CASE ~boxBefore(i) /\ list[i].kind = "box"
                     -> <<SkipTo(SplitTopSkip, list[i]), list[i]>>
              [] ~boxBefore(i) /\ list[i].kind \in Discardable -> <<>>
              [] OTHER -> <<list[i]>>])

InsertionSize(size) == IF Factor = 1000 THEN size ELSE 0

-----------------------------------------------------------------------------
NoBest  == [at |-> 0, penalty |-> InfinitePenalty, size |-> 0, cost |-> Awful]
NoBox   == [void |-> TRUE, list |-> <<>>, size |-> 0]
NoMarks == [top |-> 0, first |-> 0, bot |-> 0]
NoneSent == [weighed |-> FALSE, onto |-> FALSE, used |-> 0,
             strays |-> FALSE]

Init ==
    /\ pc = "reading" /\ read = 0 /\ material = 0 /\ ended = FALSE
    /\ contribs = <<>> /\ page = <<>> /\ made = <<>>
    /\ hasBox = FALSE /\ frozen = FALSE /\ dims = Nothing /\ goal = 0
    /\ best = NoBest /\ inserts = <<>> /\ insertPenalties = 0
    /\ deadCycles = 0 /\ marks = NoMarks /\ outPenalty = 0
    /\ box255 = NoBox /\ boxes = [c \in Classes |-> <<>>]
    /\ shipped = <<>> /\ gone = <<>> /\ holding \in Holdings
    /\ sent = NoneSent /\ putBack = "never"

\* The document's own boxes and marks in a list, and the lines of the
\* insertions in it.
Material(list) ==
    Only(list, LAMBDA n : n.kind \in {"box", "mark"} /\ n.id # 0)
LinesOf(list) ==
    FlattenSeq([i \in DOMAIN list |->
        IF list[i].kind = "insert" THEN Material(list[i].list) ELSE <<>>])
MarksOf(list) == Only(list, LAMBDA n : n.kind = "mark" /\ n.line = 0)
LastId(list)  == IF list = <<>> THEN 0 ELSE Last(list).id

\* An item of the document, with its number for an id.
Numbered(x, n) ==
    CASE x.kind \in {"box", "mark"} -> [x EXCEPT !.id = n]
      [] x.kind = "insert" ->
           [x EXCEPT !.list = [j \in DOMAIN @ |->
               IF @[j].kind \in {"box", "mark"}
               THEN [@[j] EXCEPT !.id = n, !.line = j] ELSE @[j]]]
      [] OTHER -> x

-----------------------------------------------------------------------------
(* The document. *)

\* A box, a penalty or an insertion sets the page builder going; glue, kerns
\* and marks wait for the next of them.
Contribute(x) ==
    /\ pc = "reading" /\ ~ended /\ read < MaxItems
    /\ read' = read + 1
    /\ contribs' = Append(contribs, Numbered(x, read'))
    /\ material' = material + Len(Material(<<Numbered(x, read')>>)
                                   \o LinesOf(<<Numbered(x, read')>>))
    /\ pc' = IF x.kind \in {"box", "penalty", "insert"} THEN "building" ELSE pc
    /\ UNCHANGED <<ended, page, made, weighs, cycle, out, holding, sent, putBack>>

\* So does a paragraph that begins or ends, and \par between paragraphs.
Paragraph ==
    /\ pc = "reading" /\ ~ended /\ contribs # <<>>
    /\ pc' = "building"
    /\ UNCHANGED <<read, material, ended, lists, weighs, cycle, out, holding, sent, putBack>>

End ==
    /\ pc = "reading"
    /\ page = <<>> /\ contribs = <<>> /\ deadCycles = 0
    /\ pc' = "over" /\ ended' = TRUE
    /\ UNCHANGED <<read, material, lists, weighs, cycle, out, holding, sent, putBack>>

\* \end is put back and what is left is forced out in front of it.
EjectLastPages ==
    /\ pc = "reading"
    /\ page # <<>> \/ contribs # <<>> \/ deadCycles # 0
    /\ ended' = TRUE
    /\ contribs' = contribs \o
          <<Box(0, 0, 0), Glue(0, 0, TRUE, 0), Penalty(Eject)>>
    /\ pc' = "building"
    /\ UNCHANGED <<read, material, page, made, weighs, cycle, out, holding, sent, putBack>>

-----------------------------------------------------------------------------
(* A page is sent off. *)

IsSplit(class) == class \in DOMAIN inserts /\ inserts[class].split

\* Insertion i of what leaves the page: what of it comes out now, and what of
\* it has to wait.  A class that was split has one insertion that was broken;
\* those before it fit, those after it wait.
SplitAt(part, i) ==
    LET n == part[i] IN
    IF ~IsSplit(n.class) \/ i < inserts[n.class].broken THEN Len(n.list)
    ELSE IF i > inserts[n.class].broken THEN 0
    ELSE Min({inserts[n.class].breakAt, Len(n.list)})

Taken(part, i) == SubSeq(part[i].list, 1, SplitAt(part, i))

\* Mutant of HeldOver: the insertion that was broken waits as a whole.
HeldOverWhole(part, i) ==
    LET n == part[i]
    IN  IF IsSplit(n.class) /\ i >= inserts[n.class].broken
        THEN <<n>> ELSE <<>>

HeldOver(part, i) ==
    LET n    == part[i]
        rest == Pruned(SubSeq(n.list, SplitAt(part, i) + 1, Len(n.list)))
    IN  IF ~IsSplit(n.class) \/ i < inserts[n.class].broken THEN <<>>
        ELSE IF i > inserts[n.class].broken THEN <<n>>
        ELSE IF rest = <<>> THEN <<>> ELSE <<Insert(n.class, rest)>>

InsertsAt(part) == {i \in DOMAIN part : part[i].kind = "insert"}

\* Mutant of Collected: a class gets its insertions in front of what it has.
CollectedAhead(part) ==
    [c \in Classes |->
        FlattenSeq([i \in DOMAIN part |->
            IF i \in InsertsAt(part) /\ part[i].class = c
            THEN Taken(part, i) ELSE <<>>]) \o boxes[c]]

Collected(part) ==
    [c \in Classes |->
        boxes[c] \o FlattenSeq([i \in DOMAIN part |->
            IF i \in InsertsAt(part) /\ part[i].class = c
            THEN Taken(part, i) ELSE <<>>])]

Unplaced(part) ==
    FlattenSeq([i \in DOMAIN part |->
        IF i \in InsertsAt(part) THEN HeldOver(part, i) ELSE <<>>])

TextAlone(part) == Only(part, LAMBDA n : n.kind # "insert")

\* The room on the page that the insertions of this part take.
RoomOf(part, filled) ==
    LET classes == {part[i].class : i \in InsertsAt(part)}
    IN  FoldSet(LAMBDA c, sum :
                    sum + InsertionSize(Size(filled[c])) + ClassSkip,
                0, classes)

\* Mutant of Marked: the top mark stays what it was.
MarkedLate(part) ==
    LET on == MarksOf(part)
    IN  IF on = <<>> THEN marks
        ELSE [top |-> marks.top, first |-> Head(on).id, bot |-> Last(on).id]

\* The marks of the part that leaves.
Marked(part) ==
    LET on  == MarksOf(part)
        top == IF marks.bot # 0 THEN marks.bot ELSE marks.top
    IN  IF on = <<>>
        THEN [top |-> top, first |-> top, bot |-> marks.bot]
        ELSE [top |-> top, first |-> Head(on).id, bot |-> Last(on).id]

\* The penalty the page broke at is spent: it never breaks another.
Spent(list, penalty) ==
    IF list # <<>> /\ Head(list) = Penalty(penalty)
    THEN <<Penalty(InfinitePenalty)>> \o Tail(list)
    ELSE list

Overworked == deadCycles >= MaxDeadCycles

\* part is what stands before the break b.
FireUp(part, b) ==
    LET returned == SubSeq(page, Len(part) + 1, Len(page)) \o contribs
        runs     == Routine /\ ~Overworked
    IN  \E packed \in {IF holding THEN part ELSE TextAlone(part)},
           left   \in {IF holding THEN <<>> ELSE Unplaced(part)},
           filled \in {IF holding THEN boxes ELSE Collected(part)} :
        /\ contribs' = Spent(returned, b.penalty)
        /\ page' = left
        /\ insertPenalties' = Len(left)
        /\ boxes' = filled
        /\ marks' = Marked(part)
        /\ outPenalty' = b.penalty
        /\ hasBox' = FALSE /\ frozen' = FALSE
        /\ best' = NoBest /\ inserts' = <<>>
        /\ sent' = [weighed |-> ~holding, onto |-> sent.strays,
                    used |-> b.size + RoomOf(part, filled),
                    strays |-> ~runs /\ left # <<>>]
        /\ pc' = IF runs THEN "routine" ELSE "building"
        /\ box255' = IF runs THEN [void |-> FALSE, list |-> packed,
                                   size |-> b.size]
                     ELSE NoBox
        /\ deadCycles' = IF runs THEN deadCycles + 1 ELSE 0
        /\ shipped' = IF runs THEN shipped ELSE shipped \o Material(packed)
        /\ gone' = gone \o Material(box255.list)
                        \o (IF runs THEN <<>> ELSE LinesOf(packed))
        /\ made' = <<>>
        /\ UNCHANGED <<read, material, ended, holding, putBack>>

-----------------------------------------------------------------------------
(* build_page: the first of the contributions joins the current page. *)

Building(kinds) ==
    pc = "building" /\ contribs # <<>> /\ Head(contribs).kind \in kinds

\* The first box or insertion settles what there is room for.
StartDims == IF frozen THEN dims ELSE Nothing
StartGoal == IF frozen THEN goal ELSE VSize

Settle(m, g, b, list) ==
    /\ page' = list
    /\ contribs' = Tail(contribs)
    /\ dims' = m /\ goal' = g /\ best' = b
    /\ UNCHANGED <<pc, read, material, ended, made, cycle, out, holding, sent, putBack>>

PageCost(m, g, penalty) ==
    IF insertPenalties >= InfinitePenalty THEN Awful
    ELSE BreakCost(Badness(m, g), penalty, insertPenalties)

\* The best break once a break of this cost before the next node is weighed.
Better(cost, penalty, g) ==
    IF cost > best.cost THEN best
    ELSE [at |-> Len(page), penalty |-> penalty, size |-> g, cost |-> cost]

Carry ==
    /\ Building({"mark"})
    /\ Settle(dims, goal, best, Append(page, Head(contribs)))
    /\ UNCHANGED <<hasBox, frozen, inserts, insertPenalties>>

\* Mutant of Discard: a penalty at the top of a page stays.
DiscardNoPenalty ==
    /\ Building(Discardable) /\ ~hasBox
    /\ Settle(dims, goal, best,
              IF Head(contribs).kind = "penalty"
              THEN Append(page, Head(contribs)) ELSE page)
    /\ UNCHANGED <<hasBox, frozen, inserts, insertPenalties>>

Discard ==
    /\ Building(Discardable) /\ ~hasBox
    /\ Settle(dims, goal, best, page)
    /\ UNCHANGED <<hasBox, frozen, inserts, insertPenalties>>

(* \topskip glue in front of the first box is a place to break if what      *)
(* stands on the page permits one.                                          *)
FirstBox ==
    /\ Building({"box"}) /\ ~hasBox
    /\ LET n     == Head(contribs)
           glue  == SkipTo(TopSkip, n)
           legal == Legal(page, glue, <<n>>)
           cost  == PageCost(StartDims, StartGoal, 0)
           b     == IF legal THEN Better(cost, InfinitePenalty, StartGoal)
                    ELSE best
           start == Grown([StartDims EXCEPT !.total = 0], glue, MaxDepth)
       IN  IF legal /\ cost = Awful
           THEN FireUp(page, b) /\ dims' = StartDims /\ goal' = StartGoal
           ELSE /\ Settle(Grown(start, n, MaxDepth), StartGoal, b,
                          page \o <<glue, n>>)
                /\ hasBox' = TRUE /\ frozen' = TRUE
                /\ UNCHANGED <<inserts, insertPenalties>>

Next1 == Head(contribs)   \* the node to be taken

\* What a break before it would be worth, and whether it may be.
MayBreak == Legal(page, Next1, Tail(contribs))
PenaltyOf(n) == IF n.kind = "penalty" THEN n.penalty ELSE 0
CostHere == PageCost(dims, goal, PenaltyOf(Next1))
BestHere == Better(CostHere, IF Next1.kind = "penalty" THEN Next1.penalty
                             ELSE InfinitePenalty, goal)
Forced   == CostHere = Awful \/ PenaltyOf(Next1) <= -InfinitePenalty

Weigh ==
    /\ Building(Discardable \cup {"box"}) /\ hasBox
    /\ ~(MayBreak /\ Forced)
    /\ Settle(Grown(dims, Next1, MaxDepth), goal,
              IF MayBreak THEN BestHere ELSE best, Append(page, Next1))
    /\ UNCHANGED <<hasBox, frozen, inserts, insertPenalties>>

BreakPage ==
    /\ Building(Discardable) /\ hasBox
    /\ MayBreak /\ Forced
    /\ \E b \in {BestHere} :
          \E part \in {SubSeq(page, 1, b.at)} : FireUp(part, b)
    /\ UNCHANGED <<dims, goal>>

-----------------------------------------------------------------------------
(* An insertion takes room away from what the page has left.  record is what *)
(* the page knows of its class, g the goal once the class is accounted for.  *)

RecordOf(c) ==
    IF c \in DOMAIN inserts THEN inserts[c]
    ELSE [held |-> Size(boxes[c]), split |-> FALSE, broken |-> 0,
          breakAt |-> 0]

\* Mutant of GoalWith: what stands in the box of the class takes no room.
GoalWithout(c) ==
    IF c \in DOMAIN inserts THEN goal ELSE StartGoal - ClassSkip

GoalWith(c) ==
    IF c \in DOMAIN inserts THEN goal
    ELSE StartGoal - (InsertionSize(Size(boxes[c])) + ClassSkip)

TakeInsert(record, g, cost) ==
    /\ frozen' = TRUE /\ insertPenalties' = insertPenalties + cost
    /\ inserts' = [c \in DOMAIN inserts \cup {Next1.class} |->
                      IF c = Next1.class THEN record ELSE inserts[c]]
    /\ Settle(StartDims, g, best, Append(page, Next1))
    /\ UNCHANGED hasBox

Fits(n) ==
    LET record == RecordOf(n.class)
        wanted == InsertionSize(n.height)
    IN  /\ \/ wanted <= 0
           \/ wanted <= GoalWith(n.class) - StartDims.total
                            - StartDims.depth + StartDims.shrink
        /\ n.height + record.held <= Limit

\* Nothing more of a class can go on a page where it was split.
PutOff ==
    /\ Building({"insert"})
    /\ RecordOf(Next1.class).split
    /\ TakeInsert(RecordOf(Next1.class), GoalWith(Next1.class), FloatCost)

TakeWhole ==
    /\ Building({"insert"})
    /\ ~RecordOf(Next1.class).split /\ Fits(Next1)
    /\ LET record == RecordOf(Next1.class)
       IN  TakeInsert([record EXCEPT !.held = @ + Next1.height],
                      GoalWith(Next1.class) - InsertionSize(Next1.height), 0)

\* How much room there is for more of the class.
Allowed(n) ==
    LET g     == GoalWith(n.class)
        limit == Limit - RecordOf(n.class).held
        room  == g - StartDims.total - StartDims.depth
    IN  IF Factor = 1000 THEN Min({room, limit}) ELSE limit

TakePart ==
    /\ Building({"insert"})
    /\ ~RecordOf(Next1.class).split /\ ~Fits(Next1)
    /\ \E places \in {Places(Next1.list, SplitMaxDepth)},
          room \in {Allowed(Next1)} :
       \E v \in VerticalBreak(places, room) :
          LET reached == v.above.total + v.above.depth
          IN  TakeInsert([held  |-> RecordOf(Next1.class).held + reached,
                          split |-> TRUE,
                          broken |-> Len(page) + 1, breakAt |-> v.at],
                         GoalWith(Next1.class) - InsertionSize(reached),
                         v.penalty)

\* Everything has been moved.
Rest ==
    /\ pc = "building" /\ contribs = <<>>
    /\ pc' = "reading"
    /\ UNCHANGED <<read, material, ended, lists, weighs, cycle, out, holding, sent, putBack>>

-----------------------------------------------------------------------------
(* What an output routine may do with its page. *)

ShipOut(ids, lost) ==
    /\ shipped' = shipped \o ids
    /\ gone' = gone \o lost
    /\ box255' = NoBox
    /\ deadCycles' = 0
    /\ UNCHANGED <<pc, read, material, ended, lists, weighs, marks, outPenalty, holding,
                   sent, putBack>>

\* \shipout\box255
ShipBare ==
    /\ pc = "routine" /\ ~box255.void
    /\ ShipOut(Material(box255.list), LinesOf(box255.list))
    /\ UNCHANGED boxes

\* \shipout\vbox{\unvbox255 \unvbox<class> ...}
ShipWhole ==
    /\ pc = "routine" /\ ~box255.void
    /\ LET classes == SetToSeq(Classes)
       IN  ShipOut(Material(box255.list) \o FlattenSeq([i \in DOMAIN classes |->
                                            Material(boxes[classes[i]])]),
                   LinesOf(box255.list))
    /\ boxes' = [c \in Classes |-> <<>>]

\* \unvbox255, or \unvbox255 \penalty\outputpenalty
Unbox(again) ==
    /\ pc = "routine" /\ ~box255.void
    /\ made' = made \o box255.list
                    \o (IF again THEN <<Penalty(outPenalty)>> ELSE <<>>)
    /\ box255' = NoBox
    /\ putBack' = IF \/ putBack = "apart" \/ page # <<>>
                     \/ \E c \in Classes : boxes[c] # <<>>
                  THEN "apart" ELSE "whole"
    /\ UNCHANGED <<pc, read, material, ended, contribs, page, weighs, cycle, boxes,
                   shipped, gone, holding, sent>>

\* \global\holdinginserts=0
LetInsertsGo ==
    /\ pc = "routine" /\ holding
    /\ holding' = FALSE
    /\ UNCHANGED <<pc, read, material, ended, lists, weighs, cycle, out, sent, putBack>>

\* Mutant of EndRoutine: the routine's list comes behind what was waiting.
EndRoutineBehind ==
    /\ pc = "routine"
    /\ contribs' = page \o contribs \o made
    /\ page' = <<>> /\ made' = <<>>
    /\ insertPenalties' = 0
    /\ gone' = gone \o Material(box255.list) \o LinesOf(box255.list)
    /\ box255' = NoBox
    /\ pc' = "building"
    /\ UNCHANGED <<read, material, ended, hasBox, frozen, dims, goal, best, inserts,
                   cycle, boxes, shipped, holding, sent, putBack>>

\* The insertions that wait, the routine's own list, and then what was
\* waiting; \box255 should be empty and is emptied.
EndRoutine ==
    /\ pc = "routine"
    /\ contribs' = page \o made \o contribs
    /\ page' = <<>> /\ made' = <<>>
    /\ insertPenalties' = 0
    /\ gone' = gone \o Material(box255.list) \o LinesOf(box255.list)
    /\ box255' = NoBox
    /\ pc' = "building"
    /\ UNCHANGED <<read, material, ended, hasBox, frozen, dims, goal, best, inserts,
                   cycle, boxes, shipped, holding, sent, putBack>>

-----------------------------------------------------------------------------
BuilderStep ==
    \/ Carry \/ Discard \/ FirstBox \/ Weigh \/ BreakPage
    \/ PutOff \/ TakeWhole \/ TakePart \/ Rest

RoutineStep ==
    \/ ShipBare \/ ShipWhole \/ LetInsertsGo \/ EndRoutine
    \/ \E again \in BOOLEAN : Unbox(again)

Next ==
    \/ BuilderStep \/ RoutineStep \/ End \/ EjectLastPages \/ Paragraph
    \/ \E x \in Items : Contribute(x)

Spec == Init /\ [][Next]_vars

(* One thread, that goes on whenever it can.  A document need not go on, nor *)
(* end; an output routine is a finite list of tokens.                        *)
Fairness ==
    /\ WF_vars(BuilderStep) /\ WF_vars(RoutineStep)
    /\ WF_vars(ended /\ (End \/ EjectLastPages))

FairSpec == Spec /\ Fairness

-----------------------------------------------------------------------------
(* What the page builder promises. *)

TypeOK ==
    /\ pc \in {"reading", "building", "routine", "over"}
    /\ read \in 0 .. MaxItems /\ material \in Nat /\ ended \in BOOLEAN
    /\ contribs \in Seq(Node) /\ page \in Seq(Node) /\ made \in Seq(Node)
    /\ hasBox \in BOOLEAN /\ frozen \in BOOLEAN
    /\ dims \in Measures /\ goal \in Int /\ insertPenalties \in Int
    /\ best \in [at : 0 .. Len(page), penalty : Int, size : Int, cost : Int]
    /\ DOMAIN inserts \subseteq Classes
    /\ \A c \in DOMAIN inserts :
          /\ inserts[c] \in [held : Int, split : BOOLEAN, broken : Nat,
                             breakAt : Nat]
          /\ inserts[c].split => /\ inserts[c].broken \in DOMAIN page
                                 /\ page[inserts[c].broken].kind = "insert"
                                 /\ page[inserts[c].broken].class = c
    /\ deadCycles \in 0 .. MaxDeadCycles
    /\ marks \in [top : Nat, first : Nat, bot : Nat] /\ outPenalty \in Int
    /\ box255 \in [void : BOOLEAN, list : Seq(Node), size : Int]
    /\ box255.void \/ pc = "routine"
    /\ boxes \in [Classes -> Seq(LineNode)] /\ holding \in BOOLEAN
    /\ shipped \in Seq(Node \cup LineNode) /\ gone \in Seq(Node \cup LineNode)

Everything ==
    LET within(list) == Material(list) \o LinesOf(list)
        classes == SetToSeq(Classes)
    IN  within(contribs) \o within(page) \o within(made)
        \o within(box255.list) \o shipped \o gone
        \o FlattenSeq([i \in DOMAIN classes |-> within(boxes[classes[i]])])

\* Whatever the document contributed is in one place, and in one only: on a
\* list, in a box, shipped or thrown away, however often a page is put back
\* and an insertion split (fire_up, hold_over_insertions, the routine's end).
NothingLostOrDoubled ==
    /\ Cardinality({<<n.id, n.line>> : n \in ToSet(Everything)})
       = Len(Everything)
    /\ Len(Everything) = material

TextOf(list) == Only(list, LAMBDA n : n.line = 0)

Increasing(list) ==
    \A i, j \in DOMAIN list : i < j => list[i].id < list[j].id

\* Boxes and marks of the text are shipped in the order in which they were
\* written, whatever is put back, held over or thrown away on the way
\* (fire_up, the routine's end).
TextInOrder == Increasing(TextOf(shipped))

\* So are the lines of insertions, and no line comes out on an earlier page
\* than what stood in front of its insertion (hold_over_insertions).
LinesInOrder ==
    LET line(i) == shipped[i].line # 0
    IN  \A i, j \in DOMAIN shipped :
          /\ line(i) /\ line(j) /\ i < j =>
                \/ shipped[i].id < shipped[j].id
                \/ shipped[i].id = shipped[j].id
                   /\ shipped[i].line < shipped[j].line
          /\ ~line(j) /\ line(i) /\ shipped[j].id < shipped[i].id =>
                j < i \/ putBack = "apart"

\* The page and the insertions that go with it are what \vsize has room for:
\* the goal the page was packed to was reduced by exactly what of its
\* insertions was gathered, split ones included.
PageFits == sent.weighed => sent.used = VSize

\* That holds of a page on which no insertions were left by the one before.
PageFitsUnlessLeft == ~sent.onto => PageFits

\* While a routine runs, and none has put a page back, \topmark is
\* the last mark shipped before it, \firstmark and \botmark its own.
MarksAreThePages ==
    pc = "routine" /\ ~box255.void /\ putBack = "never" /\ gone = <<>> =>
       LET before == LastId(MarksOf(shipped))
           on     == MarksOf(box255.list)
       IN  marks = [top   |-> before,
                    first |-> IF on = <<>> THEN before ELSE Head(on).id,
                    bot   |-> IF on = <<>> THEN before ELSE Last(on).id]

\* Once \end has been read everything comes out, whatever the output routine
\* does with its pages: \maxdeadcycles sees to it.
DocumentEnds == ended ~> (pc = "over")
=============================================================================
