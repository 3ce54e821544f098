-------------------------------- MODULE Marks --------------------------------
(***************************************************************************)
(* What a box tree puts on a page, and where: what dvi_hlist, dvi_vlist,   *)
(* pdf_hlist and pdf_vlist of src/engine.c share, and the marks that any   *)
(* description of the page is to show.                                     *)
(***************************************************************************)
EXTENDS Packing

HasContent(node) == node.box.kind # "void" /\ node.box.items # <<>>

Items(node) == IF node.box.kind = "void" THEN <<>> ELSE node.box.items
Set(node)   == IF node.box.kind = "void" THEN NotSet ELSE node.box.set

\* dvi_rule_dimen
RuleSize(size, reach) == IF size = Running THEN reach ELSE size

\* leader_run: where the boxes of a run of leaders stand, from at to limit.
Quot(a, b) == IF a >= 0 THEN a \div b ELSE -((-a) \div b)
LeaderRun(kind, here, edge, amount, leader) ==
    LET room      == amount + 10
        quotient  == room \div leader
        remainder == room % leader
        spread    == remainder \div (quotient + 1)
        snapped   == edge + leader * Quot(here - edge, leader)
    IN  CASE kind = "aligned"  -> [at |-> IF snapped < here THEN snapped + leader
                                         ELSE snapped, step |-> leader]
          [] kind = "centered" -> [at |-> here + remainder \div 2, step |-> leader]
          [] kind = "expanded" -> [at |-> here + Quot(remainder - (quotient - 1) * spread, 2),
                                   step |-> leader + spread]

\* The places of such a run that fall within the glue.
RunPlaces(run, limit, leader) ==
    [k \in 1 .. (IF run.at + leader > limit THEN 0
                 ELSE (limit - leader - run.at) \div run.step + 1) |->
        run.at + (k - 1) * run.step]

-----------------------------------------------------------------------------
(* The marks that belong on the page, worked out from sizes alone.         *)

\* Where the marks of a box tree belong, from the sizes of what stands before
\* each thing.
GlueBefore(box, i) ==
    FoldLeft(LAMBDA run, n : SetGlueStep(Set(box), run, n.glue), NothingPassed,
             GlueIn(SubSeq(Items(box), 1, i))).given

Extent(node, down) ==
    CASE node.kind \in {"glue", "kern", "math"} -> Packed(node.width)
      [] node.kind \in {"list", "rule", "char"} ->
             IF down THEN Packed(node.height) + Packed(node.depth) ELSE Packed(node.width)
      [] OTHER -> 0

SolidBefore(box, i, down) ==
    FoldLeft(LAMBDA sum, n : sum + (IF down /\ n.kind = "char" THEN 0 ELSE Extent(n, down)),
             0, SubSeq(Items(box), 1, i))

\* Along the list, how far in the edges of its i-th item are.
Edge(box, i, down) == SolidBefore(box, i, down) + GlueBefore(box, i)

\* The multiples of a leader's size, counted from the edge of the box, that
\* it fits behind; or as many as fit, together in the middle or spread out.
LeaderPlaces(kind, from, to, edge, size) ==
    LET room == to + 10 - from
        q    == room \div size
        first == edge - size * ((edge - from) \div size)
        fit   == (to + 10 - first) \div size
        gap  == (room % size) \div (q + 1)
        lead == ((room % size) - (q - 1) * gap) \div 2
    IN  CASE kind = "aligned"  -> [k \in 1 .. Larger(0, fit) |-> first + (k - 1) * size]
          [] kind = "centered" -> [k \in 1 .. q |-> from + (room % size) \div 2 + (k - 1) * size]
          [] kind = "expanded" -> [k \in 1 .. q |-> from + lead + (k - 1) * (size + gap)]

RuleMark(across, tall, x, y) ==
    IF across > 0 /\ tall > 0
    THEN << [what |-> "rule", h |-> x, v |-> y, of |-> <<tall, across>>] >> ELSE <<>>

RECURSIVE MarksOf(_, _, _)

\* The marks of a thing that reaches from here to there along its list, whose
\* reference point is at (h, v) and whose edge is top.
MarksAlong(box, n, from, to, h, v, top) ==
    LET down == box.box.kind = "vlist"
        x    == IF down THEN h ELSE h + from
        y    == IF down THEN top + from ELSE v
        up(r)  == RuleSize(r.height, Packed(box.height))
        low(r) == RuleSize(r.depth, Packed(box.depth))
        rule(r, length) ==
            IF down THEN RuleMark(RuleSize(r.width, Packed(box.width)), length, x, top + to)
            ELSE RuleMark(length, up(r) + low(r), x, y + low(r))
        led  == n.leader[1]
        size == IF down THEN Packed(led.height) + Packed(led.depth) ELSE Packed(led.width)
        repeat(place) == IF down THEN MarksOf(led, x + led.shift, top + place + Packed(led.height))
                         ELSE MarksOf(led, h + place, y + led.shift)
        repeats(places) == FlattenSeq([k \in 1 .. Len(places) |-> repeat(places[k])])
    IN  CASE n.kind = "char" ->
                 IF down THEN <<>>
                 ELSE << [what |-> "char", h |-> x, v |-> y, of |-> <<n.char, n.font, n.width>>] >>
          [] n.kind = "whatsit" -> << [what |-> n.what, h |-> x, v |-> y, of |-> n] >>
          [] n.kind = "list" ->
                 IF down THEN MarksOf(n, x + n.shift, y + Packed(n.height))
                 ELSE MarksOf(n, x, y + n.shift)
          [] n.kind = "rule" -> rule(n, Extent(n, down))
          [] n.kind = "glue" ->
                 IF ~HasLeader(n) \/ to <= from THEN <<>>
                 ELSE IF led.kind = "rule" THEN rule(led, to - from)
                 ELSE IF size <= 0 THEN <<>>
                 ELSE repeats(LeaderPlaces(n.leaders, from, to, 0, size))
          [] OTHER -> <<>>

MarksOf(box, h, v) ==
    LET down == box.box.kind = "vlist"
    IN  FlattenSeq([i \in 1 .. Len(Items(box)) |->
            MarksAlong(box, Items(box)[i], Edge(box, i - 1, down), Edge(box, i, down),
                       h, v, v - Packed(box.height))])
=============================================================================
