------------------------------- MODULE PdfPage -------------------------------
(***************************************************************************)
(* A page as a PDF file has it (pdf_ship, pdf_hlist, pdf_vlist of          *)
(* src/engine.c): text that moves by what the file can say, painted rules, *)
(* literals, colours, links and destinations.                              *)
(*                                                                         *)
(* An operator of the page is [op, arg], an argument in units of the last  *)
(* decimal the file prints.  Virtual, bitmap and expanded fonts and        *)
(* \pdfsetmatrix are left out.                                             *)
(***************************************************************************)
EXTENDS Marks

CONSTANTS
    Digits,               \* \pdfdecimaldigits
    PageWidth, PageHeight,  \* \pdfpagewidth, \pdfpageheight, 0 for the box's own
    HOrigin, VOrigin,     \* \pdfhorigin, \pdfvorigin
    LinkMargin,
    FontSize, FontFile,   \* of each font
    Colours,              \* literals that set a colour
    PageStack             \* whether colour stack 0 is told to each page

VARIABLES
    leaves,      \* the pages written: [ops, annots, places, height]
    fonts,       \* pdf_fonts: the fonts the file has, as pages used them
    colours      \* the colour stack as pages are written

vars == << leaves, fonts, colours >>

-----------------------------------------------------------------------------
(* Numbers. *)

OneHundredBp == 6578176
ThinRule     == 65536
OffsetLimit  == 32767

\* The last decimal, by what is left of the division.
Rounding(sign, up, by, long, left, power) ==
    LET over == 2 * left >= by
    IN  [q   |-> sign * (long + (IF over THEN 1 ELSE 0)),
         out |-> sign * (up - Quot(IF over THEN left - by ELSE left, power))]

\* pdf_divide_scaled: s / m to so many decimals, halves away from zero, and
\* what that stands for.
DivideScaled(s, m, digits) ==
    LET sign == (IF s < 0 THEN -1 ELSE 1) * (IF m < 0 THEN -1 ELSE 1)
        up   == IF s < 0 THEN -s ELSE s
        by   == IF m < 0 THEN -m ELSE m
        step(a, i) == << 10 * a[1] + (10 * a[2]) \div by, (10 * a[2]) % by, 10 * a[3] >>
        long == FoldLeft(step, << up \div by, up % by, 1 >>, [i \in 1 .. digits |-> i])
    IN  Rounding(sign, up, by, long[1], long[2], long[3])

\* pdf_bp_units, pdf_number
Units(size) == DivideScaled(size, OneHundredBp, Digits + 2).q

\* pdf_stated_size, pdf_glyph_advance, pdf_text_offset
AtLeastOne(out) == IF out = 0 THEN 1 ELSE out
Stated(size) == AtLeastOne(DivideScaled(size, OneHundredBp, 6).out)
StatedSize(font) == Stated(FontSize[font])
GlyphAdvance(node) == DivideScaled(Packed(node.width), StatedSize(node.font), 4).out
TextOffset(font, pen, h) == DivideScaled(h - pen, StatedSize(font), 3)

\* pdf_step_names_a_place
NamesAPlace(step) ==
    LET least == OneHundredBp \div (100 * 10 ^ Digits)
    IN  step > least \/ step < -least

-----------------------------------------------------------------------------
(* The page being written. *)

Say(d, op, arg) == [d EXCEPT !.out = Append(@, [op |-> op, arg |-> arg])]

\* pdf_end_string, pdf_end_array, pdf_end_text
EndString(d) == IF d.inString THEN [Say(d, ")", 0) EXCEPT !.inString = FALSE] ELSE d
CloseArray(d) == IF d.inArray THEN [Say(d, "]TJ", 0) EXCEPT !.inArray = FALSE] ELSE d
EndArray(d) == CloseArray(EndString(d))
CloseText(d) ==
    IF d.inText
    THEN [Say(d, "ET", 0) EXCEPT !.inText = FALSE, !.placed = FALSE, !.font = 0,
                                 !.lineH = 0, !.lineV = 0]
    ELSE d
EndText(d) == CloseText(EndArray(d))

\* pdf_font_entry: fonts of one file are one font, numbered as the first.
Entry(all, font) ==
    LET same == {i \in 1 .. Len(all) : FontFile[all[i]] = FontFile[font]}
    IN  IF same = {} THEN [number |-> font - 1, all |-> Append(all, font)]
        ELSE [number |-> all[Min(same)] - 1, all |-> all]

\* pdf_place_physical_character, step by step: a text object; its font; a
\* place, named as the step from where the line began; a correction; the glyph.
Begun(d) ==
    IF d.inText THEN d
    ELSE [Say(d, "BT", 0) EXCEPT !.inText = TRUE, !.placed = FALSE, !.font = 0,
                                 !.told = <<0, 0>>]

InFont(d, font) ==
    LET entry == Entry(d.fonts, font)
        told  == << entry.number, FontSize[font] >>
        e     == EndArray(d)
    IN  CASE d.font = font -> [d EXCEPT !.fonts = entry.all]
          [] d.font # font /\ d.font # 0 /\ d.told = told ->
                 [e EXCEPT !.font = font, !.fonts = entry.all]
          [] OTHER -> [Say(e, "Tf", told) EXCEPT !.font = font, !.told = told,
                                                 !.fonts = entry.all]

Moved(d, across, up) ==
    [Say(d, "Td", << across.q, up.q >>)
       EXCEPT !.lineH = @ + across.out, !.lineV = @ + up.out,
              !.pen = d.lineH + across.out, !.placed = TRUE]

Stepped(d, h, v, down) ==
    Moved(EndArray(d), DivideScaled(h - d.lineH, OneHundredBp, Digits + 2),
          IF down THEN DivideScaled((d.height - v) - d.lineV, OneHundredBp, Digits + 2)
          ELSE [q |-> 0, out |-> 0])

InArray(d) == IF d.inArray THEN d ELSE [Say(d, "[", 0) EXCEPT !.inArray = TRUE]
InString(d) == IF d.inString THEN d ELSE [Say(d, "(", 0) EXCEPT !.inString = TRUE]

Offset(d, h, offset) ==
    IF h = d.pen \/ offset.q = 0 THEN d
    ELSE [Say(EndString(d), "offset", -offset.q) EXCEPT !.pen = d.pen + offset.out]

Corrected(d, h) == Offset(InArray(d), h, TextOffset(d.font, d.pen, h))

Glyph(d, node) == [Say(InString(d), "glyph", node) EXCEPT !.pen = @ + GlyphAdvance(node)]

\* In its font, after a step where there must be one.
Placed(b, f, node, h, v) ==
    LET names == NamesAPlace((b.height - v) - b.lineV)
        far   == LET q == TextOffset(node.font, f.pen, h).q
                 IN  h # f.pen /\ (q > OffsetLimit \/ q < -OffsetLimit)
    IN  IF ~b.placed \/ names \/ b.font # node.font \/ far THEN Stepped(f, h, v, names) ELSE f

PlaceFrom(b, node, h, v) ==
    Glyph(Corrected(Placed(b, InFont(b, node.font), node, h, v), h), node)

PlaceCharacter(d, node, h, v) == PlaceFrom(Begun(d), node, h, v)

\* pdf_place_rule: a thin rule is a line down its middle.
PlaceRule(d, left, bottom, width, height) ==
    LET flat    == height <= ThinRule
        upright == ~flat /\ width <= ThinRule
        x == IF upright THEN left + (width + 1) \div 2 ELSE left
        y == d.height - bottom + (IF flat THEN height \div 2 + 1 ELSE 0)
        how     == IF flat THEN "flat" ELSE IF upright THEN "upright" ELSE "full"
        painted == << how, Units(IF flat THEN height ELSE width), Units(IF flat THEN width ELSE height) >>
    IN  IF width <= 0 \/ height <= 0 THEN d
        ELSE Say(Say(Say(Say(EndText(d), "literal", "q"), "cm", << Units(x), Units(y) >>),
                     "paint", painted), "literal", "Q")

\* pdf_write_literal: text at a place, and back; a size and its negative are the same number.
At(d, text, across, up) ==
    Say(Say(Say(d, "cm", << across, up >>), "literal", text), "cm", << -across, -up >>)

Literal(d, text, place, h, v) ==
    CASE place = "direct" -> Say(EndArray(d), "literal", text)
      [] place = "page"   -> Say(EndText(d), "literal", text)
      [] place = "origin" -> At(EndText(d), text, Units(h), Units(d.height - v))

InitialColour == "black"

\* pdf_colour_current
Shown(stack) == IF stack = <<>> THEN InitialColour ELSE stack[Len(stack)]

\* pdf_whatsit; a late literal is the next of those that were expanded when
\* the page was shipped.
Colour(d, node, h, v) ==
    LET below == IF d.colours = <<>> THEN <<>> ELSE SubSeq(d.colours, 1, Len(d.colours) - 1)
        after == CASE node.action = "push"    -> Append(d.colours, node.text)
                   [] node.action = "set"     -> Append(below, node.text)
                   [] node.action = "pop"     -> below
                   [] node.action = "current" -> d.colours
        text  == IF node.action \in {"push", "set"} THEN node.text ELSE Shown(after)
    IN  Literal([d EXCEPT !.colours = after], text, "direct", h, v)

Whatsit(d, node, h, v) ==
    CASE node.what \in {"save", "restore"} ->
             Literal(d, IF node.what = "save" THEN "q" ELSE "Q", "origin", h, v)
      [] node.what = "colour"  -> Colour(d, node, h, v)
      [] node.what = "literal" /\ (node.late => d.queue # <<>>) ->
             Literal([d EXCEPT !.queue = IF node.late THEN Tail(@) ELSE @],
                     IF node.late THEN d.queue[1] ELSE node.text, node.place, h, v)
      [] node.what = "literal" /\ node.late /\ d.queue = <<>> -> [d EXCEPT !.fault = TRUE]
      [] OTHER -> d

\* pdf_add_annotation, pdf_add_placement, pdf_link_open_segment,
\* pdf_link_close_segment, pdf_annotate
Annotated(d, id, link, left, right, top, foot, margin) ==
    [d EXCEPT !.annots = Append(@,
        [id |-> id, link |-> link, left |-> left - margin, right |-> right + margin,
         bottom |-> d.height - foot - margin, top |-> d.height - top + margin])]

NoLink == [open |-> FALSE, measuring |-> FALSE, id |-> 0, level |-> 0, width |-> 0,
           start |-> 0, top |-> 0, foot |-> 0]

OpenSegment(d, left, top, foot) ==
    IF ~d.link.open \/ d.link.measuring THEN d
    ELSE [d EXCEPT !.link.measuring = TRUE, !.link.start = left,
                   !.link.top = top, !.link.foot = foot]
\* Mutant of CloseSegment: the link is over where its first line ends.
CloseSegmentForGood(d, right) ==
    IF ~d.link.open \/ ~d.link.measuring THEN d
    ELSE LET stop == IF d.link.width = Running THEN right ELSE d.link.start + d.link.width
         IN  [Annotated(d, d.link.id, TRUE, d.link.start, stop, d.link.top, d.link.foot,
                        LinkMargin) EXCEPT !.link.measuring = FALSE, !.link.open = FALSE]

CloseSegment(d, right) ==
    IF ~d.link.open \/ ~d.link.measuring THEN d
    ELSE LET stop == IF d.link.width = Running THEN right ELSE d.link.start + d.link.width
         IN  [Annotated(d, d.link.id, TRUE, d.link.start, stop, d.link.top, d.link.foot, LinkMargin)
                EXCEPT !.link.measuring = FALSE]

\* A rectangle takes what runs from the list it stands in.
Annotate(d, node, here, base, edge, boxBase, box) ==
    LET top  == IF node.height = Running THEN boxBase - Packed(box.height) ELSE base - node.height
        foot == IF node.depth = Running THEN boxBase + Packed(box.depth) ELSE base + node.depth
        right == IF node.width = Running THEN edge ELSE here + node.width
    IN  CASE node.what = "annot" -> Annotated(d, node.id, FALSE, here, right, top, foot, 0)
          [] node.what = "startlink" /\ ~d.link.open ->
                 OpenSegment([d EXCEPT !.link = [NoLink EXCEPT !.open = TRUE, !.id = node.id,
                                                 !.level = d.level, !.width = node.width]],
                             here, top, foot)
          [] node.what = "endlink" /\ d.link.open ->
                 [CloseSegment(d, here) EXCEPT !.link.open = FALSE]
          [] node.what = "dest" ->
                 [d EXCEPT !.places = Append(@, [id |-> node.id, left |-> here,
                                                 top |-> d.height - base])]
          [] OTHER -> d

-----------------------------------------------------------------------------
(* The walk. *)

RECURSIVE Walk(_, _, _, _)

Inside(d, node, left, edge) ==
    IF ~HasContent(node) THEN d
    ELSE [Walk([d EXCEPT !.level = @ + 1], node, left, edge) EXCEPT !.level = d.level]

\* A box at its reference point: a vertical list goes by its upper edge.
Corner(node, base) == IF node.box.kind = "vlist" THEN base - Packed(node.height) ELSE base

\* pdf_hlist
Across1(acc, node, box, left, base) ==
    LET d     == acc.d
        here  == acc.here
        width == Packed(node.width)
        led   == node.leader[1]
        rule(r, wide) ==
            PlaceRule(d, here, base + RuleSize(r.depth, Packed(box.depth)), wide,
                      RuleSize(r.height, Packed(box.height)) + RuleSize(r.depth, Packed(box.depth)))
        on(e, by) == [acc EXCEPT !.d = e, !.here = here + by]
    IN  CASE node.kind = "char" -> on(PlaceCharacter(d, node, here, base), width)
          [] node.kind = "list" ->
                 on(Inside(d, node, here, Corner(node, base + Packed(node.shift))), width)
          [] node.kind = "rule" -> on(rule(node, width), width)
          [] node.kind = "glue" ->
                 LET run    == SetGlueStep(Set(box), acc.run, node.glue)
                     amount == width + run.given - acc.run.given
                     size   == Packed(led.width)
                     places == RunPlaces(LeaderRun(node.leaders, here, left, amount, size),
                                         here + amount + 10, size)
                     one(e, at) == Inside(e, led, at, Corner(led, base + Packed(led.shift)))
                     filled == CASE ~HasLeader(node) -> d
                                 [] HasLeader(node) /\ led.kind = "rule" -> rule(led, amount)
                                 [] HasLeader(node) /\ led.kind = "list" ->
                                        IF size > 0 /\ amount > 0
                                        THEN FoldLeft(one, d, places) ELSE d
                 IN  [d |-> filled, run |-> run, here |-> here + amount]
          [] node.kind \in {"kern", "math"} -> on(d, width)
          [] node.kind = "whatsit" ->
                 on(Annotate(Whatsit(d, node, here, base), node, here, base,
                             left + Packed(box.width), base, box), 0)
          [] OTHER -> acc

\* A link that stands in boxes of this depth has a rectangle in each.
Leave(d, right) == IF d.link.level = d.level + 1 THEN CloseSegment(d, right) ELSE d

\* pdf_vlist: a link met in one box of the list has a rectangle in each that
\* follows, until it ends.
Down1(acc, node, box, left, top) ==
    LET d     == acc.d
        here  == acc.here
        size  == Packed(node.height) + Packed(node.depth)
        led   == node.leader[1]
        on(e, by) == [acc EXCEPT !.d = e, !.here = here + by]
    IN  CASE node.kind = "list" ->
                 LET at    == left + Packed(node.shift)
                     begun == IF d.link.level = d.level + 1 /\ node.box.kind = "hlist"
                              THEN OpenSegment(d, at, here, here + size) ELSE d
                 IN  on(Leave(Inside(begun, node, at, Corner(node, here + Packed(node.height))),
                              at + Packed(node.width)), size)
          [] node.kind = "rule" ->
                 on(PlaceRule(d, left, here + size, RuleSize(node.width, Packed(box.width)), size),
                    size)
          [] node.kind = "glue" ->
                 LET run    == SetGlueStep(Set(box), acc.run, node.glue)
                     amount == Packed(node.width) + run.given - acc.run.given
                     reach  == Packed(led.height) + Packed(led.depth)
                     places == RunPlaces(LeaderRun(node.leaders, here, top, amount, reach),
                                         here + amount + 10, reach)
                     one(e, at) == Inside(e, led, left + Packed(led.shift),
                                          Corner(led, at + Packed(led.height)))
                     filled == CASE ~HasLeader(node) -> d
                                 [] HasLeader(node) /\ led.kind = "rule" ->
                                        PlaceRule(d, left, here + amount,
                                                  RuleSize(led.width, Packed(box.width)), amount)
                                 [] HasLeader(node) /\ led.kind = "list" ->
                                        IF reach > 0 /\ amount > 0
                                        THEN FoldLeft(one, d, places) ELSE d
                 IN  [d |-> filled, run |-> run, here |-> here + amount]
          [] node.kind = "kern" -> on(d, Packed(node.width))
          [] node.kind = "whatsit" ->
                 on(Annotate(Whatsit(d, node, left, here), node, left, here,
                             left + Packed(box.width), top + Packed(box.height), box), 0)
          [] OTHER -> acc

Walk(d, box, left, edge) ==
    FoldLeft(LAMBDA acc, node : IF box.box.kind = "vlist" THEN Down1(acc, node, box, left, edge)
                                ELSE Across1(acc, node, box, left, edge),
             [d |-> d, run |-> NothingPassed, here |-> IF box.box.kind = "vlist" THEN edge ELSE left],
             Items(box)).d

-----------------------------------------------------------------------------
(* Pages. *)

\* collect_whatsits: what the page expands before it is described, box by
\* box, but not what leaders repeat.
RECURSIVE Late(_)
Late(box) ==
    FlattenSeq([i \in 1 .. Len(Items(box)) |->
        LET n == Items(box)[i]
        IN  CASE n.kind = "list" -> Late(n)
              [] n.kind = "whatsit" /\ n.what = "literal" -> IF n.late THEN <<n.text>> ELSE <<>>
              [] OTHER -> <<>>])

Init == leaves = <<>> /\ fonts = <<>> /\ colours = <<>>

\* pdf_page_colours
Coloured(d, h, v) ==
    IF ~PageStack \/ d.colours = <<>> \/ Shown(d.colours) = InitialColour THEN d
    ELSE Literal(d, Shown(d.colours), "page", h, v)

\* pdf_ship
Ship(box) ==
    LET outer  == ListNode(box, 0)
        height == IF PageHeight > 0 THEN PageHeight ELSE box.height + box.depth + 2 * VOrigin
        blank  == [out |-> <<>>, inText |-> FALSE, inArray |-> FALSE, inString |-> FALSE,
                   placed |-> FALSE, font |-> 0, told |-> <<0, 0>>, lineH |-> 0, lineV |-> 0,
                   pen |-> 0, height |-> height, fonts |-> fonts, colours |-> colours,
                   queue |-> Late(outer), annots |-> <<>>, places |-> <<>>, link |-> NoLink,
                   level |-> 0, fault |-> FALSE]
        begun  == Coloured(blank, HOrigin, height - VOrigin)
    IN  \E d \in {EndText(Walk(begun, outer, HOrigin, Corner(outer, VOrigin + box.height)))} :
           \E e \in {CloseSegment(d, HOrigin + box.width)} :
              /\ leaves' = Append(leaves, [ops |-> e.out, annots |-> e.annots,
                                           places |-> e.places, height |-> height,
                                           box |-> outer, fault |-> e.fault])
              /\ fonts' = e.fonts
              /\ colours' = e.colours

-----------------------------------------------------------------------------
(* What a reader of the pages sees. *)

\* a * b / c, in whole scaled points.
Times(a, b, c) == a * (b \div c) + (a * (b % c)) \div c
InPoints(units) == Times(units, OneHundredBp, 10 ^ (Digits + 2))

Legal == [ page   |-> {"BT", "literal", "cm", "paint"},
           text   |-> {"ET", "Tf", "Td", "[", "literal"},
           array  |-> {"(", "offset", "]TJ"},
           string |-> {")", "glyph"} ]
Then(s, c) == CASE c.op \in {"BT", "]TJ"} -> "text"
                [] c.op = "ET"             -> "page"
                [] c.op \in {"[", ")"}     -> "array"
                [] c.op = "("              -> "string"
                [] OTHER                   -> s.mode

SaysColour(text) == text \in Colours

ReadOperator(s, c) ==
    LET at(x, y) == << InPoints(s.x + x), InPoints(s.y + y) >>
        seen(what, place, of) ==
            Append(s.marks, [what |-> what, h |-> place[1], v |-> place[2], of |-> of,
                             colour |-> s.colour])
        after ==
          CASE c.op = "BT" -> [s EXCEPT !.lineX = 0, !.lineY = 0, !.pen = 0]
            [] c.op = "Tf" -> [s EXCEPT !.told = c.arg, !.size = Stated(c.arg[2])]
            [] c.op = "Td" -> [s EXCEPT !.lineX = @ + c.arg[1], !.lineY = @ + c.arg[2], !.pen = 0]
            [] c.op = "offset" -> [s EXCEPT !.pen = @ - 10 * c.arg]
            [] c.op = "glyph" ->
                   [s EXCEPT !.marks = seen("char",
                                << at(s.lineX, 0)[1] + Times(s.pen, s.size, 10000),
                                   at(0, s.lineY)[2] >>, << c.arg.char, s.told >>),
                             !.pen = @ + DivideScaled(Packed(c.arg.width), s.size, 4).q]
            [] c.op = "cm" -> [s EXCEPT !.x = @ + c.arg[1], !.y = @ + c.arg[2]]
            [] c.op = "paint" ->
                   LET thick == InPoints(c.arg[2])
                       long  == InPoints(c.arg[3])
                   IN  [s EXCEPT !.marks =
                          CASE c.arg[1] = "flat" ->
                                   seen("rule", << at(0, 0)[1], at(0, 0)[2] - thick \div 2 >>,
                                        << thick, long >>)
                            [] c.arg[1] = "upright" ->
                                   seen("rule", << at(0, 0)[1] - thick \div 2, at(0, 0)[2] >>,
                                        << long, thick >>)
                            [] OTHER -> seen("rule", at(0, 0), << long, thick >>)]
            [] c.op = "literal" ->
                   CASE c.arg = "q" ->
                            [s EXCEPT !.saved = Append(@, << s.x, s.y, s.colour >>)]
                     [] c.arg = "Q" /\ s.saved # <<>> ->
                            LET top == s.saved[Len(s.saved)]
                            IN  [s EXCEPT !.x = top[1], !.y = top[2], !.colour = top[3],
                                          !.saved = SubSeq(@, 1, Len(@) - 1)]
                     [] c.arg = "Q" /\ s.saved = <<>> -> [s EXCEPT !.legal = FALSE]
                     [] SaysColour(c.arg) -> [s EXCEPT !.colour = c.arg]
                     [] OTHER -> [s EXCEPT !.marks = seen("literal", at(0, 0), c.arg)]
            [] OTHER -> s
    IN  [after EXCEPT !.mode = Then(s, c), !.legal = @ /\ c.op \in Legal[s.mode]]

ReadPage(leaf) ==
    FoldLeft(ReadOperator,
             [mode |-> "page", x |-> 0, y |-> 0, lineX |-> 0, lineY |-> 0, pen |-> 0,
              told |-> <<0, 0>>, size |-> 1, saved |-> <<>>, colour |-> InitialColour,
              marks |-> <<>>, legal |-> TRUE], leaf.ops)

\* The marks of the pages, each in the colour that is last asked for, from
\* one page to the next.
MarksOfLeaf(p) == MarksOf(leaves[p].box, HOrigin, VOrigin + leaves[p].box.height)
InColour(before, marks) ==
    FoldLeft(LAMBDA s, m :
               CASE m.what = "colour" ->
                      LET all  == s.stack
                          less == IF all = <<>> THEN <<>> ELSE SubSeq(all, 1, Len(all) - 1)
                          now  == CASE m.of.action = "push" -> Append(all, m.of.text)
                                    [] m.of.action = "set"  -> Append(less, m.of.text)
                                    [] m.of.action = "pop"  -> less
                                    [] OTHER -> all
                      IN  [s EXCEPT !.stack = now, !.colour = Shown(now)]
                 [] m.what = "save" -> [s EXCEPT !.saved = Append(@, s.colour)]
                 [] m.what = "restore" ->
                      [s EXCEPT !.colour = s.saved[Len(s.saved)],
                                !.saved = SubSeq(@, 1, Len(@) - 1)]
                 [] m.what \in {"char", "rule", "literal"} ->
                      [s EXCEPT !.marks = Append(@, With(m, [colour |-> s.colour]))]
                 [] OTHER -> s,
             [before EXCEPT !.marks = <<>>], marks)
AllInColour ==
    LET page[p \in 0 .. Len(leaves)] ==
            IF p = 0 THEN [stack |-> <<>>, colour |-> InitialColour, saved |-> <<>>, marks |-> <<>>]
            ELSE InColour(page[p - 1], MarksOfLeaf(p))
    IN  page

Near(a, b, by) == a - b <= by /\ b - a <= by

\* What is seen is what belongs there: nothing is further off than the
\* numbers of the file make it.
Shows(seen, due, leaf) ==
    LET unit == InPoints(1) + 1
        low  == leaf.height - due.v
    IN  /\ seen.what = due.what
        /\ CASE due.what = "char" ->
                    /\ seen.of[1] = due.of[1]
                    /\ seen.of[2][2] = FontSize[due.of[2]]
                    /\ FontFile[seen.of[2][1] + 1] = FontFile[due.of[2]]
                    /\ Near(seen.h, due.h, StatedSize(due.of[2]) \div 2000 + 16)
                    /\ Near(seen.v, low, unit + 16)
             [] due.what = "rule" ->
                    /\ Near(seen.h, due.h, unit) /\ Near(seen.v, low, unit)
                    /\ Near(seen.of[1], due.of[1], unit) /\ Near(seen.of[2], due.of[2], unit)
             [] due.what = "literal" ->
                    /\ seen.of = due.of.text
                    /\ due.of.place = "origin" => Near(seen.h, due.h, unit) /\ Near(seen.v, low, unit)
        /\ seen.colour = due.colour

\* A reader of the page finds every character, rule and literal where the
\* boxes put them, in its font and its colour, however long the line and
\* whatever stood before: what the file's numbers cannot say does not add up
\* (pdf_place_physical_character, pdf_place_rule, pdf_write_literal,
\* pdf_page_colours); strings, arrays and text objects are ended where they
\* must be.
PagesShowTheBoxes ==
    leaves # <<>> =>
    \E page \in {AllInColour} : \A p \in 1 .. Len(leaves) :
        \E seen \in {ReadPage(leaves[p])} :
            /\ ~leaves[p].fault
            /\ seen.legal /\ seen.mode = "page"
            /\ Len(seen.marks) = Len(page[p].marks)
            /\ \A i \in 1 .. Len(seen.marks) : Shows(seen.marks[i], page[p].marks[i], leaves[p])

\* What stands between the two ends of a link, on however many lines, is
\* covered by its rectangles, and nothing else on the page is
\* (pdf_link_open_segment, pdf_link_close_segment, pdf_vlist).
LinksCoverTheirText ==
    \A p \in 1 .. Len(leaves) : \A marks \in {MarksOfLeaf(p)} :
        LET n     == Len(marks)
            last(i) == Min({j \in i .. n : marks[j].what = "endlink"} \cup {n + 1})
            inside(m, a) ==
                LET up == leaves[p].height - m.v
                IN  /\ a.left <= m.h /\ m.h + m.of[3] <= a.right
                    /\ a.bottom <= up /\ up <= a.top
            outer(i) == \A j \in 1 .. i - 1 : marks[j].what = "startlink" => last(j) < i
        IN  \A k \in 1 .. n : marks[k].what = "char" =>
                ((\E i \in 1 .. k : /\ marks[i].what = "startlink" /\ outer(i)
                                   /\ k < last(i))
                 <=> \E a \in ToSet(leaves[p].annots) : a.link /\ inside(marks[k], a))
=============================================================================
