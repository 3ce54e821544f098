--------------------------------- MODULE Dvi ---------------------------------
(***************************************************************************)
(* The DVI file of src/engine.c: dvi_ship puts a box tree down as a stream *)
(* of commands for a reader that keeps a place, four movement registers    *)
(* and a stack; dvi_open and dvi_close write what stands around the pages. *)
(*                                                                         *)
(* A command is [op, arg, size], size being the bytes it takes; a place in *)
(* the file is a number of bytes.  Lengths are small here, and never wrap. *)
(***************************************************************************)
EXTENDS Marks

CONSTANTS
    HalfBuffer,       \* HSTEX_DVI_HALF_BUFFER
    HOffset, VOffset  \* \hoffset, \voffset

VARIABLES
    file,        \* the commands written
    written,     \* dvi_written: their bytes
    lastBop,     \* dvi_last_bop
    defined,     \* dvi_fonts: the fonts defined so far, in that order
    pages,       \* dvi_pages
    maxV, maxH, maxPush,
    phase,       \* unopened, open, closed
    shipped      \* history: the boxes shipped

vars == << file, written, lastBop, defined, pages, maxV, maxH, maxPush, phase,
           shipped >>

-----------------------------------------------------------------------------
(* The page being described: the commands it has, where the reader stands  *)
(* (h, v), where the next thing belongs (curH, curV), the movements made.  *)

Command(op, arg, size) == [op |-> op, arg |-> arg, size |-> size]

Emit(d, op, arg, size) ==
    [d EXCEPT !.out = Append(@, Command(op, arg, size)), !.size = @ + size]

\* dvi_movement_width
MovementWidth(value) ==
    LET size == IF value < 0 THEN -value ELSE value
    IN  CASE size < 128                       -> 1
          [] size >= 128 /\ size < 32768      -> 2
          [] size >= 32768 /\ size < 8388608  -> 3
          [] OTHER                            -> 4

\* dvi_gone: what the reference has put out already.
Gone(d) ==
    LET halves == (d.before + d.size) \div HalfBuffer
    IN  IF halves < 2 THEN 0 ELSE (halves - 1) * HalfBuffer

Plain(down)      == IF down THEN "down" ELSE "right"
Sets(down, r)    == IF down THEN <<"y", "z">>[r] ELSE <<"w", "x">>[r]
Repeats(down, r) == IF down THEN <<"y0", "z0">>[r] ELSE <<"w0", "x0">>[r]

MovesOf(d, down) == IF down THEN d.downs ELSE d.rights
WithMoves(d, down, all) == IF down THEN [d EXCEPT !.downs = all] ELSE [d EXCEPT !.rights = all]

Made(d, value, held) ==
    [value |-> value, at |-> Len(d.out) + 1, pos |-> d.before + d.size,
     held |-> held, taken |-> {}, level |-> d.depth]

\* A movement written out, and one that repeats the i-th made, in register r.
Afresh(d, moves, value, down) ==
    WithMoves(Emit(d, Plain(down), value, 1 + MovementWidth(value)), down,
              Append(moves, Made(d, value, 0)))

Again(d, moves, value, down, i, r) ==
    LET old   == moves[i]
        after == [j \in DOMAIN moves |->
                     IF j > i THEN [moves[j] EXCEPT !.taken = @ \cup {r}]
                     ELSE IF j = i THEN [moves[j] EXCEPT !.held = r]
                     ELSE moves[j]]
        told  == [d EXCEPT !.out[old.at].op = IF old.held = 0 THEN Sets(down, r) ELSE @]
    IN  IF old.held = 0 /\ old.pos < Gone(d) THEN Afresh(d, moves, value, down)
        ELSE WithMoves(Emit(told, Repeats(down, r), value, 1), down,
                       Append(after, Made(d, value, r)))

\* Mutant of Movement: a register that was lost on the way is taken for free.
MovementHeld(d, value, down) ==
    LET moves  == MovesOf(d, down)
        free(i, r)  == \A j \in i + 1 .. Len(moves) : moves[j].held # r
        open(i, r)  == free(i, r)
        usable == {i \in DOMAIN moves :
                     /\ moves[i].value = value
                     /\ \/ moves[i].held # 0 /\ free(i, moves[i].held)
                        \/ moves[i].held = 0 /\ \E r \in 1 .. 2 : open(i, r)}
        first(i) == CASE moves[i].held # 0 -> moves[i].held
                      [] moves[i].held = 0 /\ open(i, 1) -> 1
                      [] OTHER -> 2
    IN  IF usable = {} THEN Afresh(d, moves, value, down)
        ELSE Again(d, moves, value, down, Max(usable), first(Max(usable)))

\* dvi_movement: a movement is written as the repeat of an earlier one of the
\* same size, if a register can hold that one from there to here.
Movement(d, value, down) ==
    LET moves  == MovesOf(d, down)
        free(i, r)  == \A j \in i + 1 .. Len(moves) : moves[j].held # r
        open(i, r)  == free(i, r) /\ r \notin moves[i].taken
        usable == {i \in DOMAIN moves :
                     /\ moves[i].value = value
                     /\ \/ moves[i].held # 0 /\ free(i, moves[i].held)
                        \/ moves[i].held = 0 /\ \E r \in 1 .. 2 : open(i, r)}
        first(i) == CASE moves[i].held # 0 -> moves[i].held
                      [] moves[i].held = 0 /\ open(i, 1) -> 1
                      [] OTHER -> 2
    IN  IF usable = {} THEN Afresh(d, moves, value, down)
        ELSE Again(d, moves, value, down, Max(usable), first(Max(usable)))

\* dvi_synch_h, dvi_synch_v, dvi_synch
SynchH(d) == IF d.h = d.curH THEN d
             ELSE [Movement(d, d.curH - d.h, FALSE) EXCEPT !.h = d.curH]
SynchV(d) == IF d.v = d.curV THEN d
             ELSE [Movement(d, d.curV - d.v, TRUE) EXCEPT !.v = d.curV]
Synch(d)  == SynchV(SynchH(d))

\* The number a font has in the file, as it is written: in one byte.
Number(font)   == font - 2
Written(font)  == Number(font) % 256

\* dvi_font_number, dvi_font_definition, dvi_select_font
SelectFont(d, font) ==
    LET told == IF \E i \in 1 .. Len(d.defined) : d.defined[i] = font THEN d
                ELSE [Emit(d, "fontdef", <<Written(font), font>>, 16)
                        EXCEPT !.defined = Append(@, font)]
    IN  IF d.font = Number(font) THEN told
        ELSE [Emit(told, "font", Written(font), IF Number(font) < 64 THEN 1 ELSE 2)
                EXCEPT !.font = Number(font)]

\* dvi_prune_movements: those made in a box that has ended.
Forgotten(d) ==
    LET kept(moves) == SelectSeq(moves, LAMBDA m : m.level <= d.depth)
    IN  [d EXCEPT !.downs = kept(@), !.rights = kept(@)]

\* What a list begins and ends with; a box that wrote nothing has its push
\* taken away again.
Opened(d) ==
    LET e == [d EXCEPT !.depth = @ + 1]
    IN  IF e.depth = 0 THEN e
        ELSE [Emit(e, "push", 0, 1) EXCEPT !.maxPush = Larger(@, e.depth)]
Closed(d, at) ==
    LET e == CASE d.depth = 0 -> d
               [] d.depth > 0 /\ Len(d.out) = at ->
                      [d EXCEPT !.out = SubSeq(@, 1, at - 1), !.size = @ - 1]
               [] OTHER -> Emit(d, "pop", 0, 1)
    IN  Forgotten([e EXCEPT !.depth = @ - 1])

\* dvi_special
Special(d, node) ==
    IF node.kind = "whatsit" /\ node.what = "special"
    THEN Emit(Synch(d), "special", node, 3) ELSE d

Rule(d, op, height, width) == Emit(Synch(d), op, <<height, width>>, 9)

At(d, h, v) == [d EXCEPT !.curH = h, !.curV = v]
Back(d, from) == [d EXCEPT !.h = from.h, !.v = from.v]

RECURSIVE ListDown(_, _)

\* A list put down here, and one hung below here: the place is taken up again.
Inside(d, node) == Back(ListDown(d, node), d)
Below(d, node, left) ==
    At(Back(ListDown(At(d, left + node.shift, d.curV), node), d), left, d.v + Packed(node.depth))

\* dvi_hlist: one thing on a horizontal list; at is where the list began.
ItemAcross(acc, node, box, left, base) ==
    LET d       == acc.d
        height  == RuleSize(node.height, Packed(box.height))
        depth   == RuleSize(node.depth, Packed(box.depth))
        width   == Packed(node.width)
        drawn(e, leader, across) ==
            LET up   == RuleSize(leader.height, Packed(box.height))
                down == RuleSize(leader.depth, Packed(box.depth))
            IN  IF up + down > 0 /\ across > 0
                THEN [At(Rule(At(e, e.curH, base + down), "setrule", up + down, across),
                         e.curH, base) EXCEPT !.h = @ + across]
                ELSE e
    IN  CASE node.kind = "char" ->
                 [acc EXCEPT !.d = [Emit(SelectFont(Synch(d), node.font), "char", node, 1)
                                      EXCEPT !.curH = @ + width, !.h = d.curH + width]]
          [] node.kind = "list" ->
                 [acc EXCEPT !.d =
                    IF HasContent(node)
                    THEN At(Back(ListDown(At(d, d.curH, base + node.shift), node), d),
                            d.curH + width, base)
                    ELSE At(d, d.curH + width, d.curV)]
          [] node.kind = "rule" ->
                 [acc EXCEPT !.d = [drawn(d, node, width) EXCEPT !.curH = d.curH + width]]
          [] node.kind = "glue" ->
                 LET run    == SetGlueStep(Set(box), acc.run, node.glue)
                     amount == width + run.given - acc.run.given
                     leader == node.leader[1]
                     size   == Packed(leader.width)
                     places == LET r == LeaderRun(node.leaders, d.curH, left, amount, size)
                               IN  RunPlaces(r, d.curH + amount + 10, size)
                     one(e, at) == [Inside(Synch(At(e, at, base + leader.shift)), leader)
                                      EXCEPT !.curV = base]
                     filled == CASE ~HasLeader(node) -> d
                                 [] HasLeader(node) /\ leader.kind = "rule" ->
                                        drawn(d, leader, amount)
                                 [] HasLeader(node) /\ leader.kind = "list" ->
                                        IF size > 0 /\ amount > 0
                                        THEN FoldLeft(one, d, places) ELSE d
                 IN  [d |-> [filled EXCEPT !.curH = d.curH + amount], run |-> run]
          [] node.kind \in {"kern", "math"} ->
                 [acc EXCEPT !.d = At(d, d.curH + width, d.curV)]
          [] node.kind = "whatsit" -> [acc EXCEPT !.d = Special(d, node)]
          [] OTHER -> acc

\* dvi_vlist: one thing on a vertical list.
ItemDown(acc, node, box, left, top) ==
    LET d == acc.d
    IN  CASE node.kind = "list" ->
                 [acc EXCEPT !.d =
                    IF HasContent(node)
                    THEN Below(SynchV(At(d, d.curH, d.curV + Packed(node.height))), node, left)
                    ELSE At(d, d.curH, d.curV + Packed(node.height) + Packed(node.depth))]
          [] node.kind = "rule" ->
                 LET height == Packed(node.height) + Packed(node.depth)
                     width  == RuleSize(node.width, Packed(box.width))
                     e      == At(d, d.curH, d.curV + height)
                 IN  [acc EXCEPT !.d = IF height > 0 /\ width > 0
                                       THEN Rule(At(e, left, e.curV), "putrule", height, width)
                                       ELSE e]
          [] node.kind = "glue" ->
                 LET run    == SetGlueStep(Set(box), acc.run, node.glue)
                     amount == Packed(node.width) + run.given - acc.run.given
                     leader == node.leader[1]
                     size   == Packed(leader.height) + Packed(leader.depth)
                     width  == RuleSize(leader.width, Packed(box.width))
                     after  == d.curV + amount
                     places == LET r == LeaderRun(node.leaders, d.curV, top, amount, size)
                               IN  RunPlaces(r, after + 10, size)
                     one(e, at) == [Inside(Synch(At(e, left + leader.shift,
                                                    at + Packed(leader.height))), leader)
                                      EXCEPT !.curH = left]
                     filled == CASE ~HasLeader(node) -> d
                                 [] HasLeader(node) /\ leader.kind = "rule" ->
                                        IF amount > 0 /\ width > 0
                                        THEN Rule(At(d, left, after), "putrule", amount, width)
                                        ELSE d
                                 [] HasLeader(node) /\ leader.kind = "list" ->
                                        IF size > 0 /\ amount > 0
                                        THEN FoldLeft(one, d, places) ELSE d
                 IN  [d |-> [filled EXCEPT !.curV = after], run |-> run]
          [] node.kind = "kern" -> [acc EXCEPT !.d = At(d, d.curH, d.curV + Packed(node.width))]
          [] node.kind = "whatsit" -> [acc EXCEPT !.d = Special(d, node)]
          [] OTHER -> acc

\* dvi_hlist and dvi_vlist: a list put down where the description stands.
ItemsDown(d, box, left, base) ==
    FoldLeft(LAMBDA a, node :
               IF box.box.kind = "vlist" THEN ItemDown(a, node, box, left, base)
               ELSE ItemAcross(a, node, box, left, base),
             [d |-> d, run |-> NothingPassed], Items(box)).d

ListDown(d, box) ==
    LET e    == Opened(d)
        base == IF box.box.kind = "vlist" THEN e.curV - Packed(box.height) ELSE d.curV
    IN  [Closed(ItemsDown([e EXCEPT !.curV = base], box, d.curH, base), Len(e.out))
           EXCEPT !.curH = d.curH, !.curV = IF box.box.kind = "vlist" THEN @ ELSE d.curV]

-----------------------------------------------------------------------------
(* The file. *)

Bytes(commands) == FoldLeft(LAMBDA n, c : n + c.size, 0, commands)

Init ==
    /\ file = <<>> /\ written = 0 /\ lastBop = -1 /\ defined = <<>>
    /\ pages = 0 /\ maxV = 0 /\ maxH = 0 /\ maxPush = 0
    /\ phase = "unopened"
    /\ shipped = <<>>

\* dvi_open, on the first page: the preamble.
Preamble == IF phase = "unopened" THEN <<Command("pre", 0, 43)>> ELSE <<>>

\* Where the page begins, once the preamble stands.
Here == written + Bytes(Preamble)

\* dvi_ship
Ship(box) ==
    /\ phase # "closed"
    /\ box.kind # "void"
    /\ LET here  == Here
           node  == ListNode(box, 0)
           start == [out |-> << Command("bop", lastBop, 45) >>, size |-> 45,
                     before |-> here, h |-> 0, v |-> 0, curH |-> HOffset,
                     curV |-> Packed(box.height) + VOffset,
                     font |-> -1, defined |-> defined, depth |-> -1,
                     maxPush |-> maxPush, downs |-> <<>>, rights |-> <<>>]
       IN  \E d \in {Emit(ListDown(start, node), "eop", 0, 1)} :
              /\ file' = file \o Preamble \o d.out
              /\ written' = here + d.size
              /\ defined' = d.defined
              /\ maxPush' = d.maxPush
              /\ lastBop' = here
    /\ maxV' = Larger(maxV, Packed(box.height) + Packed(box.depth) + VOffset)
    /\ maxH' = Larger(maxH, Packed(box.width) + HOffset)
    /\ pages' = pages + 1
    /\ phase' = "open"
    /\ shipped' = Append(shipped, box)

\* dvi_close: the fonts again, the last one loaded first.
Close ==
    /\ phase = "open"
    /\ LET fonts == SortSeq(defined, LAMBDA a, b : a > b)
           post  == << Command("post", << lastBop, maxV, maxH, maxPush, pages >>, 29) >>
                    \o [i \in 1 .. Len(fonts) |->
                          Command("fontdef", <<Written(fonts[i]), fonts[i]>>, 16)]
                    \o << Command("postpost", written, 6) >>
           total == written + Bytes(post)
           fill  == Min({f \in 4 .. 7 : (total + f) % 4 = 0})
       IN  /\ file' = file \o post \o [i \in 1 .. fill |-> Command("fill", 0, 1)]
           /\ written' = total + fill
    /\ phase' = "closed"
    /\ UNCHANGED << lastBop, defined, pages, maxV, maxH, maxPush, shipped >>

-----------------------------------------------------------------------------
(* What a reader of the file sees. *)

\* The commands read one after the other: a place, the four registers, the
\* font, a stack, and the marks made.
ReaderAtBop == [h |-> 0, v |-> 0, w |-> 0, x |-> 0, y |-> 0, z |-> 0]
Moved(p, op, n) ==
    CASE op = "right" -> [p EXCEPT !.h = @ + n]
      [] op = "w"     -> [p EXCEPT !.h = @ + n, !.w = n]
      [] op = "x"     -> [p EXCEPT !.h = @ + n, !.x = n]
      [] op = "w0"    -> [p EXCEPT !.h = @ + p.w]
      [] op = "x0"    -> [p EXCEPT !.h = @ + p.x]
      [] op = "down"  -> [p EXCEPT !.v = @ + n]
      [] op = "y"     -> [p EXCEPT !.v = @ + n, !.y = n]
      [] op = "z"     -> [p EXCEPT !.v = @ + n, !.z = n]
      [] op = "y0"    -> [p EXCEPT !.v = @ + p.y]
      [] op = "z0"    -> [p EXCEPT !.v = @ + p.z]

Mark(what, p, arg) == [what |-> what, h |-> p.h, v |-> p.v, of |-> arg]

ReadCommand(s, c) ==
    CASE c.op = "fontdef" ->
             [s EXCEPT !.fonts = [n \in DOMAIN @ \cup {c.arg[1]} |->
                                    IF n = c.arg[1] THEN c.arg[2] ELSE @[n]]]
      [] c.op = "bop"  -> [s EXCEPT !.place = ReaderAtBop, !.font = 0, !.marks = Append(@, <<>>)]
      [] c.op = "push" -> [s EXCEPT !.stack = Append(@, s.place)]
      [] c.op = "pop"  -> [s EXCEPT !.place = s.stack[Len(s.stack)],
                                    !.stack = SubSeq(@, 1, Len(@) - 1)]
      [] c.op = "font" -> [s EXCEPT !.font = IF c.arg \in DOMAIN s.fonts
                                             THEN s.fonts[c.arg] ELSE 0]
      [] c.op = "char" ->
             [s EXCEPT !.marks[Len(s.marks)] =
                          Append(@, Mark("char", s.place, << c.arg.char, s.font, c.arg.width >>)),
                       !.place.h = @ + Packed(c.arg.width)]
      [] c.op \in {"setrule", "putrule"} ->
             [s EXCEPT !.marks[Len(s.marks)] = Append(@, Mark("rule", s.place, c.arg)),
                       !.place.h = @ + (IF c.op = "setrule" THEN c.arg[2] ELSE 0)]
      [] c.op = "special" ->
             [s EXCEPT !.marks[Len(s.marks)] = Append(@, Mark("special", s.place, c.arg))]
      [] c.op \in {"right", "w", "x", "w0", "x0", "down", "y", "z", "y0", "z0"} ->
             [s EXCEPT !.place = Moved(@, c.op, c.arg)]
      [] OTHER -> s

ReadFile ==
    FoldLeft(ReadCommand, [place |-> ReaderAtBop, stack |-> <<>>, font |-> 0,
                           fonts |-> <<>>, marks |-> <<>>], file)

\* A reader of the file finds every character, rule and special of each page
\* shipped where the boxes put them, in their order and in their fonts,
\* however the movements were shared between the registers (dvi_movement,
\* dvi_hlist, dvi_vlist, dvi_select_font).
MarksWhereTheyBelong ==
    phase = "closed" =>
    \E seen \in {ReadFile} :
        /\ seen.stack = <<>>
        /\ seen.marks = [p \in 1 .. Len(shipped) |->
                            SelectSeq(MarksOf(ListNode(shipped[p], 0), HOffset,
                                              Packed(shipped[p].height) + VOffset),
                                      LAMBDA m : m.what \in {"char", "rule", "special"})]

\* The file can be read from its end: behind at least four bytes of filling,
\* to a multiple of four, the postamble is where the last command says, and
\* from it the pages are found one before the other, each once, with every
\* font they use named again (dvi_ship, dvi_close).
Places == FoldLeft(LAMBDA all, c : Append(all, Last(all) + c.size), <<0>>, file)
RECURSIVE PagesBack(_, _)
PagesBack(places, at) ==
    LET found == {i \in 1 .. Len(file) : places[i] = at /\ file[i].op = "bop"}
    IN  IF at = -1 THEN <<>>
        ELSE IF found = {} THEN <<0>>
        ELSE <<at>> \o PagesBack(places, file[Min(found)].arg)
FileHangsTogether ==
    phase = "closed" =>
    \E places \in {Places} :
        LET posts == {i \in 1 .. Len(file) : file[i].op = "post"}
            ends  == {i \in 1 .. Len(file) : file[i].op = "postpost"}
            bops  == {i \in 1 .. Len(file) : file[i].op = "bop"}
            back  == PagesBack(places, file[Min(posts)].arg[1])
            used  == {file[i].arg[2] : i \in {j \in 1 .. Min(posts) : file[j].op = "fontdef"}}
            again == {file[i].arg[2] : i \in {j \in Min(posts) .. Len(file) : file[j].op = "fontdef"}}
        IN  /\ file[Min(ends)].arg = places[Min(posts)]
            /\ Len(back) = pages /\ ToSet(back) = {places[i] : i \in bops}
            /\ \A i \in 1 .. Len(back) - 1 : back[i] > back[i + 1]
            /\ used = again
            /\ places[Len(file) + 1] = written /\ written % 4 = 0
            /\ Len(file) - Min(ends) >= 4
=============================================================================
