------------------------------ MODULE PdfFile ---------------------------------
(* The objects of a PDF file: how they get their numbers, when each is written
   (alone, or packed with others into a stream of objects), what they point
   at, and the three trees and the table that the run's end writes over them.
   The marks on the pages themselves are PdfPage's; here a page is the fonts,
   links, annotations and destinations it carries.

   A document is a sequence of the commands that reach this part of the
   engine; it is read one command at a time, and the file is closed after the
   last. An object is what it is, the numbers it points at and what it says. *)
EXTENDS Naturals, Integers, Sequences, FiniteSets, SequencesExt, TLC

CONSTANTS
    Documents,      \* the documents to be read, sequences of commands
    Fan,            \* children of a node of a tree (6)
    TreeLevels,     \* levels a tree may have (16)
    StreamCapacity, \* objects a stream of objects holds (100)
    Fonts           \* what is known of each font

SizeAssumption == Fan \in Nat \ {0, 1} /\ StreamCapacity \in Nat \ {0}

VARIABLES
    todo,   \* the commands not yet read
    list,   \* what the page being made holds
    pdf,    \* the writer's state
    ended   \* "no", "closed", or "stopped" by an error

vars == <<todo, list, pdf, ended>>

(* ------------------------------ the objects ------------------------------ *)

Link(role, number)  == [as |-> role, to |-> number]
Links(role, numbers) == [i \in DOMAIN numbers |-> Link(role, numbers[i])]
Obj(what, links, says) == [is |-> what, links |-> links, says |-> says]

New(p) == [p EXCEPT !.counter = @ + 1]

(* An object that stands alone in the file, at the byte the file had reached. *)
Alone(p, n, object, packed) ==
    [p EXCEPT !.file = Append(@, [number |-> n, object |-> object, packed |-> packed]),
              !.offset = (n :> Len(p.file) + 1) @@ @]

Stream(p, n, object) == Alone(p, n, object, <<>>)

Flush(p) ==
    IF p.waiting = <<>> THEN p
    ELSE [Alone(p, p.container, Obj("stream of objects", <<>>, Len(p.waiting)), p.waiting)
            EXCEPT !.waiting = <<>>, !.container = 0]

(* The stream of objects takes its number before the first object it will
   hold is put together. *)
Reserve(p) ==
    IF p.level > 0 /\ p.waiting = <<>> /\ p.container = 0
    THEN [New(p) EXCEPT !.container = p.counter + 1]
    ELSE p

EndObject(p, n, object) ==
    IF p.level <= 0 THEN Alone(p, n, object, <<>>)
    ELSE LET q == [p EXCEPT !.waiting = Append(@, [number |-> n, object |-> object]),
                            !.inside = (n :> <<p.container, Len(p.waiting)>>) @@ @]
         IN  IF Len(q.waiting) = StreamCapacity THEN Flush(q) ELSE q

Write(p, n, object) == EndObject(Reserve(p), n, object)

(* ------------------------ destinations and pages ------------------------- *)

(* A destination is known by its name or its number, and one that is a
   structure's is another than the page's of the same name. *)
Id(named, key, structured) == [named |-> named, key |-> key, structured |-> structured]

HasDest(p, id) == \E i \in DOMAIN p.dests : p.dests[i].id = id
DestPlace(p, id) == CHOOSE i \in DOMAIN p.dests : p.dests[i].id = id

DestEntry(p, id) ==
    IF HasDest(p, id) THEN p
    ELSE [New(p) EXCEPT !.dests = Append(@, [id |-> id, object |-> p.counter + 1,
                                             placed |-> FALSE])]

DestObject(p, id) == p.dests[DestPlace(p, id)].object

Future(p, k) == IF k \in DOMAIN p.future THEN p.future[k] ELSE 0

(* The number of page k, kept for it where it has not been shipped. *)
PageObject(p, k) ==
    IF k <= Len(p.pages) \/ Future(p, k) # 0 THEN p
    ELSE [New(p) EXCEPT !.future = (k :> p.counter + 1) @@ @]

PageNumber(p, k) == IF k <= Len(p.pages) THEN p.pages[k] ELSE Future(p, k)

(* -------------------------------- actions -------------------------------- *)

(* What following a link does: go to a page, to a destination by number or by
   name, or what the document wrote for itself. The numbers it points at are
   made as it is written, within the object that holds it. *)
ActionPdf(p, action) ==
    LET q == CASE action.to = "page"   -> PageObject(p, action.key)
               [] action.to = "number" -> DestEntry(p, Id(FALSE, action.key, FALSE))
               [] action.to = "name"   -> DestEntry(p, Id(TRUE, action.key, FALSE))
               [] OTHER                -> p
    IN  IF action.structured /\ action.to # "user"
        THEN DestEntry(q, Id(TRUE, action.key, TRUE)) ELSE q

ActionLinks(q, action) ==
    (CASE action.to = "page"   -> <<Link("page", PageNumber(q, action.key))>>
       [] action.to = "number" -> <<Link("dest", DestObject(q, Id(FALSE, action.key, FALSE)))>>
       [] OTHER                -> <<>>)
    \o (IF action.structured /\ action.to # "user"
        THEN <<Link("structure", DestObject(q, Id(TRUE, action.key, TRUE)))>> ELSE <<>>)

Named(action) == IF action.to = "name" THEN action.key ELSE 0

\* An object whose dictionary holds an action, or is one.
WithAction(p, n, what, action) ==
    LET q == ActionPdf(Reserve(p), action)
    IN  EndObject(q, n, Obj(what, ActionLinks(q, action), Named(action)))

(* ------------------------- the document's objects ------------------------ *)

WriteDocumentObject(p, k) ==
    LET o == p.objects[k]
        object == Obj("document", <<>>, 0)
        q == IF o.stream THEN Stream(p, o.number, object) ELSE Write(p, o.number, object)
    IN  IF o.reserved \/ o.written THEN p ELSE [q EXCEPT !.objects[k].written = TRUE]

Open(p) == [p EXCEPT !.opened = TRUE]

(* --------------------------------- fonts --------------------------------- *)

(* The text of a shared encoding takes its number when the first character of
   that encoding is made, or as late as the page that holds it, and goes into
   the file before that page does. *)
ReserveCmap(p, f) ==
    LET kind == Fonts[f].cmap
    IN  IF kind \in {"t1", "ot1"} /\ p.cmaps[kind] = 0
        THEN [New(p) EXCEPT !.cmaps[kind] = p.counter + 1] ELSE p

WriteSharedCmap(p, kind) ==
    IF p.cmaps[kind] = 0 \/ kind \in p.cmapsDone THEN p
    ELSE [Stream(p, p.cmaps[kind], Obj("cmap", <<>>, 0)) EXCEPT !.cmapsDone = @ \cup {kind}]

T1First(p) == \/ p.cmaps["ot1"] = 0
              \/ p.cmaps["t1"] # 0 /\ p.cmaps["t1"] < p.cmaps["ot1"]

WriteSharedCmaps(p) ==
    FoldLeft(WriteSharedCmap, p, IF T1First(p) THEN <<"t1", "ot1">> ELSE <<"ot1", "t1">>)

(* Two fonts of one file are one font here, whatever their sizes, unless their
   characters are bitmaps drawn for one size. *)
SameFont(f, g) == \/ f = g
                  \/ Fonts[f].program # 0 /\ Fonts[f].name = Fonts[g].name

HasFont(p, f) == \E i \in DOMAIN p.fonts : SameFont(f, p.fonts[i].font)
FontPlace(p, f) == CHOOSE i \in DOMAIN p.fonts : SameFont(f, p.fonts[i].font)

FontEntry(p, f) ==
    IF HasFont(p, f) THEN p
    ELSE [New(p) EXCEPT !.fonts = Append(@, [font |-> f, object |-> p.counter + 1, widths |-> 0,
                                             encoding |-> 0, glyphs |-> 0, unicode |-> 0])]

FontObject(p, f) == p.fonts[FontPlace(p, f)].object

(* --------------------------------- a page -------------------------------- *)

NoLink == [open |-> FALSE, measuring |-> FALSE, object |-> 0, action |-> <<>>]

(* What the walk over the page's boxes meets, and what it keeps of it. *)
OpenSegment(w) ==
    IF ~w.link.open \/ w.link.measuring THEN w
    ELSE IF w.link.object = 0
    THEN [w EXCEPT !.pdf = New(@), !.link.object = w.pdf.counter + 1, !.link.measuring = TRUE]
    ELSE [w EXCEPT !.link.measuring = TRUE]

CloseSegment(w) ==
    IF ~w.link.open \/ ~w.link.measuring THEN w
    ELSE [w EXCEPT !.annots = Append(@, [object |-> w.link.object, link |-> TRUE,
                                         action |-> w.link.action]),
                   !.link.measuring = FALSE, !.link.object = 0]

EndLink(w) == IF w.link.open THEN [CloseSegment(w) EXCEPT !.link.open = FALSE] ELSE w

Meet(w, item) ==
    CASE item.is = "char" ->
           LET q == FontEntry(w.pdf, item.font)
               n == FontObject(q, item.font)
           IN  [w EXCEPT !.pdf = q,
                         !.fonts = IF \E i \in DOMAIN @ : @[i] = n THEN @ ELSE Append(@, n)]
      [] item.is = "link" ->
           IF w.link.open THEN w
           ELSE OpenSegment([w EXCEPT !.link = [open |-> TRUE, measuring |-> FALSE,
                                                object |-> item.number, action |-> item.action]])
      [] item.is = "line" -> OpenSegment(CloseSegment(w))
      [] item.is = "endlink" -> EndLink(w)
      [] item.is = "annot" ->
           [w EXCEPT !.annots = Append(@, [object |-> item.number, link |-> FALSE, action |-> <<>>])]
      [] item.is = "dest" ->
           LET q == DestEntry(w.pdf, item.id)
               i == DestPlace(q, item.id)
           IN  [w EXCEPT !.pdf = [q EXCEPT !.dests[i].placed = TRUE],
                         !.places = Append(@, [object |-> q.dests[i].object, id |-> item.id])]

InOrder(annots) == SelectSeq(annots, LAMBDA a : ~a.link) \o SelectSeq(annots, LAMBDA a : a.link)

WriteAnnotation(p, a) ==
    IF a.link THEN WithAction(p, a.object, "annotation", a.action)
    ELSE Write(p, a.object, Obj("annotation", <<>>, 0))

\* A place in a structure points at an object of the document's own.
WritePlacement(p, place, page) ==
    Write(p, place.object,
          Obj("destination", IF place.id.structured THEN <<>> ELSE <<Link("at", page)>>, 0))

\* Six pages to a node of the tree; the seventh starts one of its own.
NodeFor(p) ==
    IF p.nodes # <<>> /\ Last(p.nodes).pages # Fan
    THEN [p EXCEPT !.nodes[Len(p.nodes)].pages = @ + 1]
    ELSE LET q == Reserve(p)
         IN  [New(q) EXCEPT !.nodes = Append(@, [object |-> q.counter + 1,
                                                 first |-> Len(p.pages), pages |-> 1])]

\* Mutant of ThisPage: a page takes a new number, though a link may have kept one for it.
ThisPageAfresh(p) == [New(p) EXCEPT !.future = (Len(p.pages) + 1 :> p.counter + 1) @@ @]

\* The page's own number: the one kept for it, or a new one.
ThisPage(p) ==
    LET k == Len(p.pages) + 1
    IN  IF Future(p, k) # 0 THEN p ELSE [New(p) EXCEPT !.future = (k :> p.counter + 1) @@ @]

ShipPage(p, items) ==
    LET chars     == SelectSeq(items, LAMBDA x : x.is = "char")
        p1        == WriteSharedCmaps(Open(FoldLeft(LAMBDA q, x : ReserveCmap(q, x.font), p, chars)))
        resources == p1.counter + 1
        p2        == ThisPage(New(p1))
        page      == Future(p2, Len(p.pages) + 1)
        contents  == p2.counter + 1
        walk      == EndLink(FoldLeft(Meet, [pdf |-> New(p2), link |-> NoLink, annots |-> <<>>,
                                             places |-> <<>>, fonts |-> <<>>], items))
        p3        == NodeFor(Stream(walk.pdf, contents, Obj("contents", <<>>, 0)))
        annots    == InOrder(walk.annots)
        p4        == Write(p3, page,
                           Obj("page",
                               <<Link("contents", contents), Link("resources", resources),
                                 Link("parent", Last(p3.nodes).object)>>
                               \o [i \in DOMAIN annots |-> Link("annotation", annots[i].object)], 0))
        p5        == FoldLeft(WriteAnnotation, p4, annots)
        p6        == FoldLeft(LAMBDA q, x : WritePlacement(q, x, page), p5, walk.places)
        p7        == Write(p6, resources, Obj("resources", Links("font", walk.fonts), 0))
    IN  [p7 EXCEPT !.pages = Append(@, page)]

(* ------------------------------ the commands ----------------------------- *)

Nothing == [level |-> 0, counter |-> 0, file |-> <<>>, offset |-> <<>>, inside |-> <<>>,
            waiting |-> <<>>, container |-> 0, objects |-> <<>>, dests |-> <<>>, future |-> <<>>,
            pages |-> <<>>, nodes |-> <<>>, outlines |-> <<>>, open |-> 0, fonts |-> <<>>,
            encodings |-> <<>>, programs |-> <<>>, cmaps |-> [t1 |-> 0, ot1 |-> 0], cmapsDone |-> {},
            opened |-> FALSE, roots |-> [pages |-> 0, outlines |-> 0, names |-> 0], catalog |-> 0,
            table |-> <<>>]

Init == /\ \E d \in Documents : /\ todo = d.commands
                                /\ pdf = [Nothing EXCEPT !.level = d.level]
        /\ list = <<>>
        /\ ended = "no"

Reads(what) == /\ ended = "no"
               /\ todo # <<>>
               /\ Head(todo).do = what
               /\ todo' = Tail(todo)

\* \pdfobj reserveobjnum.
ReserveObject ==
    /\ Reads("reserve")
    /\ pdf' = [New(pdf) EXCEPT !.objects = Append(@, [number |-> pdf.counter + 1, reserved |-> TRUE,
                                                      stream |-> FALSE, written |-> FALSE])]
    /\ UNCHANGED <<list, ended>>

\* \pdfobj, written at once if it was \immediate and left to the end if not.
MakeObject ==
    /\ Reads("object")
    /\ LET p == [New(pdf) EXCEPT !.objects =
                   Append(@, [number |-> pdf.counter + 1, reserved |-> FALSE,
                              stream |-> Head(todo).stream, written |-> FALSE])]
       IN  pdf' = IF Head(todo).now THEN WriteDocumentObject(Open(p), Len(p.objects)) ELSE p
    /\ UNCHANGED <<list, ended>>

\* \pdfobj useobjnum: what a reserved object is, or another content for one.
UseObject ==
    /\ Reads("use")
    /\ LET k == Head(todo).nth
           p == [pdf EXCEPT !.objects[k].reserved = FALSE, !.objects[k].stream = Head(todo).stream]
       IN  IF k \notin DOMAIN pdf.objects
           THEN ended' = "stopped" /\ UNCHANGED pdf
           ELSE /\ pdf' = IF Head(todo).now THEN WriteDocumentObject(Open(p), k) ELSE p
                /\ UNCHANGED ended
    /\ UNCHANGED list

\* \pdfcatalog with an action to take when the file is opened; a second is an error.
OpenAction ==
    /\ Reads("open")
    /\ IF pdf.open # 0
       THEN ended' = "stopped" /\ UNCHANGED pdf
       ELSE /\ pdf' = [WithAction(Open(New(pdf)), pdf.counter + 1, "action", Head(todo).action)
                         EXCEPT !.open = pdf.counter + 1]
            /\ UNCHANGED ended
    /\ UNCHANGED list

\* \pdfoutline: its action and its title are written as they are met, the entry at the end.
Outline ==
    /\ Reads("outline")
    /\ LET p == WithAction(Open(New(pdf)), pdf.counter + 1, "action", Head(todo).action)
           entry == [action |-> pdf.counter + 1, object |-> p.counter + 1,
                     title |-> p.counter + 2, count |-> Head(todo).count]
       IN  pdf' = [Write(New(New(p)), entry.title, Obj("title", <<>>, 0))
                     EXCEPT !.outlines = Append(@, entry)]
    /\ UNCHANGED <<list, ended>>

\* \pdfstartlink and \pdfannot take their numbers when they are read.
StartLink ==
    /\ Reads("link")
    /\ pdf' = New(pdf)
    /\ list' = Append(list, [is |-> "link", number |-> pdf.counter + 1, action |-> Head(todo).action])
    /\ UNCHANGED ended

Annotation ==
    /\ Reads("annot")
    /\ pdf' = New(pdf)
    /\ list' = Append(list, [is |-> "annot", number |-> pdf.counter + 1])
    /\ UNCHANGED ended

\* What waits in the list for the page: a destination, the end of a link, a new line.
Material ==
    /\ \/ Reads("dest") /\ list' = Append(list, [is |-> "dest", id |-> Head(todo).id])
       \/ Reads("endlink") /\ list' = Append(list, [is |-> "endlink"])
       \/ Reads("line") /\ list' = Append(list, [is |-> "line"])
    /\ UNCHANGED <<pdf, ended>>

\* A character; the map of its font may not have been read yet.
Character ==
    /\ Reads("char")
    /\ list' = Append(list, [is |-> "char", font |-> Head(todo).font])
    /\ pdf' = IF Head(todo).mapped THEN ReserveCmap(pdf, Head(todo).font) ELSE pdf
    /\ UNCHANGED ended

\* \pdfxform takes two numbers and writes neither.
Form ==
    /\ Reads("form")
    /\ pdf' = New(New(pdf))
    /\ UNCHANGED <<list, ended>>

\* \pdfpageref.
PageRef ==
    /\ Reads("pageref")
    /\ pdf' = PageObject(pdf, Head(todo).page)
    /\ UNCHANGED <<list, ended>>

\* \shipout, of the page's box or of a copy of it.
Ship ==
    /\ Reads("ship")
    /\ pdf' = ShipPage(pdf, list)
    /\ list' = IF Head(todo).copy THEN list ELSE <<>>
    /\ UNCHANGED ended

\* A box that goes nowhere, and its numbers with it.
ThrowAway ==
    /\ Reads("throw")
    /\ list' = <<>>
    /\ UNCHANGED <<pdf, ended>>

(* The run is taken up from a checkpoint by another process, which writes on
   into the same file: everything above is carried, but the file is not open
   until something is written into it. *)
Carried(p) == [p EXCEPT !.opened = FALSE]

Resume ==
    /\ Reads("resume")
    /\ pdf' = Carried(pdf)
    /\ UNCHANGED <<list, ended>>

(* ------------------------------- the close ------------------------------- *)

Backwards(n) == [i \in 1 .. n |-> n + 1 - i]
Forwards(n)  == [i \in 1 .. n |-> i]

WriteObjects(p) == FoldLeft(WriteDocumentObject, p, Forwards(Len(p.objects)))

\* Destinations aimed at and never put anywhere, the last one first.
UnplacedDests(p) ==
    SelectSeq(Backwards(Len(p.dests)), LAMBDA i : ~p.dests[i].placed /\ ~p.dests[i].id.structured)

WriteUnplaced(p) ==
    FoldLeft(LAMBDA q, i : Write(q, q.dests[i].object,
                                 Obj("destination", IF p.pages = <<>> THEN <<>>
                                                    ELSE <<Link("at", Head(p.pages))>>, 0)),
             p, UnplacedDests(p))

\* A number for the font's encoding, beside its widths.
ReserveEncoding(p, file) ==
    IF file = 0 \/ file \in DOMAIN p.encodings THEN p
    ELSE [New(p) EXCEPT !.encodings = (file :> p.counter + 1) @@ @]

WithWidths(p, i) ==
    [Write(New(p), p.counter + 1, Obj("widths", <<>>, 0)) EXCEPT !.fonts[i].widths = p.counter + 1]

WithEncoding(p, i) ==
    [Write(New(p), p.counter + 1, Obj("encoding", <<>>, 0)) EXCEPT !.fonts[i].encoding = p.counter + 1]

\* The drawings of a font of bitmaps, a character to each.
WithDrawings(p, glyphs) ==
    FoldLeft(LAMBDA q, g : Stream(New(q), q.counter + 1, Obj("glyph", <<>>, 0)), p, Forwards(glyphs))

WithTable(p, i, glyphs, before) ==
    [Write(New(p), p.counter + 1, Obj("glyphs", [g \in 1 .. glyphs |-> Link("glyph", before + g)], 0))
       EXCEPT !.fonts[i].glyphs = p.counter + 1]

(* The measurements of a font; for one of bitmaps also the drawing of each of
   its characters, the encoding and the table of them. *)
BitmapMeasures(p, i, glyphs) ==
    WithTable(WithEncoding(WithDrawings(p, glyphs), i), i, glyphs, p.counter)

Measured(p, i, font) == IF font.program # 0 THEN p ELSE BitmapMeasures(p, i, font.glyphs)

FontMeasures(p, i) ==
    LET font == Fonts[p.fonts[i].font]
    IN  Measured(WithWidths(ReserveEncoding(p, font.encoding), i), i, font)

Below(a, b) == a < b
InTurn(set) == SortSeq(SetToSeq(set), Below)

Programs(p) == {Fonts[p.fonts[i].font].program : i \in DOMAIN p.fonts} \ {0}

\* A program and what is said of it, for each program, in the order of their files.
WriteProgram(p, program) ==
    LET file == p.counter + 1
        q    == Stream(New(New(p)), file, Obj("program", <<>>, 0))
    IN  [Write(q, file + 1, Obj("descriptor", <<Link("program", file)>>, 0))
           EXCEPT !.programs = (program :> file + 1) @@ @]

WriteEncodings(p) ==
    FoldLeft(LAMBDA q, file : Write(q, q.encodings[file], Obj("encoding", <<>>, 0)),
             p, InTurn(DOMAIN p.encodings))

FontCmap(p, i) ==
    LET font == Fonts[p.fonts[i].font]
        q    == WriteSharedCmaps(ReserveCmap(p, p.fonts[i].font))
    IN  CASE font.program = 0 \/ font.cmap = "none" -> p
          [] font.cmap \in {"t1", "ot1"} -> [q EXCEPT !.fonts[i].unicode = q.cmaps[font.cmap]]
          [] font.cmap = "custom" ->
               [Stream(New(p), p.counter + 1, Obj("cmap", <<>>, 0)) EXCEPT !.fonts[i].unicode = p.counter + 1]

Given(role, number) == IF number = 0 THEN <<>> ELSE <<Link(role, number)>>

FontDictionary(p, i) ==
    LET f    == p.fonts[i]
        font == Fonts[f.font]
    IN  Write(p, f.object,
              Obj("font",
                  IF font.program = 0
                  THEN <<Link("widths", f.widths), Link("encoding", f.encoding), Link("glyphs", f.glyphs)>>
                  ELSE <<Link("descriptor", p.programs[font.program]), Link("widths", f.widths)>>
                       \o (IF font.encoding = 0 THEN <<>>
                           ELSE <<Link("encoding", p.encodings[font.encoding])>>)
                       \o Given("cmap", f.unicode), 0))

\* Measurements from the last font back, dictionaries by the names of the fonts.
WriteFonts(p) ==
    LET n      == Len(p.fonts)
        byName == SortSeq(Forwards(n), LAMBDA i, j : Fonts[p.fonts[i].font].name < Fonts[p.fonts[j].font].name)
    IN  FoldLeft(LAMBDA q, i : FontDictionary(FontCmap(q, i), i),
                 WriteEncodings(FoldLeft(WriteProgram, FoldLeft(FontMeasures, p, Backwards(n)),
                                         InTurn(Programs(p)))),
                 byName)

(* ------------------------------- the trees ------------------------------- *)

Groups(n) == (n + Fan - 1) \div Fan

Group(s, g) == SubSeq(s, (g - 1) * Fan + 1, IF g * Fan < Len(s) THEN g * Fan ELSE Len(s))

Objects(nodes) == [i \in DOMAIN nodes |-> nodes[i].object]

WritePageNode(p, node, parent) ==
    Write(p, node.object, Obj("pages", Given("parent", parent) \o Links("kid", node.kids), node.pages))

(* Over a row of nodes, a row of their parents: a parent takes its number and
   its children are then written. *)
ParentRow(acc) ==
    FoldLeft(LAMBDA made, g :
               LET q        == Reserve(made.pdf)
                   parent   == q.counter + 1
                   children == Group(acc.row, g)
               IN  [pdf |-> FoldLeft(LAMBDA r, child : WritePageNode(r, child, parent), New(q), children),
                    row |-> Append(made.row,
                                   [object |-> parent, kids |-> Objects(children),
                                    pages |-> FoldLeft(LAMBDA sum, child : sum + child.pages, 0, children)])],
             [pdf |-> acc.pdf, row |-> <<>>], Forwards(Groups(Len(acc.row))))

FirstRow(p) ==
    [i \in DOMAIN p.nodes |->
       [object |-> p.nodes[i].object, pages |-> p.nodes[i].pages,
        kids |-> SubSeq(p.pages, p.nodes[i].first + 1, p.nodes[i].first + p.nodes[i].pages)]]

\* The last row is one node, the root.
WriteRoot(rows) ==
    [WritePageNode(rows.pdf, rows.row[1], 0) EXCEPT !.roots.pages = rows.row[1].object]

PageTree(p) ==
    IF p.nodes = <<>>
    THEN [Write(New(p), p.counter + 1, Obj("pages", <<>>, 0)) EXCEPT !.roots.pages = p.counter + 1]
    ELSE WriteRoot(FoldLeft(LAMBDA acc, level : IF Len(acc.row) = 1 THEN acc ELSE ParentRow(acc),
                            [pdf |-> p, row |-> FirstRow(p)], Forwards(TreeLevels - 1)))

(* ------------------------------- the outline ----------------------------- *)

NoEntry == [parent |-> 0, previous |-> 0, next |-> 0, first |-> 0, last |-> 0, visible |-> 0]

\* Lists that are full are left, the innermost first.
LeaveFull(stack) ==
    LET open == {d \in 1 .. Len(stack) : d = 1 \/ stack[d].remaining # 0}
        deep == CHOOSE d \in open : \A e \in open : e <= d
    IN  SubSeq(stack, 1, deep)

(* The next entry goes into the list being collected; one that declares
   children begins a list of its own. *)
OutlinePlace(acc, i) ==
    LET top   == Last(acc.stack)
        t1    == [acc.tree EXCEPT ![i].parent = top.owner, ![i].previous = top.last]
        t2    == IF top.last # 0 THEN [t1 EXCEPT ![top.last].next = i]
                 ELSE IF top.owner # 0 THEN [t1 EXCEPT ![top.owner].first = i] ELSE t1
        t3    == IF top.owner # 0 THEN [t2 EXCEPT ![top.owner].last = i] ELSE t2
        stack == Front(acc.stack) \o <<[top EXCEPT !.last = i,
                                                   !.remaining = IF @ > 0 THEN @ - 1 ELSE @]>>
        count == acc.counts[i]
        n     == IF count < 0 THEN -count ELSE count
    IN  [acc EXCEPT !.tree = t3,
                    !.stack = IF n > 0 THEN Append(stack, [owner |-> i, remaining |-> n, last |-> 0])
                              ELSE LeaveFull(stack)]

\* What shows under an entry: its children, and theirs where they are open.
OutlineShows(acc, i) ==
    LET e     == acc.tree[i]
        shows == 1 + (IF acc.counts[i] > 0 THEN e.visible ELSE 0)
    IN  IF e.parent = 0 THEN [acc EXCEPT !.showing = @ + shows]
        ELSE [acc EXCEPT !.tree[e.parent].visible = @ + shows]

OutlineTree(counts) ==
    FoldLeft(OutlineShows,
             FoldLeft(OutlinePlace,
                      [tree |-> [i \in DOMAIN counts |-> NoEntry], counts |-> counts, showing |-> 0,
                       stack |-> <<[owner |-> 0, remaining |-> -1, last |-> 0]>>],
                      Forwards(Len(counts))),
             Backwards(Len(counts)))

EntryAt(entries, i) == IF i = 0 THEN 0 ELSE entries[i].object

EntryLinks(p, entries, i, e) ==
    <<Link("title", entries[i].title), Link("action", entries[i].action),
      Link("parent", IF e.parent = 0 THEN p.roots.outlines ELSE EntryAt(entries, e.parent))>>
    \o Given("previous", EntryAt(entries, e.previous)) \o Given("next", EntryAt(entries, e.next))
    \o Given("first", EntryAt(entries, e.first)) \o Given("last", EntryAt(entries, e.last))

\* The outline's own object and its entries, from the last back.
WriteTree(p, entries, built) ==
    LET Entry(q, i) ==
            Write(q, entries[i].object,
                  Obj("entry", EntryLinks(q, entries, i, built.tree[i]),
                      IF entries[i].count < 0 THEN -built.tree[i].visible ELSE built.tree[i].visible))
    IN  FoldLeft(Entry,
                 [Write(New(p), p.counter + 1,
                        Obj("outlines", <<Link("first", entries[1].object),
                                          Link("last", EntryAt(entries, Last(built.stack).last))>>, built.showing))
                    EXCEPT !.roots.outlines = p.counter + 1],
                 Backwards(Len(entries)))

WriteOutlines(p) ==
    IF p.outlines = <<>> THEN p
    ELSE WriteTree(p, p.outlines, OutlineTree([i \in DOMAIN p.outlines |-> p.outlines[i].count]))

(* -------------------------------- the names ------------------------------ *)

NamedDests(p) == SelectSeq(p.dests, LAMBDA d : d.id.named /\ ~d.id.structured)

\* Mutant of Span: the last of a row that is not full is not looked for.
SpanUncapped(widths, level, first, last) ==
    FoldLeft(LAMBDA span, step : [low  |-> span.low * Fan, high |-> span.high * Fan],
             [low |-> first, high |-> last], Backwards(level))

(* The names a node of this level spans, counted from zero: the first and the
   last of its children, followed down row by row to the names themselves. *)
Span(widths, level, first, last) ==
    FoldLeft(LAMBDA span, step :
               LET high == span.high * Fan + Fan - 1
               IN  [low  |-> span.low * Fan,
                    high |-> IF high >= widths[step] THEN widths[step] - 1 ELSE high],
             [low |-> first, high |-> last], Backwards(level))

(* Over a row of names or of nodes, the row of nodes above it. widths holds how
   many names there are and how many nodes each row has. *)
NameRow(acc, sorted) ==
    LET level == Len(acc.widths) - 1
        below == acc.row
        Node(made, g) ==
            LET children == Group(below, g)
                span     == Span(acc.widths, level, (g - 1) * Fan, (g - 1) * Fan + Len(children) - 1)
                n        == made.pdf.counter + 1
            IN  [pdf |-> Write(New(made.pdf), n,
                               Obj("names", Links(IF level = 0 THEN "dest" ELSE "kid", children),
                                   [low   |-> sorted[span.low + 1].id.key,
                                    high  |-> sorted[span.high + 1].id.key,
                                    names |-> IF level = 0
                                              THEN [i \in DOMAIN children |-> sorted[(g - 1) * Fan + i].id.key]
                                              ELSE <<>>])),
                 row |-> Append(made.row, n)]
        made == FoldLeft(Node, [pdf |-> acc.pdf, row |-> <<>>], Forwards(Groups(Len(below))))
    IN  [pdf |-> made.pdf, row |-> made.row, widths |-> Append(acc.widths, Len(made.row))]

\* The names in their order, six to a node, up to one root, and the object that leads to it.
WriteNamesRoot(tree) ==
    [Write(New(tree.pdf), tree.pdf.counter + 1, Obj("names root", <<Link("kid", tree.row[1])>>, 0))
       EXCEPT !.roots.names = tree.pdf.counter + 1]

NameTree(p, sorted) ==
    FoldLeft(LAMBDA acc, level : IF level > 0 /\ Len(acc.row) = 1 THEN acc ELSE NameRow(acc, sorted),
             [pdf |-> p, row |-> Objects(sorted), widths |-> <<Len(sorted)>>],
             [i \in 1 .. TreeLevels |-> i - 1])

WriteNames(p) ==
    IF NamedDests(p) = <<>> THEN p
    ELSE WriteNamesRoot(NameTree(p, SortSeq(NamedDests(p), LAMBDA d, e : d.id.key < e.id.key)))

(* -------------------------------- the table ------------------------------ *)

Holes(p, inStreams) ==
    {n \in 1 .. p.counter : n \notin DOMAIN p.offset /\ ~(inStreams /\ n \in DOMAIN p.inside)}

NextHole(holes, n) ==
    LET after == {h \in holes : h > n}
    IN  IF after = {} THEN 0 ELSE CHOOSE h \in after : \A g \in after : h <= g

\* Where every number is to be found: in the file, in a stream of objects, or in the chain of holes.
Table(p, inStreams) ==
    LET holes == Holes(p, inStreams)
    IN  [n \in 0 .. p.counter |->
           IF n = 0 \/ n \in holes THEN [is |-> "free", at |-> NextHole(holes, n), index |-> 0]
           ELSE IF n \in DOMAIN p.offset THEN [is |-> "file", at |-> p.offset[n], index |-> 0]
           ELSE [is |-> "stream", at |-> p.inside[n][1], index |-> p.inside[n][2]]]

(* With objects in streams the table is a stream too, and the last of those is
   written before it; without, it is text. *)
WriteTable(p) ==
    IF p.level > 0
    THEN LET q == New(Flush(p))
             n == q.counter
             at == [q EXCEPT !.offset = (n :> Len(q.file) + 1) @@ @]
         IN  [Stream(q, n, Obj("table", <<>>, 0)) EXCEPT !.table = Table(at, TRUE)]
    ELSE [p EXCEPT !.table = Table(p, FALSE)]

\* The catalog, by the trees and the action, and the information, never in a stream.
WriteCatalog(p) ==
    LET catalog == p.counter + 1
    IN  Alone([Write(New(New(p)), catalog,
                     Obj("catalog", <<Link("pages", p.roots.pages)>> \o Given("outlines", p.roots.outlines)
                                    \o Given("names", p.roots.names) \o Given("action", p.open), 0))
                 EXCEPT !.catalog = catalog],
              catalog + 1, Obj("information", <<>>, 0), <<>>)

Closed(p) ==
    WriteTable(WriteCatalog(WriteNames(WriteOutlines(PageTree(
      WriteFonts(WriteUnplaced(WriteObjects(p))))))))

\* The end of the run; a file that was never opened is not closed either.
Close ==
    /\ ended = "no"
    /\ todo = <<>>
    /\ pdf' = IF pdf.opened THEN Closed(pdf) ELSE pdf
    /\ ended' = "closed"
    /\ UNCHANGED <<todo, list>>

Next == \/ ReserveObject \/ MakeObject \/ UseObject \/ OpenAction \/ Outline \/ StartLink
        \/ Annotation \/ Material \/ Character \/ Form \/ PageRef \/ Ship \/ ThrowAway
        \/ Resume \/ Close

Spec == Init /\ [][Next]_vars

(* ------------------------------- properties ------------------------------ *)

Finished == ended = "closed" /\ pdf.opened

\* Where an object of this number stands: in the file, or at a place in a stream of objects.
Standing(n) ==
    {<<i, 0>> : i \in {i \in DOMAIN pdf.file : pdf.file[i].number = n}}
    \cup UNION {{<<i, k>> : k \in {k \in DOMAIN pdf.file[i].packed : pdf.file[i].packed[k].number = n}}
                : i \in DOMAIN pdf.file}

(* The file can be read: whatever number was given out stands in it at most
   once, the table says where, and the numbers that stand nowhere (a link in a
   box that was thrown away, a form) are chained from the head of the table to
   the last of them, upwards. pdf_write_xref_stream and the end of pdf_close. *)
TableLeadsToObjects ==
    Finished =>
    LET table == pdf.table
        holes == {n \in DOMAIN table : table[n].is = "free"}
    IN  /\ DOMAIN table = 0 .. pdf.counter
        /\ \A n \in 1 .. pdf.counter :
             LET entry == table[n]
             IN  Standing(n) = CASE entry.is = "free" -> {}
                                 [] entry.is = "file" -> {<<entry.at, 0>>}
                                 [] entry.is = "stream" ->
                                      {<<table[entry.at].at, entry.index + 1>>}
        /\ \A h \in holes : table[h].at > h \/ table[h].at = 0
        /\ {table[h].at : h \in holes} = (holes \ {0}) \cup {0}

\* What a reader finds under a number, following the table.
FoundAt(n) ==
    LET entry == pdf.table[n]
    IN  CASE entry.is = "file"   -> pdf.file[entry.at].object
          [] entry.is = "stream" ->
               pdf.file[pdf.table[entry.at].at].packed[entry.index + 1].object
          [] entry.is = "free"   -> Obj("nothing", <<>>, 0)

Meant(object, link) ==
    CASE link.as \in {"contents", "resources", "annotation", "font", "widths", "descriptor",
                      "program", "cmap", "encoding", "glyphs", "glyph", "action", "title",
                      "pages", "outlines", "page"} -> {link.as}
      [] link.as = "kid"    -> IF object.is = "pages" THEN {"page", "pages"} ELSE {"names"}
      [] link.as = "parent" -> IF object.is = "entry" THEN {"entry", "outlines"} ELSE {"pages"}
      [] link.as = "at"     -> {"page"}
      [] link.as \in {"dest", "structure"} -> {"destination"}
      [] link.as = "names"  -> {"names root"}
      [] link.as \in {"previous", "next", "first", "last"} -> {"entry"}

(* What may lead nowhere: a page that the document never came to, a place in a
   structure that it never put anywhere, and the end of an outline whose last
   entry waits for children. *)
MayLeadNowhere(object, link) ==
    \/ link.as = "page" /\ \E k \in DOMAIN pdf.future : k > Len(pdf.pages) /\ pdf.future[k] = link.to
    \/ link.as = "structure" /\ \E i \in DOMAIN pdf.dests : pdf.dests[i].object = link.to /\ ~pdf.dests[i].placed
    \/ object.is = "outlines" /\ link.as = "last" /\ link.to = 0

(* Whatever an object points at is in the file and is what it is taken for,
   though it was numbered long before it was written, by another command, or
   never put anywhere by the document. *)
NothingPointsNowhere ==
    Finished =>
    \A n \in 1 .. pdf.counter :
      \E object \in {FoundAt(n)} :
        \A i \in DOMAIN object.links :
          LET link == object.links[i]
          IN  \/ link.to \in 1 .. pdf.counter /\ FoundAt(link.to).is \in Meant(object, link)
              \/ MayLeadNowhere(object, link)

To(object, role) == LET them == SelectSeq(object.links, LAMBDA l : l.as = role)
                    IN  [i \in DOMAIN them |-> them[i].to]
One(object, role) == IF To(object, role) = <<>> THEN 0 ELSE Head(To(object, role))

\* The pages under a node, first to last; nodes that lie about their number or their parent have none.
PagesUnder[depth \in 0 .. TreeLevels] ==
    [n \in 1 .. pdf.counter |->
       LET object == FoundAt(n)
           kids   == To(object, "kid")
           under  == FoldLeft(LAMBDA seq, k : seq \o PagesUnder[depth - 1][k], <<>>, kids)
       IN  IF object.is = "page" THEN <<n>>
           ELSE IF /\ depth > 0
                   /\ Len(kids) <= Fan
                   /\ \A i \in DOMAIN kids : One(FoundAt(kids[i]), "parent") = n
                   /\ Len(under) = object.says
           THEN under ELSE <<>>]

\* What a reader finds for a name, going down where the limits send it; 0 if nothing or two ways.
NameUnder[depth \in 0 .. TreeLevels] ==
    [n \in 1 .. pdf.counter, name \in 0 .. 99 |->
       LET object == FoundAt(n)
           kids   == To(object, "kid")
           hits   == {i \in DOMAIN object.says.names : object.says.names[i] = name}
           ways   == {i \in DOMAIN kids : /\ FoundAt(kids[i]).says.low <= name
                                          /\ name <= FoundAt(kids[i]).says.high}
       IN  IF kids = <<>> THEN IF Cardinality(hits) = 1
                               THEN To(object, "dest")[CHOOSE i \in hits : TRUE] ELSE 0
           ELSE IF depth > 0 /\ Cardinality(ways) = 1
           THEN NameUnder[depth - 1][kids[CHOOSE i \in ways : TRUE], name] ELSE 0]

\* The entries of the outline as a reader meets them, from this one on.
EntriesFrom[fuel \in 0 .. Len(pdf.outlines) + 1] ==
    [n \in 0 .. pdf.counter |->
       IF n = 0 \/ fuel = 0 THEN <<>>
       ELSE LET object == FoundAt(n)
            IN  <<n>> \o EntriesFrom[fuel - 1][One(object, "first")]
                      \o EntriesFrom[fuel - 1][One(object, "next")]]

\* The end of the chain that begins with an entry.
ChainEnd[fuel \in 0 .. Len(pdf.outlines)] ==
    [n \in 1 .. pdf.counter |->
       LET next == One(FoundAt(n), "next")
       IN  IF next = 0 \/ fuel = 0 THEN n ELSE ChainEnd[fuel - 1][next]]

(* The three trees hold what they were made for: the tree of pages leads to
   every page in the order they were shipped, each node with its own count and
   its children's parent; the tree of names finds every named destination by
   the limits alone; the outline's entries are met in the order the document
   gave them, a list's last entry is its last, and its links go both ways.
   pdf_write_page_tree_node, pdf_write_outlines and the tree of names. *)
TreesHold ==
    Finished =>
    LET catalog == FoundAt(pdf.catalog)
        outline == One(catalog, "outlines")
        names   == NamedDests(pdf)
        entries == pdf.outlines
    IN  /\ PagesUnder[TreeLevels][One(catalog, "pages")] = pdf.pages
        /\ \A i \in DOMAIN names :
             NameUnder[TreeLevels][One(FoundAt(One(catalog, "names")), "kid"), names[i].id.key]
               = names[i].object
        /\ entries = <<>> <=> outline = 0
        /\ outline # 0 => EntriesFrom[Len(entries) + 1][One(FoundAt(outline), "first")] = Objects(entries)
        /\ \A i \in DOMAIN entries :
             LET object == FoundAt(entries[i].object)
             IN  /\ One(object, "next") # 0 =>
                      /\ One(FoundAt(One(object, "next")), "previous") = entries[i].object
                      /\ One(FoundAt(One(object, "next")), "parent") = One(object, "parent")
                 /\ One(object, "first") # 0 =>
                      /\ ChainEnd[Len(entries)][One(object, "first")] = One(object, "last")
                      /\ One(FoundAt(One(object, "first")), "parent") = entries[i].object
                      /\ One(FoundAt(One(object, "first")), "previous") = 0

=============================================================================
