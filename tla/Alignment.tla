------------------------------ MODULE Alignment ------------------------------
(* \halign: how src/engine.c reads a preamble into columns, reads the rows
   through the templates of those columns, and sets the rows. What an entry
   holds is boxes and glue; \valign is the same the other way down. An
   alignment inside another's entry, \outer macros and migrating material are
   not modelled.

   What is read stands in one list, input. A token of a template is marked:
   the alignment makes nothing of the tabs and braces in it. *)
EXTENDS Packing, TLC

CONSTANT Alignments   \* what may stand between the braces, and how wide it is to be

VARIABLES
    input,     \* what is to be read
    reading,   \* "preamble", "rows", "entry", or how it "ended"
    preamble,  \* the columns, and the one being read
    rows,      \* rows read, and what \noalign left between them
    entry,     \* the entry being read
    asked      \* the width asked for, \everycr, and the table that was written

vars == <<input, reading, preamble, rows, entry, asked>>

-----------------------------------------------------------------------------
(* Tokens. *)

Token(is)        == [is |-> is, own |-> FALSE]
OwnToken(token)  == [token EXCEPT !.own = TRUE]
Item(node)       == With(Token("item"), [node |-> node])
TabSkip(glue)    == With(Token("tabskip"), [glue |-> glue])
Macro(body)      == With(Token("macro"), [body |-> body])
NoAlign(node)    == With(Token("noalign"), [node |-> node])

Open  == Token("{")
Close == Token("}")
Tab   == Token("&")
Hash  == Token("#")
Cr    == Token("cr")
CrCr  == Token("crcr")
SpanOn == Token("span")
Omit  == Token("omit")
EndTemplate == OwnToken(Token("endtemplate"))

Ends(token) == token.is \in {"&", "span", "cr", "crcr"}

\* A brace read goes into the count of whoever counts them; one put back comes out again.
Brace(token) == CASE token.is = "{" -> 1 [] token.is = "}" -> -1 [] OTHER -> 0

NoGlue == [width |-> 0, stretch |-> 0, up |-> 0, shrink |-> 0, down |-> 0]

-----------------------------------------------------------------------------
(* The preamble. *)

NoColumn == [before |-> <<>>, after |-> <<>>, marked |-> FALSE]

NoRepeat == -1

Init ==
    /\ \E a \in Alignments :
         /\ input = a.text
         /\ asked = [width |-> a.width, every |-> a.every, table |-> a.table]
         /\ preamble = [columns |-> <<>>, repeats |-> NoRepeat, declared |-> 0, depth |-> 0,
                        leading |-> a.tabskip, tabskip |-> a.tabskip, making |-> NoColumn]
    /\ reading = "preamble"
    /\ rows = <<>>
    /\ entry = <<>>

Reads(what) == reading = what /\ input # <<>>

Making == preamble.making

\* A tab or a \cr inside braces belongs to whatever the braces hold.
DividesHere(token) ==
    CASE token.is = "&"             -> preamble.depth = 0
      [] token.is \in {"cr", "crcr"} -> preamble.depth = 0
      [] OTHER                      -> FALSE

\* A tab where a column would start marks where the preamble repeats from.
MarksRepeat(token) ==
    /\ token.is = "&"
    /\ ~Making.marked /\ Making.before = <<>>
    /\ preamble.repeats = NoRepeat

Assign ==
    /\ Reads("preamble")
    /\ Head(input).is = "tabskip"
    /\ preamble' = [preamble EXCEPT !.tabskip = Head(input).glue]
    /\ input' = Tail(input)
    /\ UNCHANGED <<reading, rows, entry, asked>>

\* \span in a preamble expands what follows it, once.
Expand ==
    /\ Reads("preamble")
    /\ Head(input).is = "span"
    /\ LET rest == Tail(input)
       IN  input' = IF rest # <<>> /\ Head(rest).is = "macro"
                    THEN Head(rest).body \o Tail(rest) ELSE rest
    /\ UNCHANGED <<reading, preamble, rows, entry, asked>>

Parameter ==
    /\ Reads("preamble")
    /\ Head(input).is = "#"
    /\ preamble' = [preamble EXCEPT !.making.marked = TRUE]
    /\ input' = Tail(input)
    /\ UNCHANGED <<reading, rows, entry, asked>>

Repeat ==
    /\ Reads("preamble")
    /\ DividesHere(Head(input)) /\ MarksRepeat(Head(input))
    /\ preamble' = [preamble EXCEPT !.repeats = Len(preamble.columns)]
    /\ input' = Tail(input)
    /\ UNCHANGED <<reading, rows, entry, asked>>

\* A column with no # gets one where it ends, and the tab is read again.
MissingParameter ==
    /\ Reads("preamble")
    /\ DividesHere(Head(input)) /\ ~MarksRepeat(Head(input)) /\ ~Making.marked
    /\ preamble' = [preamble EXCEPT !.making.marked = TRUE]
    /\ UNCHANGED <<input, reading, rows, entry, asked>>

EndColumn ==
    /\ Reads("preamble")
    /\ DividesHere(Head(input)) /\ Making.marked
    /\ LET columns == Append(preamble.columns,
                             [before |-> Making.before, after |-> Making.after,
                              tabskip |-> preamble.tabskip])
           last    == Head(input).is # "&"
       IN  /\ preamble' = [preamble EXCEPT !.columns = columns, !.making = NoColumn,
                                           !.declared = Len(columns)]
           /\ reading' = IF last THEN "rows" ELSE reading
           /\ input' = IF last THEN asked.every \o Tail(input) ELSE Tail(input)
    /\ UNCHANGED <<rows, entry, asked>>

Template ==
    /\ Reads("preamble")
    /\ Head(input).is \notin {"tabskip", "span", "#"}
    /\ ~DividesHere(Head(input))
    /\ LET t == OwnToken(Head(input))
       IN  preamble' = [preamble EXCEPT
                          !.depth = @ + Brace(t),
                          !.making.before = IF Making.marked THEN @ ELSE Append(@, t),
                          !.making.after = IF Making.marked THEN Append(@, t) ELSE @]
    /\ input' = Tail(input)
    /\ UNCHANGED <<reading, rows, entry, asked>>

-----------------------------------------------------------------------------
(* The rows. *)

Columns == preamble.columns

\* The preamble repeats from its && point until the wanted column is there.
Extended(columns, wanted) ==
    LET period == preamble.declared - preamble.repeats
        Source(i) == IF i <= Len(columns) THEN i
                     ELSE preamble.repeats + 1 + ((i - 1 - preamble.repeats) % period)
    IN  IF wanted <= Len(columns) \/ preamble.repeats \notin 0 .. preamble.declared - 1
        THEN columns
        ELSE [i \in 1 .. wanted |-> columns[Source(i)]]

Before(column) == IF column <= Len(Columns) THEN Columns[column].before ELSE <<>>
After(column)  == IF column <= Len(Columns) THEN Columns[column].after ELSE <<>>

NewRow == [noalign |-> FALSE, cells |-> <<>>]

Used(row) == FoldLeft(LAMBDA sum, cell : sum + cell.span, 0, row.cells)

NewEntry(column, omit) ==
    [column |-> column, span |-> 1, omit |-> omit, nesting |-> 0, ended |-> FALSE, by |-> "cr",
     groups |-> 0, list |-> HList]

\* The first half of a column's template goes in before the entry's own text.
Begin(column, omit, text) ==
    /\ entry' = NewEntry(column, omit)
    /\ input' = IF omit THEN text ELSE Before(column) \o text

BeginEntry(column, text) ==
    IF text # <<>> /\ Head(text).is = "omit"
    THEN Begin(column, TRUE, Tail(text)) ELSE Begin(column, FALSE, text)

SkipCrCr ==
    /\ Reads("rows")
    /\ Head(input).is = "crcr"
    /\ input' = Tail(input)
    /\ UNCHANGED <<reading, preamble, rows, entry, asked>>

BetweenRows ==
    /\ Reads("rows")
    /\ Head(input).is = "noalign"
    /\ rows' = Append(rows, [noalign |-> TRUE, node |-> Head(input).node])
    /\ input' = Tail(input)
    /\ UNCHANGED <<reading, preamble, entry, asked>>

BeginRow ==
    /\ Reads("rows")
    /\ Head(input).is \notin {"crcr", "noalign", "}"}
    /\ rows' = Append(rows, NewRow)
    /\ BeginEntry(1, input)
    /\ reading' = "entry"
    /\ UNCHANGED <<preamble, asked>>

EndRows ==
    /\ Reads("rows")
    /\ Head(input).is = "}"
    /\ input' = Tail(input)
    /\ reading' = "ended"
    /\ UNCHANGED <<preamble, rows, entry, asked>>

-----------------------------------------------------------------------------
(* An entry. *)

\* A token of the entry's own, while it has not ended, is counted as it is read.
Noted(token) == ~entry.ended /\ ~token.own

\* end_alignment_entry: the second half of the template, and a token that ends it.
EndsEntry(by, rest) ==
    /\ entry' = [entry EXCEPT !.by = by, !.ended = TRUE]
    /\ input' = (IF entry.omit THEN <<>> ELSE After(entry.column)) \o <<EndTemplate>> \o rest

\* A tab or a \cr, wherever it turns up: inside a group too.
EndEntry ==
    /\ Reads("entry")
    /\ Ends(Head(input)) /\ Noted(Head(input)) /\ entry.nesting >= 0
    /\ EndsEntry(Head(input).is, Tail(input))
    /\ UNCHANGED <<reading, preamble, rows, asked>>

\* The entry closed a brace it never opened; one is put in and the tab read again.
MissingBrace ==
    /\ Reads("entry")
    /\ Ends(Head(input)) /\ Noted(Head(input)) /\ entry.nesting < 0
    /\ input' = <<Open>> \o input
    /\ UNCHANGED <<reading, preamble, rows, entry, asked>>

\* A tab in a template divides nothing.
Misplaced ==
    /\ Reads("entry")
    /\ Ends(Head(input)) /\ ~Noted(Head(input))
    /\ input' = Tail(input)
    /\ UNCHANGED <<reading, preamble, rows, entry, asked>>

Counted(token) == IF Noted(token) THEN entry.nesting + Brace(token) ELSE entry.nesting

OpenGroup ==
    /\ Reads("entry")
    /\ Head(input).is = "{"
    /\ entry' = [entry EXCEPT !.nesting = Counted(Head(input)), !.groups = @ + 1]
    /\ input' = Tail(input)
    /\ UNCHANGED <<reading, preamble, rows, asked>>

CloseGroup ==
    /\ Reads("entry")
    /\ Head(input).is = "}" /\ entry.groups > 0
    /\ entry' = [entry EXCEPT !.nesting = Counted(Head(input)), !.groups = @ - 1]
    /\ input' = Tail(input)
    /\ UNCHANGED <<reading, preamble, rows, asked>>

(* A brace that would close the entry's own group: a \cr goes in before it. A
   brace put back is counted out, whether or not it had been counted in. *)
MissingCr ==
    /\ Reads("entry")
    /\ Head(input).is = "}" /\ entry.groups = 0 /\ ~entry.ended
    /\ input' = <<Cr, Close>> \o Tail(input)
    /\ entry' = [entry EXCEPT !.nesting = IF Head(input).own THEN @ + 1 ELSE @]
    /\ UNCHANGED <<reading, preamble, rows, asked>>

\* In the second half of a template there is no recovering from it.
StrayBrace ==
    /\ Reads("entry")
    /\ Head(input).is = "}" /\ entry.groups = 0 /\ entry.ended
    /\ reading' = "stopped"
    /\ UNCHANGED <<input, preamble, rows, entry, asked>>

Material ==
    /\ Reads("entry")
    /\ Head(input).is = "item"
    /\ entry' = [entry EXCEPT !.list = PutAcross(@, Head(input).node)]
    /\ input' = Tail(input)
    /\ UNCHANGED <<reading, preamble, rows, asked>>

(* \span carries on into the next column with the same box. The look for an
   \omit is a reading like any other: a tab met there ends the entry at once,
   and the first half of the template goes in before its second half. *)
SpanColumn ==
    /\ Reads("entry")
    /\ Head(input).is = "endtemplate" /\ entry.by = "span"
    /\ LET rest == Tail(input)
           column == entry.column + 1
           omits  == rest # <<>> /\ Head(rest).is = "omit"
       IN  /\ entry' = [entry EXCEPT !.column = column, !.span = @ + 1, !.by = "cr",
                                     !.omit = omits, !.ended = FALSE]
           /\ input' = IF omits THEN Tail(rest) ELSE Before(column) \o rest
    /\ UNCHANGED <<reading, preamble, rows, asked>>

(* The entry is packed and the column after it looked for; where there is
   none the row ends as if the tab had been a \cr. *)
EntryDone ==
    /\ Reads("entry")
    /\ Head(input).is = "endtemplate" /\ entry.by # "span"
    /\ LET n       == Len(rows)
           row     == [rows[n] EXCEPT !.cells = Append(@, [list |-> entry.list, span |-> entry.span])]
           next    == Used(row) + 1
           columns == IF entry.by = "&" THEN Extended(Columns, next) ELSE Columns
           last    == entry.by # "&" \/ next > Len(columns)
           rest    == Tail(input)
       IN  /\ rows' = [rows EXCEPT ![n] = row]
           /\ preamble' = [preamble EXCEPT !.columns = columns]
           /\ IF last
              THEN /\ reading' = "rows"
                   /\ input' = asked.every \o rest
                   /\ entry' = <<>>
              ELSE LET omits == rest # <<>> /\ Head(rest).is = "omit"
                   IN  /\ entry' = NewEntry(next, omits)
                       /\ input' = IF omits THEN Tail(rest) ELSE columns[next].before \o rest
                       /\ UNCHANGED reading
    /\ UNCHANGED asked

\* Input that ends inside an alignment ends the run.
Stops ==
    /\ reading \in {"preamble", "rows", "entry"}
    /\ input = <<>>
    /\ reading' = "stopped"
    /\ UNCHANGED <<input, preamble, rows, entry, asked>>

Next ==
    \/ Assign \/ Expand \/ Parameter \/ Repeat \/ MissingParameter \/ EndColumn \/ Template
    \/ SkipCrCr \/ BetweenRows \/ BeginRow \/ EndRows
    \/ EndEntry \/ MissingBrace \/ Misplaced \/ OpenGroup \/ CloseGroup \/ MissingCr \/ StrayBrace
    \/ Material \/ SpanColumn \/ EntryDone \/ Stops

Spec == Init /\ [][Next]_vars

-----------------------------------------------------------------------------
(* Setting the rows: finish_alignment. *)

RowsOf == SelectSeq(rows, LAMBDA r : ~r.noalign)

\* The column each cell of a row begins in.
StartOf(row, i) == 1 + FoldLeft(LAMBDA sum, cell : sum + cell.span, 0, SubSeq(row.cells, 1, i - 1))

Reached == Max({0} \cup {Used(RowsOf[r]) : r \in DOMAIN RowsOf})

Count == IF Reached < Len(Columns) THEN Reached ELSE Len(Columns)

Started(column) ==
    \E r \in DOMAIN RowsOf : \E i \in DOMAIN RowsOf[r].cells : StartOf(RowsOf[r], i) = column

\* Nothing stands in front of a column no row begins in.
Skips == [c \in 1 .. Count |-> IF c < Count /\ ~Started(c + 1) THEN NoGlue ELSE Columns[c].tabskip]

\* Every entry, with its columns and what it measures: short spans first, then by rows.
Entries ==
    LET all == FlattenSeq([r \in DOMAIN RowsOf |->
                 [i \in DOMAIN RowsOf[r].cells |->
                    [from |-> StartOf(RowsOf[r], i), span |-> RowsOf[r].cells[i].span,
                     width |-> RowsOf[r].cells[i].list.width]]])
    IN  FlattenSeq([span \in 1 .. Count |->
          SelectSeq(all, LAMBDA e : e.span = span /\ e.from + span - 1 <= Count)])

Sum(from, to, Of(_)) == FoldLeft(LAMBDA sum, i : sum + Of(i), 0, [i \in 1 .. to - from + 1 |-> from + i - 1])

\* Mutant of Covered: the glue between the columns is not counted.
CoveredBare(widths, skips, from, span) == Sum(from, from + span - 1, LAMBDA c : widths[c])

Covered(widths, skips, from, span) ==
    Sum(from, from + span - 1, LAMBDA c : widths[c])
      + Sum(from, from + span - 2, LAMBDA c : skips[c].width)

\* An entry that does not fit widens the last column it covers.
Widths(skips) ==
    FoldLeft(LAMBDA acc, e :
               LET last    == e.from + e.span - 1
                   covered == Covered(acc.widths, skips, e.from, e.span)
               IN  IF last \in acc.measured /\ e.width <= covered THEN acc
                   ELSE [widths   |-> [acc.widths EXCEPT ![last] = @ + e.width - covered],
                         measured |-> acc.measured \cup {last}],
             [widths |-> [c \in 1 .. Count |-> 0], measured |-> {}], Entries).widths

\* What the glue of the preamble comes to, as the code adds it up.
PreambleGlue(skips) ==
    FoldLeft(LAMBDA sum, g :
               [sum EXCEPT !.stretch = IF g.up > sum.up THEN g.stretch ELSE @ + g.stretch,
                           !.up      = Larger(@, g.up),
                           !.shrink  = IF g.down > sum.down THEN g.shrink ELSE @ + g.shrink,
                           !.down    = Larger(@, g.down)],
             preamble.leading, skips)

Wanted(natural) == Target(natural, asked.width)

SkipAfter(skips, c) == IF c <= Count THEN skips[c] ELSE preamble.leading
WidthOf(widths, c)  == IF c <= Count THEN widths[c] ELSE 0

\* tabskip_set_width
SkipAsSet(glue, set) == glue.width + SetGlueStep(set, NothingPassed, glue).given

\* An empty box over a column that an entry before it spans.
Pad(width) == ListNode([kind |-> "hlist", width |-> width, height |-> 0, depth |-> 0,
                        set |-> NotSet, items |-> <<>>, spanned |-> TRUE], 0)

(* An entry is set to fill the columns it covers, though its box is as wide as
   the first of them; the rest are filled in behind it. *)
SetCell(cell, from, widths, skips, set) ==
    LET over  == [i \in 1 .. cell.span - 1 |-> from + i]
        reach == WidthOf(widths, from)
                 + FoldLeft(LAMBDA sum, c : sum + SkipAsSet(SkipAfter(skips, c - 1), set) + WidthOf(widths, c), 0, over)
        box   == [HBox(cell.list, Natural) EXCEPT
                    !.set = GlueSet(cell.list.width, reach, TotalGlue(cell.list.items)),
                    !.width = WidthOf(widths, from)]
    IN  <<ListNode(box, 0)>>
        \o FlattenSeq([i \in DOMAIN over |-> <<PlainGlue(SkipAfter(skips, over[i] - 1)),
                                               Pad(WidthOf(widths, over[i]))>>])

\* A row: every entry as tall and as deep as the row, and set with the preamble's glue.
SetRow(row, widths, skips, set, width) ==
    LET cells == FlattenSeq([i \in DOMAIN row.cells |->
                   LET from == StartOf(row, i)
                       cell == row.cells[i]
                   IN  SetCell(cell, from, widths, skips, set)
                       \o <<PlainGlue(SkipAfter(skips, from + cell.span - 1))>>])
        list  == FoldLeft(PutAcross, HList, <<PlainGlue(preamble.leading)>> \o cells)
        Even(node) == IF node.kind = "list" /\ "spanned" \notin DOMAIN node.box
                      THEN [node EXCEPT !.height = list.height, !.depth = list.depth] ELSE node
    IN  [kind |-> "hlist", width |-> width, height |-> list.height, depth |-> list.depth,
         set |-> set, items |-> [i \in DOMAIN list.items |-> Even(list.items[i])]]

Shaped(node, width) ==
    IF node.kind # "rule" THEN node
    ELSE [node EXCEPT !.width = IF @ = Running THEN width ELSE @,
                      !.height = Packed(@), !.depth = Packed(@)]

\* The alignment, from the skips of its columns and their widths.
SetRows(skips, widths) ==
    LET natural == preamble.leading.width + Sum(1, Count, LAMBDA c : widths[c] + skips[c].width)
        width   == Wanted(natural)
        set     == GlueSet(natural, width, PreambleGlue(skips))
    IN  [i \in DOMAIN rows |->
           IF rows[i].noalign THEN Shaped(rows[i].node, width)
           ELSE ListNode(SetRow(rows[i], widths, skips, set, width), 0)]

Lines == SetRows(Skips, Widths(Skips))

-----------------------------------------------------------------------------
(* Properties. *)

ItemsOf(tokens) ==
    LET items == SelectSeq(tokens, LAMBDA t : t.is = "item")
    IN  [i \in DOMAIN items |-> items[i].node]

\* The column of the preamble that stands for this one.
Standing(c) ==
    IF c <= preamble.declared \/ preamble.repeats = NoRepeat THEN c
    ELSE preamble.repeats + 1 + ((c - 1 - preamble.repeats) % (preamble.declared - preamble.repeats))

HasColumn(c) == c <= preamble.declared \/ preamble.repeats \in 0 .. preamble.declared - 1

\* What a part of an entry holds: what was written, between the halves of the template.
Holds(part, c) ==
    IF part.omit THEN ItemsOf(part.body)
    ELSE LET column == Columns[Standing(c)]
         IN  ItemsOf(column.before) \o ItemsOf(part.body) \o ItemsOf(column.after)

(* The rows of a table, from the parts of entries that were written: a part is
   followed by another of the same entry, by another entry, or by another row;
   and a tab that asks for a column the preamble has not got begins a new row. *)
AddPart(acc, part) ==
    LET c     == acc.column
        cell  == [list |-> FoldLeft(PutAcross, acc.cell.list, Holds(part, c)), span |-> acc.cell.span + 1]
        row   == Append(acc.row, cell)
        more  == part.by = "&" /\ HasColumn(c + 1)
        Empty == [list |-> HList, span |-> 0]
    IN  IF part.by = "span" THEN [acc EXCEPT !.column = c + 1, !.cell = cell]
        ELSE IF more THEN [acc EXCEPT !.column = c + 1, !.cell = Empty, !.row = row]
        ELSE [rows |-> Append(acc.rows, [noalign |-> FALSE, cells |-> row]),
              row |-> <<>>, cell |-> Empty, column |-> 1]

Written == FoldLeft(AddPart, [rows |-> <<>>, row |-> <<>>, cell |-> [list |-> HList, span |-> 0], column |-> 1],
                    asked.table).rows

(* The rows that are set are those that were written, with each entry between
   the halves of its own columns' templates, whatever braces, tabs and
   separators the templates and the entries hold themselves, and whichever of
   its columns the preamble had to repeat. note_alignment_token,
   end_alignment_entry, evaluate_align_cell, extend_align_columns. *)
SetAsWritten == reading = "ended" /\ asked.table # <<>> => RowsOf = Written

EndsAt(e) == e.from + e.span - 1

(* Whether the columns were taken in an order that settles them: no entry ends
   inside another that was looked at before it. *)
Settled ==
    \E entries \in {Entries} :
      \A i, j \in DOMAIN entries :
        entries[i].from <= EndsAt(entries[j]) /\ EndsAt(entries[j]) < EndsAt(entries[i]) => j < i

\* What the columns an entry covers leave it, and the glue between them.
Room(widths, skips, e) ==
    FoldLeft(LAMBDA sum, c : sum + widths[c] + (IF c < EndsAt(e) THEN skips[c].width ELSE 0),
             0, SelectSeq([c \in 1 .. Count |-> c], LAMBDA c : e.from <= c /\ c <= EndsAt(e)))

\* Every entry fits the columns it covers, and no column is wider than some entry makes it.
EntriesFit ==
    reading = "ended" =>
    \E skips \in {Skips} : \E widths \in {Widths(skips)} : \E entries \in {Range(Entries)} :
      /\ \A e \in entries : e.width <= Room(widths, skips, e)
      /\ \A e \in entries : \E d \in entries :
           EndsAt(d) = EndsAt(e) /\ d.width = Room(widths, skips, d)

\* Where each box of a line stands, and where the line ends, with its glue set.
Standings(box) ==
    FoldLeft(LAMBDA acc, node :
               IF node.kind = "glue"
               THEN LET glue == SetGlueStep(box.set, acc.glue, node.glue)
                    IN  [acc EXCEPT !.at = @ + node.width + glue.given - acc.glue.given, !.glue = glue]
               ELSE [acc EXCEPT !.at = @ + node.width, !.places = Append(@, acc.at)],
             [at |-> 0, glue |-> NothingPassed, places |-> <<>>], box.items)

OneOrder == \A i \in 1 .. Count : /\ Skips[i].up = preamble.leading.up
                                  /\ Skips[i].down = preamble.leading.down

CanFill(set) == set.total # 0 /\ (set.sign = "shrinking" /\ set.order = 0 => set.needed < set.total)

(* The columns line up: a column stands at the same place in every row that
   comes to it, whatever spans it there; an entry fits the columns it covers
   and no column is wider than it need be; and a row that comes to the last
   column comes to the width the alignment has. finish_alignment. *)
ColumnsLineUp ==
    reading = "ended" =>
    \E skips \in {Skips} : \E widths \in {Widths(skips)} : \E lines \in {SetRows(skips, widths)} :
      LET full == {i \in DOMAIN rows : ~rows[i].noalign}
          at   == [i \in full |-> Standings(lines[i].box)]
      IN  /\ \A i, j \in full : \A c \in DOMAIN at[i].places \cap DOMAIN at[j].places :
               at[i].places[c] = at[j].places[c]
          /\ Settled => EntriesFit
          /\ \A i \in full :
               /\ Used(rows[i]) = Count /\ OneOrder /\ CanFill(lines[i].box.set)
               => at[i].at = lines[i].width
          /\ \A i \in DOMAIN rows \ full : \A j \in full :
               lines[i].kind = "rule" /\ rows[i].node.width = Running => lines[i].width = lines[j].width
=============================================================================
