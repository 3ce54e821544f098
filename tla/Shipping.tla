------------------------------ MODULE Shipping ------------------------------
(***************************************************************************)
(* From a list being built to the bytes of a page: boxes are packed as     *)
(* BoxBuilding has it, and \shipout puts a register's box into the page    *)
(* description (ship_out_box, ship_out of src/engine.c).                   *)
(***************************************************************************)
EXTENDS Packing

CONSTANTS
    Registers, Across, Down, LeaderGlues, LeaderKinds, Specs, Shifts, Parts,
    Heights, Documents, TakesBoxes, MaxNest,
    HalfBuffer, HOffset, VOffset,
    Digits, PageWidth, PageHeight, HOrigin, VOrigin, LinkMargin, FontSize, FontFile,
    Colours, PageStack,
    MaxDimen      \* HSTEX_MAX_DIMEN: the most a page may measure

VARIABLES nest, reg, leader, packed, split, work,
          file, written, lastBop, defined, pages, maxV, maxH, maxPush, phase,
          shipped, leaves, fonts, colours,
          pdfOutput,    \* whether \pdfoutput is positive
          toShip        \* bound: pages the document still has to ship

boxes == << nest, reg, leader, packed, split, work >>
dvi   == << file, written, lastBop, defined, pages, maxV, maxH, maxPush, phase,
            shipped >>
pdf   == << leaves, fonts, colours >>
vars  == << boxes, dvi, pdf, pdfOutput, toShip >>

Boxes == INSTANCE BoxBuilding
Dvi   == INSTANCE Dvi
Pdf   == INSTANCE PdfPage

Init ==
    /\ \E d \in Documents : Boxes!Begins(d) /\ pdfOutput = d.pdf /\ toShip = d.pages
    /\ Dvi!Init /\ Pdf!Init

\* A page too large for a page description is thrown away.
Huge(box) ==
    \/ box.height > MaxDimen \/ box.depth > MaxDimen
    \/ box.height + box.depth + VOffset > MaxDimen
    \/ box.width + HOffset > MaxDimen

\* A void box is shipped as a page with nothing on it.
Blank == [kind |-> "hlist", width |-> 0, height |-> 0, depth |-> 0, set |-> NotSet,
          items |-> <<>>]
Held(register) == IF reg[register] = Void THEN Blank ELSE reg[register]

\* ship_out_box and ship_out: a register that is not copied is emptied first,
\* whatever becomes of the page.
ShipOut(register, copy) ==
    /\ nest = <<>> /\ toShip > 0
    /\ reg' = IF copy THEN reg ELSE [reg EXCEPT ![register] = Void]
    /\ toShip' = toShip - 1
    /\ UNCHANGED << nest, leader, packed, split, work, pdfOutput >>
    /\ CASE Huge(Held(register)) -> UNCHANGED << dvi, pdf >>
         [] ~Huge(Held(register)) /\ pdfOutput  -> Pdf!Ship(Held(register)) /\ UNCHANGED dvi
         [] ~Huge(Held(register)) /\ ~pdfOutput -> Dvi!Ship(Held(register)) /\ UNCHANGED pdf

Next ==
    \/ phase # "closed" /\ Boxes!Next /\ UNCHANGED << dvi, pdf, pdfOutput, toShip >>
    \/ \E register \in Registers, copy \in BOOLEAN :
          (copy => toShip > 1) /\ ShipOut(register, copy)  \* bound: the last is no copy
    \/ nest = <<>> /\ Dvi!Close /\ UNCHANGED << boxes, pdf, pdfOutput, toShip >>

Spec == Init /\ [][Next]_vars

-----------------------------------------------------------------------------
(* What the parts promise, of the whole. *)

\* A box that was packed is filled exactly, or its fault is reported or let
\* pass (finalize_hbox, finalize_vbox).
FilledOrReported == Boxes!FilledOrReported

\* A discretionary has what it replaces behind it, and a split loses nothing
\* and fits where it could (execute_discretionary, scan_vsplit).
ListsKeepTheirOwn == Boxes!DiscretionariesHoldTheirOwn /\ Boxes!SplitKeepsAndFits

\* What a reader of the DVI file sees is what was shipped, and the file can be
\* read from its end (dvi_hlist, dvi_vlist, dvi_ship, dvi_close).
DviShowsTheBoxes == Dvi!MarksWhereTheyBelong /\ Dvi!FileHangsTogether

\* A PDF page shows what was shipped, and a link covers its text and nothing
\* else (pdf_hlist, pdf_vlist, pdf_annotate).
PdfShowsTheBoxes == Pdf!PagesShowTheBoxes /\ Pdf!LinksCoverTheirText
=============================================================================
