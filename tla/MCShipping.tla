---------------------------- MODULE MCShipping -------------------------------
(* Instances of shipping for TLC. *)
EXTENDS Shipping

G(width, stretch, up, shrink) ==
    [width |-> width, stretch |-> stretch, up |-> up, shrink |-> shrink, down |-> 0]

Baseline == G(4, 0, 0, 0)
Lineskip == G(1, 1, 0, 0)
Topskip  == G(2, 0, 0, 0)

Kern     == Node("kern", 1, 0, 0)
Char(c, font) == With(Node("char", 2, 2, 1), [char |-> c, font |-> font])
Letter   == Char("a", 3)
Strut    == Node("rule", 1, 3, Running)
Bar      == Node("rule", Running, 1, 2)
Mark     == Node("mark", 0, 0, 0)
Adjusted == With(Node("adjust", 0, 0, 0), [held |-> <<Bar, Kern>>])

HItems   == { Letter, Strut, Kern, PlainGlue(G(1, 3, 0, 1)), Adjusted }
VItems   == { Bar, Kern, PlainGlue(G(1, 1, 0, 1)), PlainGlue(G(0, 2, 1, 0)),
              PenaltyNode(0), PenaltyNode(-10000), Mark }
Fill     == { G(3, 1, 1, 0) }
Sizes    == { [how |-> "to", by |-> 5], [how |-> "spread", by |-> -2] }

Stacked(items) == VBox(FoldLeft(PutBelow, VList, items), Natural, BoxMaxDepth)
Line     == ListNode(HBox(FoldLeft(PutAcross, HList, <<Letter>>), Natural), 0)
BoxedParts == { <<>>, <<Line>> }
DiscParts == { <<>>, <<Letter, Kern, PlainGlue(G(1, 0, 0, 0))>> }

Galley   == { Line, Mark, Kern, PlainGlue(G(1, 1, 0, 1)), PenaltyNode(0),
              PenaltyNode(-10000), PenaltyNode(10000) }
Galleys  == UNION {[1 .. n -> Galley] : n \in 1 .. 2}
            \cup { <<Line, a, b>> : a, b \in Galley }
            \cup { <<Line, a, b, Mark, Line>> : a, b \in Galley \ {Line, Mark} }

Empty    == [r \in Registers |-> Void]
Told     == { [stock |-> Empty, work |-> 3, pdf |-> FALSE, pages |-> 0] }
            \cup { [stock |-> [Empty EXCEPT ![0] = Stacked(g)], work |-> 2, pdf |-> FALSE, pages |-> 0] : g \in Galleys }
            \cup { [stock |-> [Empty EXCEPT ![0] = Stacked(<<Line, Line>>)], work |-> 3, pdf |-> FALSE, pages |-> 0] }

\* Lines whose movements repeat, within boxes and across them.
Hop(n)   == Node("kern", n, 0, 0)
HBoxOf(items) == HBox(FoldLeft(PutAcross, HList, items), Natural)
Inner    == ListNode(HBoxOf(<<Hop(3), Letter, Hop(5), Letter>>), 0)
Raised   == ListNode(HBoxOf(<<Hop(3), Char("b", 4)>>), -3)
Steps    == { <<Hop(3), Letter>>, <<Hop(5), Letter>>, <<Inner>>, <<Raised>>,
              <<Hop(200), Char("b", 4)>> }
HTrees   == {HBoxOf(FlattenSeq(s)) : s \in [1 .. 4 -> Steps \ {<<Raised>>}]}

Note     == With(Node("whatsit", 0, 0, 0), [what |-> "special", text |-> "s"])
Led(kind, node) == GlueNode(G(9, 1, 1, 0), <<node>>, kind)
Columns  == { ListNode(HBoxOf(<<Letter, Hop(3), Strut>>), 0), Raised,
              Bar, Note, PlainGlue(G(1, 1, 0, 1)), Led("aligned", Bar) }
              \cup { Led(k, Line) : k \in {"aligned", "centered", "expanded"} }
VBoxOf(items, spec) == VBox(FoldLeft(PutBelow, VList, items), spec, BoxMaxDepth)
VTrees   == {VBoxOf(s \o <<Raised>>, [how |-> "to", by |-> 21]) : s \in [1 .. 2 -> Columns]}
Across1  == { ListNode(VBoxOf(<<Line, Bar, Line>>, Natural), 1), Note, Letter,
              PlainGlue(G(1, 3, 0, 1)), Led("aligned", Strut) }
              \cup { Led(k, Inner) : k \in {"aligned", "centered", "expanded"} }
HLed     == {HBox(FoldLeft(PutAcross, HList, s), [how |-> "to", by |-> 40]) : s \in [1 .. 3 -> Across1]}

\* Pages for the PDF file, in points of 65536.
Wide(c, f)  == With(Node("char", IF f = 4 THEN 151667 ELSE 303333, 400000, 100000),
                    [char |-> c, font |-> f])
Gap         == Node("kern", 70001, 0, 0)
Tell(what, more) == With(With(Node("whatsit", Running, Running, Running), [what |-> what]), more)
Push(c)     == Tell("colour", [action |-> "push", text |-> c])
SetTo(c)    == Tell("colour", [action |-> "set", text |-> c])
Pop         == Tell("colour", [action |-> "pop", text |-> ""])
Drawn(place, late, t) == Tell("literal", [place |-> place, late |-> late, text |-> t])
Start       == Tell("startlink", [id |-> 1])
End         == Tell("endlink", [id |-> 1])
Hair        == Node("rule", 30000, 300000, 0)
Block       == Node("rule", 90000, 300000, 100000)
Stroke      == Node("rule", Running, 40000, 0)

Run         == {HBoxOf(FlattenSeq(s) \o <<Wide("z", 3)>>) :
                   s \in [1 .. 7 -> {<<Wide("a", 3)>>, <<Gap, Wide("b", 3)>>}]}
Mixed       == { Wide("a", 3), Wide("b", 4), Wide("c", 5), Hair, Block, Push("red"), Pop,
                 SetTo("blue"), Drawn("direct", TRUE, "d") }
Sentence    == {HBoxOf(<<Wide("x", 3)>> \o s \o <<Gap, Wide("y", 3)>>) : s \in [1 .. 3 -> Mixed]}
Linked      == { <<Wide("a", 3)>>, <<Wide("b", 3), Start, Wide("c", 4)>>, <<Wide("d", 3), End, Wide("e", 3)>>,
                 <<Start, Wide("f", 3), End, Gap, Wide("g", 3)>>,
                 <<ListNode(HBoxOf(<<Wide("h", 3)>>), 100000), Wide("i", 5)>> }
Columned    == {VBoxOf([i \in 1 .. 3 |-> ListNode(HBoxOf(s[i]), 50000 * i)] \o <<Stroke>>, Natural) :
                   s \in [1 .. 3 -> Linked]}
Saved       == { HBoxOf(<<Tell("save", <<>>), Push("red"), Wide("a", 3), Pop, Node("kern", -303333, 0, 0),
                          Tell("restore", <<>>), Wide("b", 3)>>),
                 VBoxOf(<<ListNode(HBoxOf(<<Wide("a", 3), Drawn("page", TRUE, "p")>>), 0),
                          Drawn("origin", TRUE, "q1"), Led("aligned", Stroke),
                          ListNode(HBoxOf(<<GlueNode(G(900000, 0, 0, 0),
                              <<ListNode(HBoxOf(<<Wide("l", 4)>>), 0)>>, "expanded")>>), 0)>>, Natural) }

Printed  == { [stock |-> (0 :> b), work |-> 0, pdf |-> FALSE, pages |-> 1] : b \in HTrees \cup VTrees \cup HLed }
            \cup { [stock |-> (0 :> b), work |-> 0, pdf |-> TRUE, pages |-> 2] :
                      b \in Run \cup Sentence \cup Columned \cup Saved }
Repeated == { [stock |-> (0 :> HBoxOf(<<GlueNode(G(900000, 0, 0, 0),
                   <<ListNode(HBoxOf(<<Wide("l", 4), Drawn("origin", TRUE, "t")>>), 0)>>, "aligned"),
                   Drawn("origin", TRUE, u), Wide("m", 3)>>)), work |-> 0, pdf |-> TRUE, pages |-> 1] :
                 u \in {"u", "red"} }
Short    == { [stock |-> Empty, work |-> 4, pdf |-> FALSE, pages |-> 0] }
All      == Told \cup Printed
Sizes3   == [f \in 3 .. 5 |-> IF f = 4 THEN 327680 ELSE 655360]
Files3   == [f \in 3 .. 5 |-> IF f = 5 THEN "cmbx" ELSE "cmr"]
=============================================================================
