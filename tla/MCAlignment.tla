---------------------------- MODULE MCAlignment ------------------------------
(* Alignments: every preamble of a few with every small table of a few rows. *)
EXTENDS Alignment

G(width, stretch, up, shrink) ==
    [width |-> width, stretch |-> stretch, up |-> up, shrink |-> shrink, down |-> 0]

Nil == G(0, 0, 0, 0)

Box(width)  == Item(Node("char", width, width, 1))
Fill        == Item(PlainGlue(G(0, 1, 1, 0)))
Rule        == NoAlign(Node("rule", Running, 1, Running))

\* Preambles as they are written, and the one that repeats last.
Preambles == { <<Box(1), Hash, TabSkip(G(2, 1, 0, 1)), Tab, Hash, Fill, Cr>>,
               <<Open, Box(2), Hash, Close, Tab, Open, Tab, Close, Hash, Hash, CrCr>>,
               <<SpanOn, Macro(<<Hash, Box(3), Tab>>), Box(1), Tab, Hash, Cr>> }
Repeating == { <<Hash, Tab, Tab, Box(1), Hash, TabSkip(G(1, 1, 0, 0)), Tab, Hash, Box(2), Cr>>,
               <<Tab, Box(3), Hash, Cr>> }
Odd       == { <<Close, Open, Hash, Cr>>, <<Hash, Close, Open, Cr>> }

Part(omit, body, by) == [omit |-> omit, body |-> body, by |-> by]

Bodies == { <<>>, <<Box(7)>>, <<Open, Box(2), Close>>, <<Fill, Box(4)>> }
Parts(by) == { Part(FALSE, b, by) : b \in Bodies } \cup { Part(TRUE, <<Box(9)>>, by) }
Few(by)   == { Part(FALSE, <<Box(7)>>, by), Part(TRUE, <<Fill, Box(4)>>, by) }

RowsOfOne   == { <<p>> : p \in Parts("cr") }
RowsOfTwo   == { <<p, q>> : p \in Parts("&") \cup Parts("span"), q \in Parts("cr") }
RowsOfThree == { <<p, q, r>> : p, q \in Few("&") \cup Few("span"), r \in Few("cr") }
Rowss       == RowsOfOne \cup RowsOfTwo \cup { r \in RowsOfThree : r[1].by # "span" \/ r[2].by # "span" }
Second      == { <<p, q>> : p \in Few("&") \cup Few("span"), q \in Few("cr") } \cup RowsOfOne

Tables == { r \o s : r \in Rowss, s \in Second }

\* A span may not reach past the columns made so far.
Spans(t) == \E i \in DOMAIN t : t[i].by = "span"
ColumnOf(t, i) == 1 + Cardinality({j \in 1 .. i - 1 : t[j].by # "cr" /\ \A k \in j .. i - 1 : t[k].by # "cr"})
Within(t, n) == \A i \in DOMAIN t : t[i].by = "span" => ColumnOf(t, i) < n

Rendered(t) ==
    FlattenSeq([i \in DOMAIN t |->
      (IF t[i].omit THEN <<Omit>> ELSE <<>>) \o t[i].body
      \o (CASE t[i].by = "&" -> <<Tab>> [] t[i].by = "span" -> <<SpanOn>>
            [] t[i].by = "cr" -> IF i < Len(t) \/ t[i].body = <<>> THEN <<Cr>> ELSE <<CrCr>>)])

Told(p, t, width, every, skip) ==
    [text |-> p \o Rendered(t) \o <<CrCr, Close>>, table |-> t, width |-> width,
     every |-> every, tabskip |-> skip]

Raw(text) == [text |-> text, table |-> <<>>, width |-> Natural, every |-> <<>>, tabskip |-> Nil]

To(n)     == [how |-> "to", by |-> n]
Spread(n) == [how |-> "spread", by |-> n]

\* Text that does not come out even.
Torn == { <<Open, Box(1), Tab, Box(2), Close, Cr>>, <<Box(1), Close, Tab, Box(2), Cr>>,
          <<Box(1), Close>>, <<Box(1), Close, Close, Cr, Box(2), Cr>>, <<Box(1)>>, <<Cr, Tab, Cr>> }

MCAlignments ==
    { Told(p, t, Spread(3), <<>>, G(1, 2, 0, 1)) : p \in Preambles, t \in {s \in Tables : Within(s, 2)} }
    \cup { Told(p, t, To(30), <<Rule>>, G(1, 2, 0, 1)) : p \in Repeating, t \in {s \in Tables : Within(s, 1)} }
    \cup { Told(p, t, Natural, <<>>, Nil) : p \in Preambles, t \in RowsOfOne }
    \cup { Raw(p \o t \o <<Close>>) : p \in Preambles \cup Odd, t \in Torn }
    \cup { Raw(p) : p \in Preambles }
=============================================================================
