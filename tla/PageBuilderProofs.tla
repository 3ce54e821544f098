--------------------------- MODULE PageBuilderProofs ---------------------------
(***************************************************************************)
(* What the page builder keeps for every document, every goal and every    *)
(* set of insertion classes (engine.c, build_page, fire_up and the output  *)
(* routine):                                                               *)
(*   PageTypeCorrect   types, and the shape of the page and the routine    *)
(*   NothingIsLost     every piece lies in one place, once                 *)
(*   TextComesInOrder  the shipped text is in reading order                *)
(*   MarksAreRight     the marks of a shipped page are those on the page   *)
(*   PagesFit          a page and its insertions are what \vsize has room  *)
(*                     for                                                 *)
(***************************************************************************)
EXTENDS PageBuilder, ListLemmas

(* Boxes and marks of the text, and those of insertions. *)
TextPiece == {n \in Node : n.kind \in {"box", "mark"} /\ n.id # 0}
LinePiece == {n \in LineNode : n.kind \in {"box", "mark"}}
Piece     == TextPiece \cup LinePiece

\* What the kind of a node of the page says about its fields.
LEMMA NodeFacts ==
  ASSUME NEW n \in Node
  PROVE  /\ n.kind \in {"box", "mark", "kern", "penalty", "glue", "insert"}
         /\ n.kind \in {"box", "mark"} => n.line = 0 /\ n.id \in Nat
         /\ n.kind = "mark" => n.id # 0
         /\ n.kind = "insert" => n.class \in Classes /\ n.list \in Seq(LineNode) /\ n.height \in Int
         /\ n.kind = "penalty" => n.penalty \in Int
BY DEF Node, Pieces, Plain, Box

\* The same for the nodes of an insertion's list.
LEMMA LineFacts ==
  ASSUME NEW n \in LineNode
  PROVE  /\ n.kind \in {"box", "mark", "kern", "penalty", "glue"}
         /\ n.kind \in {"box", "mark"} => n.line \in Nat \ {0} /\ n.id \in Nat \ {0}
         /\ n.kind = "penalty" => n.penalty \in Int
BY DEF LineNode, Pieces, Plain

\* Text and lines of insertions are told apart by their line number.
LEMMA PieceFacts ==
  /\ \A n \in TextPiece : n.line = 0 /\ n.id \in Nat \ {0} /\ n.kind \in {"box", "mark"}
  /\ \A n \in LinePiece : n.line \in Nat \ {0} /\ n.id \in Nat \ {0} /\ n.kind \in {"box", "mark"}
<1>1. ASSUME NEW n \in TextPiece
      PROVE  n.line = 0 /\ n.id \in Nat \ {0} /\ n.kind \in {"box", "mark"}
  BY NodeFacts DEF TextPiece
<1>2. ASSUME NEW n \in LinePiece
      PROVE  n.line \in Nat \ {0} /\ n.id \in Nat \ {0} /\ n.kind \in {"box", "mark"}
  BY LineFacts DEF LinePiece
<1> QED BY <1>1, <1>2

------------------------------------------------------------------------------
(* What a list holds, as what each of its nodes gives. *)

MatOn(N) == [n \in N |-> IF n.kind \in {"box", "mark"} /\ n.id # 0 THEN <<n>> ELSE <<>>]
LinOn(N) == [n \in N |-> IF n.kind = "insert" THEN Material(n.list) ELSE <<>>]

\* The material of a list is what its nodes give, one after the other.
LEMMA MaterialIs ==
  ASSUME NEW N, NEW list \in Seq(N)
  PROVE  Material(list) = Spread(MatOn(N), list)
<1>1. [i \in DOMAIN list |-> IF list[i].kind \in {"box", "mark"} /\ list[i].id # 0
                             THEN <<list[i]>> ELSE <<>>]
      = Mapped(MatOn(N), list)
  BY DEF Mapped, MatOn
<1> QED BY <1>1 DEF Material, Only, Spread

\* So are the lines of its insertions.
LEMMA LinesOfIs ==
  ASSUME NEW N, NEW list \in Seq(N)
  PROVE  LinesOf(list) = Spread(LinOn(N), list)
<1>1. [i \in DOMAIN list |-> IF list[i].kind = "insert" THEN Material(list[i].list) ELSE <<>>]
      = Mapped(LinOn(N), list)
  <2> DEFINE M(n) == Material(n)
  <2> HIDE DEF M
  <2>1. [i \in DOMAIN list |-> IF list[i].kind = "insert" THEN M(list[i].list) ELSE <<>>]
        = [i \in DOMAIN list |-> [n \in N |-> IF n.kind = "insert" THEN M(n.list) ELSE <<>>][list[i]]]
    OBVIOUS
  <2> QED BY <2>1 DEF Mapped, LinOn, M
<1> QED BY <1>1 DEF LinesOf, Spread

\* What one node gives is a list of text, or of lines.
LEMMA MatMaps ==
  /\ Maps(MatOn(Node), Node, Seq(TextPiece))
  /\ Maps(MatOn(LineNode), LineNode, Seq(LinePiece))
<1>1. ASSUME NEW n \in Node
      PROVE  (IF n.kind \in {"box", "mark"} /\ n.id # 0 THEN <<n>> ELSE <<>>) \in Seq(TextPiece)
  <2>1. CASE n.kind \in {"box", "mark"} /\ n.id # 0
    <3>1. n \in TextPiece BY <2>1 DEF TextPiece
    <3> QED BY <2>1, <3>1
  <2>2. CASE ~(n.kind \in {"box", "mark"} /\ n.id # 0)
    BY <2>2
  <2> QED BY <2>1, <2>2
<1>2. ASSUME NEW n \in LineNode
      PROVE  (IF n.kind \in {"box", "mark"} /\ n.id # 0 THEN <<n>> ELSE <<>>) \in Seq(LinePiece)
  <2>1. CASE n.kind \in {"box", "mark"} /\ n.id # 0
    <3>1. n \in LinePiece BY <2>1 DEF LinePiece
    <3> QED BY <2>1, <3>1
  <2>2. CASE ~(n.kind \in {"box", "mark"} /\ n.id # 0)
    BY <2>2
  <2> QED BY <2>1, <2>2
<1> QED BY <1>1, <1>2 DEF Maps, MatOn

\* The material of a page's list is text, that of an insertion's list lines.
LEMMA MaterialType ==
  /\ \A list \in Seq(Node) : Material(list) \in Seq(TextPiece)
  /\ \A list \in Seq(LineNode) : Material(list) \in Seq(LinePiece)
<1>1. ASSUME NEW list \in Seq(Node) PROVE Material(list) \in Seq(TextPiece)
  BY MatMaps, SpreadType, MaterialIs
<1>2. ASSUME NEW list \in Seq(LineNode) PROVE Material(list) \in Seq(LinePiece)
  BY MatMaps, SpreadType, MaterialIs
<1> QED BY <1>1, <1>2

\* An insertion gives lines; no insertion lies within an insertion.
LEMMA LinMaps ==
  /\ Maps(LinOn(Node), Node, Seq(LinePiece))
  /\ Maps(LinOn(LineNode), LineNode, Seq({}))
<1>1. ASSUME NEW n \in Node
      PROVE  (IF n.kind = "insert" THEN Material(n.list) ELSE <<>>) \in Seq(LinePiece)
  <2>1. CASE n.kind = "insert"
    <3>1. n.list \in Seq(LineNode) BY <2>1, NodeFacts
    <3> QED BY <3>1, <2>1, MaterialType
  <2>2. CASE n.kind # "insert"
    BY <2>2
  <2> QED BY <2>1, <2>2
<1>2. ASSUME NEW n \in LineNode
      PROVE  (IF n.kind = "insert" THEN Material(n.list) ELSE <<>>) \in Seq({})
  <2>1. n.kind # "insert" BY LineFacts
  <2> QED BY <2>1
<1> QED BY <1>1, <1>2 DEF Maps, LinOn

\* The lines of a page's insertions are lines; an insertion's list has none.
LEMMA LinesOfType ==
  /\ \A list \in Seq(Node) : LinesOf(list) \in Seq(LinePiece)
  /\ \A list \in Seq(LineNode) : LinesOf(list) = <<>>
<1>1. ASSUME NEW list \in Seq(Node) PROVE LinesOf(list) \in Seq(LinePiece)
  BY LinMaps, SpreadType, LinesOfIs
<1>2. ASSUME NEW list \in Seq(LineNode) PROVE LinesOf(list) = <<>>
  <2>1. LinesOf(list) \in Seq({})
    BY LinMaps, SpreadType, LinesOfIs
  <2> QED BY <2>1
<1> QED BY <1>1, <1>2

\* An empty list holds nothing.
LEMMA MaterialEmpty == Material(<<>>) = <<>> /\ LinesOf(<<>>) = <<>>
<1>1. <<>> \in Seq({}) OBVIOUS
<1>2. Material(<<>>) = Spread(MatOn({}), <<>>) /\ LinesOf(<<>>) = Spread(LinOn({}), <<>>)
  BY <1>1, MaterialIs, LinesOfIs
<1> QED BY <1>2, SpreadEmpty

\* What two joined lists hold is what each holds.
LEMMA MaterialConcat ==
  \A a, b \in Seq(Node) : /\ Material(a \o b) = Material(a) \o Material(b)
                          /\ LinesOf(a \o b) = LinesOf(a) \o LinesOf(b)
<1> SUFFICES ASSUME NEW a \in Seq(Node), NEW b \in Seq(Node)
             PROVE  /\ Material(a \o b) = Material(a) \o Material(b)
                    /\ LinesOf(a \o b) = LinesOf(a) \o LinesOf(b)
  OBVIOUS
<1>1. a \o b \in Seq(Node) OBVIOUS
<1>2. /\ Material(a) = Spread(MatOn(Node), a) /\ Material(b) = Spread(MatOn(Node), b)
      /\ LinesOf(a) = Spread(LinOn(Node), a) /\ LinesOf(b) = Spread(LinOn(Node), b)
  BY MaterialIs, LinesOfIs
<1>3. Material(a \o b) = Spread(MatOn(Node), a \o b) /\ LinesOf(a \o b) = Spread(LinOn(Node), a \o b)
  BY <1>1, MaterialIs, LinesOfIs
<1>4. Spread(MatOn(Node), a \o b) = Spread(MatOn(Node), a) \o Spread(MatOn(Node), b)
  BY MatMaps, SpreadConcat
<1>5. Spread(LinOn(Node), a \o b) = Spread(LinOn(Node), a) \o Spread(LinOn(Node), b)
  BY LinMaps, SpreadConcat
<1> QED BY <1>2, <1>3, <1>4, <1>5

\* The same for lists of insertions.
LEMMA LineMaterialConcat ==
  \A a, b \in Seq(LineNode) : Material(a \o b) = Material(a) \o Material(b)
<1> SUFFICES ASSUME NEW a \in Seq(LineNode), NEW b \in Seq(LineNode)
             PROVE  Material(a \o b) = Material(a) \o Material(b)
  OBVIOUS
<1>1. a \o b \in Seq(LineNode) OBVIOUS
<1>2. /\ Material(a) = Spread(MatOn(LineNode), a) /\ Material(b) = Spread(MatOn(LineNode), b)
      /\ Material(a \o b) = Spread(MatOn(LineNode), a \o b)
  BY <1>1, MaterialIs
<1>4. Spread(MatOn(LineNode), a \o b) = Spread(MatOn(LineNode), a) \o Spread(MatOn(LineNode), b)
  BY MatMaps, SpreadConcat
<1> QED BY <1>2, <1>4

\* What a list of one node holds.
LEMMA MaterialOne ==
  \A n \in Node : /\ Material(<<n>>) = IF n.kind \in {"box", "mark"} /\ n.id # 0 THEN <<n>> ELSE <<>>
                  /\ LinesOf(<<n>>) = IF n.kind = "insert" THEN Material(n.list) ELSE <<>>
<1> TAKE n \in Node
<1>1. <<n>> \in Seq(Node) OBVIOUS
<1>2. Material(<<n>>) = MatOn(Node)[n]
  BY <1>1, MaterialIs, MatMaps, SpreadOne
<1>3. LinesOf(<<n>>) = LinOn(Node)[n]
  BY <1>1, LinesOfIs, LinMaps, SpreadOne
<1> QED BY <1>2, <1>3 DEF MatOn, LinOn

------------------------------------------------------------------------------
(* How much of X a list of the builder holds, and the lists of insertions. *)

\* The number of pieces of X in a list and in the insertions of the list.
Weight(list, X) == Tally(Material(list), X) + Tally(LinesOf(list), X)

\* It is a number.
LEMMA WeightNat ==
  ASSUME NEW X
  PROVE  \A list \in Seq(Node) : Weight(list, X) \in Nat
<1> TAKE list \in Seq(Node)
<1>1. Tally(Material(list), X) \in Nat BY MaterialType, TallyNat
<1>2. Tally(LinesOf(list), X) \in Nat BY LinesOfType, TallyNat
<1> QED BY <1>1, <1>2 DEF Weight

\* An empty list holds none.
LEMMA WeightEmpty ==
  ASSUME NEW X PROVE Weight(<<>>, X) = 0
BY MaterialEmpty, TallyEmpty DEF Weight

\* Two joined lists hold what each holds.
LEMMA WeightConcat ==
  ASSUME NEW X
  PROVE  \A a, b \in Seq(Node) : Weight(a \o b, X) = Weight(a, X) + Weight(b, X)
<1> SUFFICES ASSUME NEW a \in Seq(Node), NEW b \in Seq(Node)
             PROVE  Weight(a \o b, X) = Weight(a, X) + Weight(b, X)
  OBVIOUS
<1>1. /\ Material(a) \in Seq(TextPiece) /\ Material(b) \in Seq(TextPiece)
      /\ LinesOf(a) \in Seq(LinePiece) /\ LinesOf(b) \in Seq(LinePiece)
  BY MaterialType, LinesOfType
<1>2. Tally(Material(a) \o Material(b), X) = Tally(Material(a), X) + Tally(Material(b), X)
  BY <1>1, TallyConcat
<1>3. Tally(LinesOf(a) \o LinesOf(b), X) = Tally(LinesOf(a), X) + Tally(LinesOf(b), X)
  BY <1>1, TallyConcat
<1>4. /\ Tally(Material(a), X) \in Nat /\ Tally(Material(b), X) \in Nat
      /\ Tally(LinesOf(a), X) \in Nat /\ Tally(LinesOf(b), X) \in Nat
  BY <1>1, TallyNat
<1>5. Material(a \o b) = Material(a) \o Material(b) /\ LinesOf(a \o b) = LinesOf(a) \o LinesOf(b)
  BY MaterialConcat
<1> QED BY <1>2, <1>3, <1>4, <1>5 DEF Weight

\* A list of one element holds one of X or none.
LEMMA TallyOne ==
  \A n, X : Tally(<<n>>, X) = IF n \in X THEN 1 ELSE 0
<1> SUFFICES ASSUME NEW n, NEW X PROVE Tally(<<n>>, X) = IF n \in X THEN 1 ELSE 0
  OBVIOUS
<1> DEFINE e == <<>>
           N == {n}
<1>1. e \in Seq(N) /\ n \in N /\ Append(e, n) = <<n>> /\ Tally(e, X) = 0
  BY TallyEmpty
<1> HIDE DEF e, N
<1>2. Tally(Append(e, n), X) = Tally(e, X) + IF n \in X THEN 1 ELSE 0
  BY <1>1, TallyAppend, ZenonT(40)
<1> QED BY <1>1, <1>2

\* Glue, kerns and penalties hold nothing.
LEMMA WeightPlain ==
  ASSUME NEW X, NEW n \in Node, n.kind \notin {"box", "mark", "insert"} \/ n = Box(0, 0, 0)
  PROVE  Weight(<<n>>, X) = 0
<1>1. Material(<<n>>) = <<>> /\ LinesOf(<<n>>) = <<>>
  BY MaterialOne DEF Box
<1> QED BY <1>1, TallyEmpty DEF Weight

\* An insertion holds what its list holds.
LEMMA WeightInsert ==
  ASSUME NEW X, NEW n \in Node, n.kind = "insert"
  PROVE  Weight(<<n>>, X) = Tally(Material(n.list), X)
<1>1. Material(<<n>>) = <<>> /\ LinesOf(<<n>>) = Material(n.list)
  BY MaterialOne
<1>2. n.list \in Seq(LineNode) BY NodeFacts
<1>3. Tally(Material(n.list), X) \in Nat BY <1>2, MaterialType, TallyNat
<1> QED BY <1>1, <1>3, TallyEmpty DEF Weight

------------------------------------------------------------------------------
(* Pruning and splitting a list lose nothing. *)

\* The glue vpack puts before the first box of a pruned list is plain glue.
LEMMA SkipIsPlain ==
  \A skip \in Int, n \in Node \cup LineNode : n.kind = "box" => SkipTo(skip, n) \in Plain
<1> SUFFICES ASSUME NEW skip \in Int, NEW n \in Node \cup LineNode, n.kind = "box"
             PROVE  SkipTo(skip, n) \in Plain
  OBVIOUS
<1>1. n.height \in Int BY DEF Node, LineNode, Pieces, Plain, Box
<1> DEFINE d == skip - n.height
<1>2. d \in Int BY <1>1
<1> HIDE DEF d
<1>3. Max({0, d}) \in Int
  <2>1. \E x \in {0, d} : \A y \in {0, d} : x >= y BY <1>2
  <2>2. Max({0, d}) \in {0, d} BY <2>1 DEF Max
  <2> QED BY <2>2, <1>2
<1> DEFINE m == Max({0, d})
<1>4. m \in Int BY <1>3
<1> HIDE DEF m
<1>5. Glue(m, 0, FALSE, 0) \in Plain BY <1>4 DEF Glue, Plain
<1> QED BY <1>5 DEF SkipTo, d, m

\* Glue, kerns and penalties may stand in both kinds of list.
LEMMA PlainIsNode == Plain \subseteq Node /\ Plain \subseteq LineNode
BY DEF Node, LineNode, Pieces

\* What Pruned makes of the i-th node.
Trimmed(list, i) ==
  CASE ~(\E j \in 1 .. i - 1 : list[j].kind = "box") /\ list[i].kind = "box"
           -> <<SkipTo(SplitTopSkip, list[i]), list[i]>>
    [] ~(\E j \in 1 .. i - 1 : list[j].kind = "box") /\ list[i].kind \in Discardable -> <<>>
    [] OTHER -> <<list[i]>>

\* Trimming a node of a list of lines keeps its material.
LEMMA TrimmedIs ==
  ASSUME NEW list \in Seq(LineNode), NEW i \in 1 .. Len(list)
  PROVE  /\ Trimmed(list, i) \in Seq(LineNode)
         /\ Spread(MatOn(LineNode), Trimmed(list, i)) = MatOn(LineNode)[list[i]]
<1> DEFINE n == list[i]
           g == MatOn(LineNode)
           before == \E j \in 1 .. i - 1 : list[j].kind = "box"
<1>0. n \in LineNode /\ Maps(g, LineNode, Seq(LinePiece)) BY MatMaps
<1>g. \A m \in LineNode : g[m] = IF m.kind \in {"box", "mark"} /\ m.id # 0 THEN <<m>> ELSE <<>>
  BY DEF MatOn
<1>t. ~before /\ n.kind = "box" => Trimmed(list, i) = <<SkipTo(SplitTopSkip, n), n>>
  BY DEF Trimmed, Discardable
<1>T. Trimmed(list, i) = CASE ~before /\ n.kind = "box" -> <<SkipTo(SplitTopSkip, n), n>>
                           [] ~before /\ n.kind \in Discardable -> <<>>
                           [] OTHER -> <<n>>
  BY DEF Trimmed
<1> HIDE DEF n, g, before
<1>1. CASE ~before /\ n.kind = "box"
  <2> DEFINE sk == SkipTo(SplitTopSkip, n)
  <2>1. sk \in LineNode /\ sk.kind = "glue"
    <3>1. SplitTopSkip \in Int BY SizesAssumption
    <3>2. sk \in Plain BY <3>1, <1>0, <1>1, SkipIsPlain
    <3> QED BY <3>2, PlainIsNode DEF SkipTo, Glue
  <2>2. Trimmed(list, i) = <<sk, n>> BY <1>t, <1>1
  <2> HIDE DEF sk
  <2>3. <<sk>> \in Seq(LineNode) /\ <<n>> \in Seq(LineNode) /\ <<sk, n>> = <<sk>> \o <<n>>
    BY <2>1, <1>0
  <2>4. Spread(g, <<sk>>) = g[sk] /\ Spread(g, <<n>>) = g[n]
    BY <2>1, <1>0, SpreadOne
  <2>5. g[sk] = <<>> BY <2>1, <1>g
  <2>6. Spread(g, <<sk>> \o <<n>>) = Spread(g, <<sk>>) \o Spread(g, <<n>>)
    <3> DEFINE a == <<sk>>
               b == <<n>>
    <3>1. a \in Seq(LineNode) /\ b \in Seq(LineNode) BY <2>3
    <3> HIDE DEF a, b
    <3>2. Spread(g, a \o b) = Spread(g, a) \o Spread(g, b) BY <3>1, <1>0, SpreadConcat
    <3> QED BY <3>2 DEF a, b
  <2>7. g[n] \in Seq(LinePiece) BY <1>0 DEF Maps
  <2>8. <<>> \o g[n] = g[n] BY <2>7
  <2>9. Spread(g, Trimmed(list, i)) = g[n] BY <2>2, <2>3, <2>4, <2>5, <2>6, <2>8
  <2>10. Trimmed(list, i) \in Seq(LineNode) BY <2>2, <2>1, <1>0
  <2> QED BY <2>9, <2>10 DEF g, n
<1>2. CASE ~before /\ n.kind \in Discardable
  <2>1. Trimmed(list, i) = <<>> BY <1>T, <1>2 DEF Discardable
  <2>2. g[n] = <<>> BY <1>2, <1>g, <1>0 DEF Discardable
  <2>3. <<>> \in Seq(LineNode) OBVIOUS
  <2> QED BY <2>1, <2>2, <2>3, SpreadEmpty DEF g, n
<1>3. CASE ~(~before /\ n.kind = "box") /\ ~(~before /\ n.kind \in Discardable)
  <2>1. Trimmed(list, i) = <<n>> BY <1>T, <1>3
  <2>2. Spread(g, <<n>>) = g[n] BY <1>0, SpreadOne
  <2>3. <<n>> \in Seq(LineNode) BY <1>0
  <2> QED BY <2>1, <2>2, <2>3 DEF g, n
<1> QED BY <1>1, <1>2, <1>3

\* prune_page_top drops glue, kerns and penalties and no line.
LEMMA MaterialPruned ==
  ASSUME NEW list \in Seq(LineNode)
  PROVE  Pruned(list) \in Seq(LineNode) /\ Material(Pruned(list)) = Material(list)
<1> DEFINE p == [i \in DOMAIN list |-> Trimmed(list, i)]
           g == MatOn(LineNode)
           E == Seq(LineNode)
<1>1. Pruned(list) = FlattenSeq(p)
  BY DEF Pruned, Trimmed
<1>0. DOMAIN list = 1 .. Len(list) /\ Len(list) \in Nat OBVIOUS
<1>2. p \in Seq(Seq(LineNode)) /\ Len(p) = Len(list) /\ \A i \in 1 .. Len(list) : p[i] = Trimmed(list, i)
  <2>1. \A i \in 1 .. Len(list) : Trimmed(list, i) \in E BY TrimmedIs
  <2> HIDE DEF E
  <2>2. p \in [1 .. Len(list) -> E] BY <2>1, <1>0
  <2>3. p \in Seq(E) BY <2>2, <1>0
  <2>4. Len(p) = Len(list) BY <1>0
  <2> QED BY <2>3, <2>4, <1>0 DEF E
<1>3. \A i \in 1 .. Len(list) : Spread(g, Trimmed(list, i)) = g[list[i]]
  BY TrimmedIs
<1>4. Maps(g, LineNode, Seq(LinePiece))
  BY MatMaps
<1> HIDE DEF p, g, E
<1>5. FlattenSeq(p) \in Seq(LineNode) BY <1>2, FlattenType
<1>6. Spread(g, FlattenSeq(p)) = FlattenSeq(Spreads(g, p)) BY <1>2, <1>4, SpreadFlatten
<1>7. Spreads(g, p) = Mapped(g, list)
  <2>1. DOMAIN p = DOMAIN list BY <1>0 DEF p
  <2>2. \A i \in DOMAIN list : Spread(g, p[i]) = g[list[i]] BY <1>0, <1>2, <1>3
  <2> QED BY <2>1, <2>2 DEF Spreads, Mapped
<1>8. Material(FlattenSeq(p)) = Spread(g, FlattenSeq(p)) BY <1>5, MaterialIs DEF g
<1>9. Material(list) = Spread(g, list) BY MaterialIs DEF g
<1> QED BY <1>1, <1>5, <1>6, <1>7, <1>8, <1>9 DEF Spread

\* A list that is cut in two holds what its parts hold.
LEMMA CutInTwo ==
  ASSUME NEW N, NEW list \in Seq(N), NEW k \in 0 .. Len(list)
  PROVE  /\ SubSeq(list, 1, k) \in Seq(N) /\ SubSeq(list, k + 1, Len(list)) \in Seq(N)
         /\ list = SubSeq(list, 1, k) \o SubSeq(list, k + 1, Len(list))
         /\ Len(SubSeq(list, 1, k)) = k
         /\ \A i \in 1 .. k : SubSeq(list, 1, k)[i] = list[i]
<1> DEFINE a == SubSeq(list, 1, k)
           b == SubSeq(list, k + 1, Len(list))
<1>1. a \in Seq(N) /\ Len(a) = k /\ \A i \in 1 .. k : a[i] = list[i]
  OBVIOUS
<1>2. b \in Seq(N) /\ Len(b) = Len(list) - k /\ \A i \in 1 .. Len(b) : b[i] = list[k + i]
  OBVIOUS
<1> HIDE DEF a, b
<1>3. a \o b \in Seq(N) /\ Len(a \o b) = Len(list)
  BY <1>1, <1>2, SMTT(40)
<1>4. ASSUME NEW i \in 1 .. Len(list) PROVE list[i] = (a \o b)[i]
  <2>1. CASE i <= k
    BY <2>1, <1>1, <1>2
  <2>2. CASE i > k
    <3>0. PICK j \in 1 .. Len(b) : i = k + j
      <4>1. i - k \in 1 .. Len(b) /\ i = k + (i - k) BY <2>2, <1>2
      <4> QED BY <4>1
    <3>1. b[j] = list[k + j] BY <1>2
    <3>2. (a \o b)[k + j] = b[j] BY <1>1, <1>2
    <3> QED BY <3>0, <3>1, <3>2
  <2>3. i <= k \/ i > k OBVIOUS
  <2> QED BY <2>1, <2>2, <2>3
<1>5. list = a \o b
  BY <1>3, <1>4, SeqEqual
<1> QED BY <1>1, <1>2, <1>5 DEF a, b

------------------------------------------------------------------------------
(* Sizes are integers. *)

\* The greater and the smaller of two integers.
LEMMA MinMaxOfTwo ==
  ASSUME NEW a \in Int, NEW b \in Int
  PROVE  Max({a, b}) \in {a, b} /\ Min({a, b}) \in {a, b} /\ Min({a, b}) <= a /\ Min({a, b}) <= b
<1>1. \E x \in {a, b} : \A y \in {a, b} : x >= y OBVIOUS
<1>2. \E x \in {a, b} : \A y \in {a, b} : x <= y OBVIOUS
<1>3. Max({a, b}) \in {a, b} BY <1>1 DEF Max
<1>4. Min({a, b}) \in {a, b} /\ \A y \in {a, b} : Min({a, b}) <= y BY <1>2 DEF Min
<1> QED BY <1>3, <1>4

\* A non-empty set of places has a greatest one.
LEMMA MaxOfSome ==
  ASSUME NEW n \in Nat, NEW I \in SUBSET (1 .. n), I # {}
  PROVE  Max(I) \in I
<1> DEFINE Q(k) == \A J \in SUBSET (1 .. k) : J # {} => \E x \in J : \A y \in J : x >= y
           T == {k \in Nat : Q(k)}
<1>1. Q(0)
  <2>1. 1 .. 0 = {} OBVIOUS
  <2> QED BY <2>1
<1>2. ASSUME NEW k \in Nat, Q(k) PROVE Q(k + 1)
  <2> SUFFICES ASSUME NEW J \in SUBSET (1 .. k + 1), J # {}
               PROVE  \E x \in J : \A y \in J : x >= y
    OBVIOUS
  <2>1. CASE k + 1 \in J
    BY <2>1
  <2>2. CASE k + 1 \notin J
    <3>1. J \in SUBSET (1 .. k) BY <2>2
    <3> QED BY <3>1, <1>2
  <2> QED BY <2>1, <2>2
<1>3. Q(n)
  <2> HIDE DEF Q
  <2>1. 0 \in T /\ \A k \in Nat : k \in T => k+1 \in T BY <1>1, <1>2
  <2>2. Nat \subseteq T
    <3> HIDE DEF T
    <3> QED BY <2>1, NatInd
  <2> QED BY <2>2
<1>4. \E x \in I : \A y \in I : x >= y BY <1>3
<1> QED BY <1>4 DEF Max

\* The sum of integers, as it is added up from the first.
LEMMA TotalIs ==
  ASSUME NEW s \in Seq(Int)
  PROVE  \E f \in [0 .. Len(s) -> Int] :
            /\ \A i \in 0 .. Len(s) : f[i] = IF i = 0 THEN 0 ELSE f[i-1] + s[i]
            /\ Total(s) = f[Len(s)]
<1> DEFINE Sums(f, n) == /\ f \in [0 .. n -> Int]
                         /\ \A i \in 0 .. n : f[i] = IF i = 0 THEN 0 ELSE f[i-1] + s[i]
           Q(n) == n <= Len(s) => \E f : Sums(f, n)
           T == {n \in Nat : Q(n)}
<1>0. Len(s) \in Nat /\ \A i \in 1 .. Len(s) : s[i] \in Int
  OBVIOUS
<1>1. Q(0)
  <2>1. Sums([i \in 0 .. 0 |-> 0], 0) OBVIOUS
  <2> QED BY <2>1
<1>2. ASSUME NEW n \in Nat, Q(n) PROVE Q(n + 1)
  <2> SUFFICES ASSUME n + 1 <= Len(s) PROVE \E f : Sums(f, n + 1)
    OBVIOUS
  <2>1. n <= Len(s) /\ n + 1 \in 1 .. Len(s) BY <1>0
  <2>2. PICK f : Sums(f, n) BY <1>2, <2>1
  <2> DEFINE g == [i \in 0 .. n + 1 |-> IF i = n + 1 THEN f[n] + s[n + 1] ELSE f[i]]
  <2>3. \A i \in 0 .. n : f[i] \in Int BY <2>2
  <2>4. f[n] \in Int /\ s[n + 1] \in Int BY <2>3, <2>1, <1>0
  <2>5. g \in [0 .. n + 1 -> Int] BY <2>3, <2>4
  <2>6. ASSUME NEW i \in 0 .. n + 1 PROVE g[i] = IF i = 0 THEN 0 ELSE g[i-1] + s[i]
    <3>1. CASE i = n + 1
      <4>1. g[i] = f[n] + s[n + 1] /\ g[i - 1] = f[n] BY <3>1
      <4> QED BY <4>1, <3>1
    <3>2. CASE i # n + 1
      <4>1. i \in 0 .. n BY <3>2
      <4>2. g[i] = f[i] /\ (i # 0 => g[i-1] = f[i-1]) BY <4>1
      <4> QED BY <4>1, <4>2, <2>2
    <3> QED BY <3>1, <3>2
  <2> HIDE DEF g
  <2> QED BY <2>5, <2>6
<1>3. Q(Len(s))
  <2> HIDE DEF Q
  <2>1. 0 \in T /\ \A n \in Nat : n \in T => n+1 \in T BY <1>1, <1>2
  <2>2. Nat \subseteq T
    <3> HIDE DEF T
    <3> QED BY <2>1, NatInd
  <2> QED BY <2>2, <1>0
<1>4. PICK f : Sums(f, Len(s)) BY <1>3, <1>0
<1> DEFINE c == CHOOSE first : first = [i \in 0 .. Len(s) |-> IF i = 0 THEN 0 ELSE first[i-1] + s[i]]
<1>5. f = [i \in 0 .. Len(s) |-> IF i = 0 THEN 0 ELSE f[i-1] + s[i]]
  BY <1>4
<1>6. c = [i \in 0 .. Len(s) |-> IF i = 0 THEN 0 ELSE c[i-1] + s[i]]
  BY <1>5
<1> DEFINE R(n) == n <= Len(s) => c[n] \in Int
           U == {n \in Nat : R(n)}
<1> HIDE DEF c
<1>c. \A i \in 0 .. Len(s) : c[i] = IF i = 0 THEN 0 ELSE c[i-1] + s[i]
  BY <1>6
<1>7. R(0) BY <1>c, <1>0
<1>8. ASSUME NEW n \in Nat, R(n) PROVE R(n + 1)
  <2> SUFFICES ASSUME n + 1 <= Len(s) PROVE c[n + 1] \in Int
    OBVIOUS
  <2>1. n + 1 \in 0 .. Len(s) /\ n + 1 # 0 /\ (n + 1) - 1 = n /\ n + 1 \in 1 .. Len(s) BY <1>0
  <2>2. c[n] \in Int BY <1>8, <1>0
  <2>3. c[n + 1] = c[n] + s[n + 1]
    <3>1. PICK k : k = n + 1 OBVIOUS
    <3>2. k \in 0 .. Len(s) /\ k # 0 /\ k - 1 = n BY <2>1, <3>1
    <3>3. c[k] = c[k - 1] + s[k] BY <3>2, <1>c
    <3> QED BY <3>1, <3>2, <3>3
  <2> QED BY <2>1, <2>2, <2>3, <1>0
<1>9. \A n \in Nat : R(n)
  <2> HIDE DEF R
  <2>1. 0 \in U /\ \A n \in Nat : n \in U => n+1 \in U BY <1>7, <1>8
  <2>2. Nat \subseteq U
    <3> HIDE DEF U
    <3> QED BY <2>1, NatInd
  <2> QED BY <2>2
<1>10. \A i \in 0 .. Len(s) : c[i] \in Int BY <1>9, <1>0
<1>11. DOMAIN c = 0 .. Len(s) /\ c = [i \in 0 .. Len(s) |-> c[i]] BY <1>6
<1>12. c \in [0 .. Len(s) -> Int] BY <1>10, <1>11
<1>13. Total(s) = c[Len(s)] BY DEF Total, c
<1> QED BY <1>c, <1>12, <1>13

\* The sum of integers is an integer.
LEMMA TotalType ==
  ASSUME NEW s \in Seq(Int)
  PROVE  Total(s) \in Int
<1>1. PICK f \in [0 .. Len(s) -> Int] : Total(s) = f[Len(s)] BY TotalIs
<1>2. Len(s) \in 0 .. Len(s) OBVIOUS
<1> QED BY <1>1, <1>2

\* Dimensions of nodes are integers.
LEMMA SizesOfNodes ==
  ASSUME NEW n \in Node \cup LineNode
  PROVE  /\ Extent(n) \in Int
         /\ n.kind = "glue" => n.stretch \in Int /\ n.shrink \in Int /\ n.fil \in BOOLEAN
         /\ n.kind = "box" => n.height \in Int /\ n.depth \in Int
<1>1. /\ n.kind = "box" => n.height \in Int /\ n.depth \in Int
      /\ n.kind \in {"glue", "kern"} => n.width \in Int
      /\ n.kind = "glue" => n.stretch \in Int /\ n.shrink \in Int /\ n.fil \in BOOLEAN
  BY DEF Node, LineNode, Pieces, Plain, Box
<1>2. Extent(n) \in Int
  <2>1. CASE n.kind = "box" BY <2>1, <1>1 DEF Extent
  <2>2. CASE n.kind \in {"glue", "kern"} BY <2>2, <1>1 DEF Extent
  <2>3. CASE n.kind \notin {"glue", "kern", "box"} BY <2>3 DEF Extent
  <2> QED BY <2>1, <2>2, <2>3
<1> QED BY <1>1, <1>2

\* The depth a node lets the list hang by is an integer.
LEMMA HangsType ==
  ASSUME NEW n \in Node \cup LineNode, NEW limit \in Int
  PROVE  Hangs(n, limit) \in Int
<1>1. CASE n.kind = "box"
  <2>1. n.depth \in Int BY <1>1, SizesOfNodes
  <2> DEFINE d == n.depth
  <2> HIDE DEF d
  <2>2. d \in Int BY <2>1 DEF d
  <2>3. Min({d, limit}) \in Int BY <2>2, MinMaxOfTwo
  <2> QED BY <2>3, <1>1 DEF Hangs, d
<1>2. CASE n.kind # "box"
  BY <1>2 DEF Hangs
<1> QED BY <1>1, <1>2

\* The size of a list of lines is an integer.
LEMMA SizeType ==
  ASSUME NEW list \in Seq(LineNode)
  PROVE  Size(list) \in Int
<1> DEFINE e == [i \in DOMAIN list |-> Extent(list[i])]
<1>1. \A i \in 1 .. Len(list) : list[i] \in LineNode /\ Extent(list[i]) \in Int
  BY SizesOfNodes
<1>2. e \in Seq(Int) BY <1>1
<1> HIDE DEF e
<1>3. Total(e) \in Int BY <1>2, TotalType
<1> QED BY <1>3 DEF Size, e

\* The measures of a list of lines are integers, and its flags truth values.
LEMMA MeasureType ==
  ASSUME NEW list \in Seq(LineNode), NEW limit \in Int
  PROVE  Measure(list, limit) \in Measures
<1> DEFINE glue(i) == list[i].kind = "glue"
           ext == [i \in DOMAIN list |-> Extent(list[i])]
           str == [i \in DOMAIN list |-> IF glue(i) /\ ~list[i].fil THEN list[i].stretch ELSE 0]
           shr == [i \in DOMAIN list |-> IF glue(i) THEN list[i].shrink ELSE 0]
           last == SelectLastInSeq(list, Sized)
           hangs == IF last = 0 THEN 0 ELSE Hangs(list[last], limit)
           fil == \E i \in DOMAIN list : glue(i) /\ list[i].fil
<1>1. \A i \in 1 .. Len(list) : list[i] \in Node \cup LineNode /\ Extent(list[i]) \in Int
  BY SizesOfNodes
<1>2. ext \in Seq(Int) BY <1>1
<1>3. \A i \in 1 .. Len(list) : list[i].kind = "glue" => list[i].stretch \in Int /\ list[i].shrink \in Int
  BY <1>1, SizesOfNodes
<1>4. str \in Seq(Int)
  <2>1. \A i \in 1 .. Len(list) : (IF glue(i) /\ ~list[i].fil THEN list[i].stretch ELSE 0) \in Int
    BY <1>3
  <2> HIDE DEF glue
  <2> QED BY <2>1
<1>5. shr \in Seq(Int)
  <2>1. \A i \in 1 .. Len(list) : (IF glue(i) THEN list[i].shrink ELSE 0) \in Int
    BY <1>3
  <2> HIDE DEF glue
  <2> QED BY <2>1
<1>6. last = 0 \/ last \in 1 .. Len(list)
  <2> DEFINE I == {i \in 1 .. Len(list) : Sized(list[i])}
  <2>1. last = IF I # {} THEN Max(I) ELSE 0 BY DEF SelectLastInSeq
  <2>2. I \in SUBSET (1 .. Len(list)) /\ Len(list) \in Nat OBVIOUS
  <2> HIDE DEF I, last
  <2>3. I # {} => Max(I) \in I BY <2>2, MaxOfSome
  <2> QED BY <2>1, <2>2, <2>3
<1> HIDE DEF last
<1>7. hangs \in Int
  <2>1. CASE last = 0 BY <2>1
  <2>2. CASE last # 0
    <3>1. list[last] \in Node \cup LineNode BY <2>2, <1>6, <1>1
    <3>2. Hangs(list[last], limit) \in Int BY <3>1, HangsType
    <3> QED BY <2>2, <3>2
  <2> QED BY <2>1, <2>2
<1> HIDE DEF hangs
<1>8. fil \in BOOLEAN OBVIOUS
<1>9. Measure(list, limit) = [total |-> Total(ext) - hangs, depth |-> hangs, stretch |-> Total(str),
                              fil |-> fil, shrink |-> Total(shr)]
  BY DEF Measure, last, hangs
<1> HIDE DEF ext, str, shr, fil
<1>10. Total(ext) \in Int /\ Total(str) \in Int /\ Total(shr) \in Int
  BY <1>2, <1>4, <1>5, TotalType
<1> QED BY <1>7, <1>8, <1>9, <1>10 DEF Measures

\* So are the measures of a page that grew by a node.
LEMMA GrownType ==
  ASSUME NEW m \in Measures, NEW n \in Node, NEW limit \in Int
  PROVE  Grown(m, n, limit) \in Measures
<1>1. CASE ~Sized(n)
  BY <1>1 DEF Grown
<1>2. CASE Sized(n)
  <2> DEFINE h == Hangs(n, limit)
             e == Extent(n)
             st == IF n.kind = "glue" /\ ~n.fil THEN n.stretch ELSE 0
             sh == IF n.kind = "glue" THEN n.shrink ELSE 0
             fi == m.fil \/ (n.kind = "glue" /\ n.fil)
  <2>1. h \in Int BY HangsType
  <2>2. e \in Int BY SizesOfNodes
  <2>3. st \in Int /\ sh \in Int BY SizesOfNodes
  <2>4. m.total \in Int /\ m.depth \in Int /\ m.stretch \in Int /\ m.fil \in BOOLEAN /\ m.shrink \in Int
    BY DEF Measures
  <2>5. fi \in BOOLEAN BY <2>4
  <2>6. Grown(m, n, limit) = [total |-> m.total + m.depth + e - h, depth |-> h,
                              stretch |-> m.stretch + st, fil |-> fi, shrink |-> m.shrink + sh]
    BY <1>2 DEF Grown
  <2> HIDE DEF h, e, st, sh, fi
  <2> QED BY <2>1, <2>2, <2>3, <2>4, <2>5, <2>6 DEF Measures
<1> QED BY <1>1, <1>2

\* Badness is an integer.
LEMMA GlueBadnessType ==
  ASSUME NEW needed \in Int, NEW available \in Int
  PROVE  GlueBadness(needed, available) \in Int
<1> DEFINE ratio == IF needed <= 7230584 THEN (needed * 297) \div available
                    ELSE IF available >= 1663497
                         THEN needed \div (available \div 297)
                    ELSE needed
<1>1. GlueBadness(needed, available) =
        IF needed = 0 THEN 0
        ELSE IF available <= 0 \/ ratio > 1290 THEN InfiniteBadness
        ELSE (ratio * ratio * ratio + 131072) \div 262144
  BY DEF GlueBadness
<1>2. available > 0 => ratio \in Int
  <2> SUFFICES ASSUME available > 0 PROVE ratio \in Int
    OBVIOUS
  <2>1. (needed * 297) \div available \in Int
    <3> DEFINE z == needed * 297
    <3>1. z \in Int OBVIOUS
    <3> HIDE DEF z
    <3>2. z \div available \in Int BY <3>1
    <3> QED BY <3>2 DEF z
  <2>2. available >= 1663497 => needed \div (available \div 297) \in Int
    <3> DEFINE z == available \div 297
    <3>1. available >= 1663497 => z \in Int /\ z > 0 OBVIOUS
    <3> HIDE DEF z
    <3>2. available >= 1663497 => needed \div z \in Int BY <3>1
    <3> QED BY <3>2 DEF z
  <2> QED BY <2>1, <2>2
<1> HIDE DEF ratio
<1>3. ratio \in Int => (ratio * ratio * ratio + 131072) \div 262144 \in Int
  <2> SUFFICES ASSUME ratio \in Int PROVE (ratio * ratio * ratio + 131072) \div 262144 \in Int
    OBVIOUS
  <2> DEFINE z == ratio * ratio * ratio + 131072
  <2>1. z \in Int OBVIOUS
  <2> HIDE DEF z
  <2>2. z \div 262144 \in Int BY <2>1
  <2> QED BY <2>2 DEF z
<1> DEFINE b == (ratio * ratio * ratio + 131072) \div 262144
<1> HIDE DEF b
<1>4. GlueBadness(needed, available) \in {0, InfiniteBadness, b}
      /\ (available <= 0 => GlueBadness(needed, available) \in {0, InfiniteBadness})
  BY <1>1 DEF b
<1> QED BY <1>2, <1>3, <1>4 DEF b, InfiniteBadness

\* So is the badness of a page.
LEMMA BadnessType ==
  ASSUME NEW m \in Measures, NEW size \in Int
  PROVE  Badness(m, size) \in Int
<1>1. m.total \in Int /\ m.stretch \in Int /\ m.shrink \in Int BY DEF Measures
<1> DEFINE a == size - m.total
           b == m.total - size
<1>2. a \in Int /\ b \in Int BY <1>1
<1> HIDE DEF a, b
<1>3. GlueBadness(a, m.stretch) \in Int /\ GlueBadness(b, m.shrink) \in Int
  BY <1>1, <1>2, GlueBadnessType
<1>4. Badness(m, size) \in {0, Awful, GlueBadness(a, m.stretch), GlueBadness(b, m.shrink)}
  BY DEF Badness, a, b
<1> QED BY <1>3, <1>4 DEF Awful

\* So is the cost of a break.
LEMMA BreakCostType ==
  ASSUME NEW badness \in Int, NEW penalty \in Int, NEW extra \in Int
  PROVE  BreakCost(badness, penalty, extra) \in Int
BY DEF BreakCost, Awful, InfinitePenalty, InfiniteBadness, Deplorable

\* The places vert_break tries are places of the list.
LEMMA PlacesType ==
  ASSUME NEW list \in Seq(LineNode), NEW depth \in Int, NEW p \in Places(list, depth)
  PROVE  p.at \in 0 .. Len(list) /\ p.above \in Measures /\ p.penalty \in Int
<1>1. PICK i \in 0 .. Len(list) : p = [at |-> i, above |-> Measure(SubSeq(list, 1, i), depth),
                                       penalty |-> PenaltyAt(list, i)]
  BY DEF Places
<1>2. SubSeq(list, 1, i) \in Seq(LineNode) BY CutInTwo
<1>3. Measure(SubSeq(list, 1, i), depth) \in Measures BY <1>2, MeasureType
<1>4. PenaltyAt(list, i) \in Int
  <2>1. CASE i = Len(list)
    <3>1. PenaltyAt(list, i) = -InfinitePenalty BY <2>1 DEF PenaltyAt
    <3>2. -InfinitePenalty \in Int BY DEF InfinitePenalty
    <3> QED BY <3>1, <3>2
  <2>2. CASE i # Len(list)
    <3>1. list[i + 1] \in LineNode BY <2>2
    <3>2. list[i + 1].kind = "penalty" => list[i + 1].penalty \in Int BY <3>1, LineFacts
    <3> QED BY <2>2, <3>2 DEF PenaltyAt
  <2> QED BY <2>1, <2>2
<1> QED BY <1>1, <1>3, <1>4

------------------------------------------------------------------------------
(* The lists that a page is taken apart into. *)

\* The insertions of the page.
InsertNode == {n \in Node : n.kind = "insert"}

\* An insertion made from a class and lines is one of them.
LEMMA InsertIsNode ==
  ASSUME NEW c \in Classes, NEW list \in Seq(LineNode)
  PROVE  Insert(c, list) \in InsertNode
<1>1. Size(list) \in Int BY SizeType
<1> DEFINE h == Size(list)
<1> HIDE DEF h
<1>2. h \in Int BY <1>1 DEF h
<1>3. [kind |-> "insert", class |-> c, list |-> list, height |-> h] \in Node
  BY <1>2 DEF Node
<1> QED BY <1>3 DEF Insert, InsertNode, h

\* fire_up splits an insertion within its list.
LEMMA SplitAtType ==
  ASSUME TypeOK, NEW part \in Seq(Node), NEW i \in InsertsAt(part)
  PROVE  SplitAt(part, i) \in 0 .. Len(part[i].list)
<1> DEFINE n == part[i]
<1>1. i \in 1 .. Len(part) /\ n \in Node /\ n.kind = "insert" BY DEF InsertsAt
<1>2. n.list \in Seq(LineNode) BY <1>1, NodeFacts
<1> HIDE DEF n
<1>3. Len(n.list) \in Nat BY <1>2
<1>4. CASE ~IsSplit(n.class) \/ i < inserts[n.class].broken
  BY <1>3, <1>4 DEF SplitAt, n
<1>5. CASE IsSplit(n.class) /\ ~(i < inserts[n.class].broken)
  <2> DEFINE b == inserts[n.class].breakAt
             l == Len(n.list)
  <2>1. b \in Nat /\ l \in Nat BY <1>5, <1>3 DEF TypeOK, IsSplit
  <2>2. SplitAt(part, i) \in {0, Min({b, l})} BY <1>5 DEF SplitAt, n
  <2> HIDE DEF b, l
  <2>0. b \in Int /\ l \in Int BY <2>1
  <2>3. Min({b, l}) \in {b, l} /\ Min({b, l}) <= l BY <2>0, MinMaxOfTwo
  <2>4. Min({b, l}) \in 0 .. l BY <2>1, <2>3
  <2> QED BY <2>1, <2>2, <2>4 DEF l, n
<1> QED BY <1>4, <1>5

\* What is taken of an insertion and what is held over are together what was
\* there.
LEMMA TakenAndHeld ==
  ASSUME TypeOK, NEW part \in Seq(Node), NEW i \in InsertsAt(part), NEW X
  PROVE  /\ Taken(part, i) \in Seq(LineNode) /\ HeldOver(part, i) \in Seq(InsertNode)
         /\ Tally(Material(part[i].list), X)
            = Tally(LinesOf(HeldOver(part, i)), X) + Tally(Material(Taken(part, i)), X)
<1> DEFINE n == part[i]
           s == SplitAt(part, i)
           a == SubSeq(n.list, 1, s)
           b == SubSeq(n.list, s + 1, Len(n.list))
           rest == Pruned(b)
<1>1. i \in 1 .. Len(part) /\ n \in Node /\ n.kind = "insert" BY DEF InsertsAt
<1>2. n.list \in Seq(LineNode) /\ n.class \in Classes BY <1>1, NodeFacts
<1>3. s \in 0 .. Len(n.list) BY SplitAtType
<1>i. i \in Nat BY <1>1
<1>s. /\ ~IsSplit(n.class) \/ i < inserts[n.class].broken => s = Len(n.list)
      /\ IsSplit(n.class) /\ i > inserts[n.class].broken => s = 0
  <2>1. IsSplit(n.class) => inserts[n.class].broken \in Nat BY DEF TypeOK, IsSplit
  <2> QED BY <2>1, <1>i DEF SplitAt
<1>h. /\ ~IsSplit(n.class) \/ i < inserts[n.class].broken => HeldOver(part, i) = <<>>
      /\ IsSplit(n.class) /\ i > inserts[n.class].broken => HeldOver(part, i) = <<n>>
      /\ IsSplit(n.class) /\ i = inserts[n.class].broken =>
            HeldOver(part, i) = IF rest = <<>> THEN <<>> ELSE <<Insert(n.class, rest)>>
  <2>1. IsSplit(n.class) => inserts[n.class].broken \in Nat BY DEF TypeOK, IsSplit
  <2> QED BY <2>1, <1>i DEF HeldOver
<1>t. Taken(part, i) = a BY DEF Taken
<1>b. IsSplit(n.class) => inserts[n.class].broken \in Nat BY DEF TypeOK, IsSplit
<1> HIDE DEF n, s
<1>4. a \in Seq(LineNode) /\ b \in Seq(LineNode) /\ n.list = a \o b /\ Len(a) = s
  BY <1>2, <1>3, CutInTwo
<1>0. Len(n.list) \in Nat BY <1>2
<1>6. s = Len(n.list) => a = n.list
  BY <1>2
<1>7. s = 0 => a = <<>> BY <1>4
<1> HIDE DEF a, b
<1>8. Material(n.list) = Material(a) \o Material(b) BY <1>4, LineMaterialConcat
<1>9. Material(a) \in Seq(LinePiece) /\ Material(b) \in Seq(LinePiece) BY <1>4, MaterialType
<1>10. Tally(Material(n.list), X) = Tally(Material(a), X) + Tally(Material(b), X)
  BY <1>8, <1>9, TallyConcat
<1>11. Tally(Material(a), X) \in Nat /\ Tally(Material(b), X) \in Nat BY <1>9, TallyNat
<1>12. rest \in Seq(LineNode) /\ Material(rest) = Material(b) BY <1>4, MaterialPruned
<1> HIDE DEF rest
<1>13. CASE ~IsSplit(n.class) \/ i < inserts[n.class].broken
  <2>1. HeldOver(part, i) = <<>> /\ a = n.list BY <1>13, <1>h, <1>s, <1>6
  <2>2. Tally(LinesOf(<<>>), X) = 0 BY MaterialEmpty, TallyEmpty
  <2>3. <<>> \in Seq(InsertNode) OBVIOUS
  <2>4. Tally(Material(n.list), X) = 0 + Tally(Material(a), X)
    <3>1. Tally(Material(n.list), X) = Tally(Material(a), X) BY <2>1
    <3> QED BY <3>1, <1>11
  <2>5. Taken(part, i) \in Seq(LineNode) BY <1>4, <1>t
  <2> QED BY <2>1, <2>2, <2>3, <2>4, <2>5, <1>t DEF n
<1>14. CASE IsSplit(n.class) /\ i > inserts[n.class].broken
  <2>1. HeldOver(part, i) = <<n>> /\ a = <<>> BY <1>14, <1>h, <1>s, <1>7
  <2>2. LinesOf(<<n>>) = Material(n.list) BY <1>1, MaterialOne DEF n
  <2>3. Tally(Material(a), X) = 0 BY <2>1, MaterialEmpty, TallyEmpty
  <2>4. n \in InsertNode BY <1>1 DEF InsertNode, n
  <2>5. <<n>> \in Seq(InsertNode) BY <2>4
  <2>6. Tally(Material(n.list), X) \in Nat BY <1>10, <1>11
  <2> QED BY <2>1, <2>2, <2>3, <2>5, <2>6, <1>4, <1>t DEF n
<1>15. CASE IsSplit(n.class) /\ i = inserts[n.class].broken
  <2>1. CASE rest = <<>>
    <3>1. HeldOver(part, i) = <<>> BY <1>15, <1>h, <2>1
    <3>2. Material(b) = <<>> BY <1>12, <2>1, MaterialEmpty
    <3>3. Tally(LinesOf(<<>>), X) = 0 /\ Tally(Material(b), X) = 0 BY <3>2, MaterialEmpty, TallyEmpty
    <3>4. <<>> \in Seq(InsertNode) OBVIOUS
    <3> QED BY <3>1, <3>3, <3>4, <1>4, <1>10, <1>11, <1>t DEF n
  <2>2. CASE rest # <<>>
    <3> DEFINE m == Insert(n.class, rest)
    <3>1. HeldOver(part, i) = <<m>> BY <1>15, <1>h, <2>2
    <3>2. m \in InsertNode BY <1>2, <1>12, InsertIsNode
    <3>m. m.list = rest BY DEF Insert
    <3> HIDE DEF m
    <3>3. <<m>> \in Seq(InsertNode) /\ m \in Node /\ m.kind = "insert" BY <3>2 DEF InsertNode
    <3>4. LinesOf(<<m>>) = Material(b) BY <3>3, <3>m, <1>12, MaterialOne
    <3> QED BY <3>1, <3>3, <3>4, <1>4, <1>10, <1>11, <1>t DEF n
  <2> QED BY <2>1, <2>2
<1> QED BY <1>13, <1>14, <1>15, <1>i, <1>b

\* What is held over of a part of the page is a list of insertions.
LEMMA UnplacedType ==
  ASSUME TypeOK, NEW part \in Seq(Node)
  PROVE  Unplaced(part) \in Seq(InsertNode)
<1> DEFINE E == Seq(InsertNode)
           p == [i \in DOMAIN part |-> IF i \in InsertsAt(part) THEN HeldOver(part, i) ELSE <<>>]
<1>1. \A i \in 1 .. Len(part) : (IF i \in InsertsAt(part) THEN HeldOver(part, i) ELSE <<>>) \in E
  <2>1. \A i \in InsertsAt(part) : HeldOver(part, i) \in E BY TakenAndHeld
  <2>2. <<>> \in E OBVIOUS
  <2> HIDE DEF E
  <2> QED BY <2>1, <2>2
<1> HIDE DEF E
<1>2. p \in Seq(E) BY <1>1
<1> HIDE DEF p
<1>3. FlattenSeq(p) \in Seq(InsertNode) BY <1>2, FlattenType DEF E
<1> QED BY <1>3 DEF Unplaced, p

\* A part of the page without its insertions.
AloneOn(N) == [n \in N |-> IF n.kind # "insert" THEN <<n>> ELSE <<>>]

\* fire_up's page without its insertions is what the other nodes give.
LEMMA TextAloneIs ==
  ASSUME NEW part \in Seq(Node)
  PROVE  /\ TextAlone(part) = Spread(AloneOn(Node), part)
         /\ Maps(AloneOn(Node), Node, Seq(Node))
         /\ TextAlone(part) \in Seq(Node)
<1>1. [i \in DOMAIN part |-> IF part[i].kind # "insert" THEN <<part[i]>> ELSE <<>>]
      = Mapped(AloneOn(Node), part)
  BY DEF Mapped, AloneOn
<1>2. TextAlone(part) = Spread(AloneOn(Node), part)
  BY <1>1 DEF TextAlone, Only, Spread
<1>3. ASSUME NEW n \in Node PROVE (IF n.kind # "insert" THEN <<n>> ELSE <<>>) \in Seq(Node)
  OBVIOUS
<1>4. Maps(AloneOn(Node), Node, Seq(Node)) BY <1>3 DEF Maps, AloneOn
<1> QED BY <1>2, <1>4, SpreadType

\* What a class is given of a part of the page.
GivenTo(part, c) ==
  FlattenSeq([i \in DOMAIN part |->
                 IF i \in InsertsAt(part) /\ part[i].class = c THEN Taken(part, i) ELSE <<>>])

\* fire_up collects lines into the box of each class.
LEMMA CollectedType ==
  ASSUME TypeOK, NEW part \in Seq(Node)
  PROVE  /\ \A c \in Classes : GivenTo(part, c) \in Seq(LineNode)
         /\ Collected(part) \in [Classes -> Seq(LineNode)]
<1>1. ASSUME NEW c \in Classes PROVE GivenTo(part, c) \in Seq(LineNode)
  <2> DEFINE E == Seq(LineNode)
             p == [i \in DOMAIN part |->
                     IF i \in InsertsAt(part) /\ part[i].class = c THEN Taken(part, i) ELSE <<>>]
  <2>1. \A i \in 1 .. Len(part) :
          (IF i \in InsertsAt(part) /\ part[i].class = c THEN Taken(part, i) ELSE <<>>) \in E
    <3>1. \A i \in InsertsAt(part) : Taken(part, i) \in E BY TakenAndHeld
    <3>2. <<>> \in E OBVIOUS
    <3> HIDE DEF E
    <3> QED BY <3>1, <3>2
  <2> HIDE DEF E
  <2>2. p \in Seq(E) BY <2>1
  <2> HIDE DEF p
  <2>3. FlattenSeq(p) \in Seq(LineNode) BY <2>2, FlattenType DEF E
  <2> QED BY <2>3 DEF GivenTo, p
<1>2. Collected(part) = [c \in Classes |-> boxes[c] \o GivenTo(part, c)]
  BY DEF Collected, GivenTo
<1>3. ASSUME NEW c \in Classes PROVE boxes[c] \o GivenTo(part, c) \in Seq(LineNode)
  <2> DEFINE a == boxes[c]
             b == GivenTo(part, c)
  <2>1. a \in Seq(LineNode) /\ b \in Seq(LineNode) BY <1>1 DEF TypeOK
  <2> HIDE DEF a, b
  <2>2. a \o b \in Seq(LineNode) BY <2>1
  <2> QED BY <2>2 DEF a, b
<1>4. Collected(part) \in [Classes -> Seq(LineNode)]
  <2> DEFINE F(c) == boxes[c] \o GivenTo(part, c)
  <2>1. \A c \in Classes : F(c) \in Seq(LineNode) BY <1>3
  <2>2. Collected(part) = [c \in Classes |-> F(c)] BY <1>2
  <2> HIDE DEF F
  <2> QED BY <2>1, <2>2
<1> QED BY <1>1, <1>4

------------------------------------------------------------------------------
(* The marks of a list. *)

\* What a node gives to the marks of its list.
MarksOn(N) == [n \in N |-> IF n.kind = "mark" /\ n.line = 0 THEN <<n>> ELSE <<>>]
MarkOf(N)  == {n \in N : n.kind = "mark" /\ n.line = 0}

\* The marks of a list are what its nodes give.
LEMMA MarksOfIs ==
  ASSUME NEW N, NEW list \in Seq(N)
  PROVE  /\ MarksOf(list) = Spread(MarksOn(N), list)
         /\ Maps(MarksOn(N), N, Seq(MarkOf(N)))
         /\ MarksOf(list) \in Seq(MarkOf(N))
<1>1. [i \in DOMAIN list |-> IF list[i].kind = "mark" /\ list[i].line = 0 THEN <<list[i]>> ELSE <<>>]
      = Mapped(MarksOn(N), list)
  BY DEF Mapped, MarksOn
<1>2. MarksOf(list) = Spread(MarksOn(N), list)
  BY <1>1 DEF MarksOf, Only, Spread
<1>3. ASSUME NEW n \in N
      PROVE  (IF n.kind = "mark" /\ n.line = 0 THEN <<n>> ELSE <<>>) \in Seq(MarkOf(N))
  <2>1. CASE n.kind = "mark" /\ n.line = 0
    <3>1. n \in MarkOf(N) BY <2>1 DEF MarkOf
    <3> QED BY <2>1, <3>1
  <2>2. CASE ~(n.kind = "mark" /\ n.line = 0)
    BY <2>2
  <2> QED BY <2>1, <2>2
<1>4. Maps(MarksOn(N), N, Seq(MarkOf(N))) BY <1>3 DEF Maps, MarksOn
<1> QED BY <1>2, <1>4, SpreadType

\* The marks of a page, as the numbers of their items.
Numbering == [top : Nat, first : Nat, bot : Nat]

\* fire_up finds marks with numbers.
LEMMA MarkedType ==
  ASSUME marks \in Numbering, NEW part \in Seq(Node)
  PROVE  Marked(part) \in Numbering
<1> DEFINE on  == MarksOf(part)
           top == IF marks.bot # 0 THEN marks.bot ELSE marks.top
<1>1. on \in Seq(MarkOf(Node)) BY MarksOfIs
<1>2. top \in Nat /\ marks.bot \in Nat BY DEF Numbering
<1>3. Marked(part) = IF on = <<>> THEN [top |-> top, first |-> top, bot |-> marks.bot]
                     ELSE [top |-> top, first |-> Head(on).id, bot |-> Last(on).id]
  BY DEF Marked
<1> HIDE DEF on, top
<1>4. \A n \in MarkOf(Node) : n.id \in Nat
  <2>1. ASSUME NEW n \in Node, n.kind = "mark" PROVE n.id \in Nat BY <2>1, NodeFacts
  <2> QED BY <2>1 DEF MarkOf
<1>5. on # <<>> => Head(on) \in MarkOf(Node) /\ Last(on) \in MarkOf(Node)
  BY <1>1 DEF Last
<1>6. CASE on = <<>>
  BY <1>6, <1>2, <1>3 DEF Numbering
<1>7. CASE on # <<>>
  <2>1. Head(on).id \in Nat /\ Last(on).id \in Nat BY <1>7, <1>4, <1>5
  <2> QED BY <2>1, <1>7, <1>2, <1>3 DEF Numbering
<1> QED BY <1>6, <1>7

------------------------------------------------------------------------------
(* What the variables hold. *)

\* Only in the routine is there a page in \box255 or a list of the routine's,
\* and then the current page is nothing but insertions that wait.
Shape ==
  /\ shipped \in Seq(Piece) /\ gone \in Seq(Piece)
  /\ pc = "routine" => inserts = <<>> /\ best = NoBest /\ page \in Seq(InsertNode)
  /\ pc # "routine" => made = <<>> /\ box255 = NoBox
  /\ box255.void => box255 = NoBox
  /\ ~box255.void => made = <<>>

\* Pieces are nodes.
LEMMA PieceIsNode == Piece \subseteq Node \cup LineNode
BY DEF Piece, TextPiece, LinePiece

\* fire_up puts 10000 for the penalty it broke at; the list keeps its type.
LEMMA SpentType ==
  ASSUME NEW list \in Seq(Node), NEW p \in Int
  PROVE  /\ Spent(list, p) \in Seq(Node)
         /\ Penalty(p) \in Node
<1>1. \A q \in Int : Penalty(q) \in Plain BY DEF Penalty, Plain
<1>2. \A q \in Int : Penalty(q) \in Node BY <1>1, PlainIsNode
<1>3. CASE list # <<>> /\ Head(list) = Penalty(p)
  <2> DEFINE n == Penalty(InfinitePenalty)
  <2>1. n \in Node BY <1>2 DEF InfinitePenalty
  <2>2. Spent(list, p) = <<n>> \o Tail(list) BY <1>3 DEF Spent
  <2>3. Tail(list) \in Seq(Node) BY <1>3
  <2> HIDE DEF n
  <2>4. <<n>> \o Tail(list) \in Seq(Node) BY <2>1, <2>3
  <2> QED BY <2>2, <2>4, <1>2
<1>4. CASE ~(list # <<>> /\ Head(list) = Penalty(p))
  <2>1. Spent(list, p) = list BY <1>4 DEF Spent
  <2> QED BY <2>1, <1>2
<1> QED BY <1>3, <1>4

\* Lists of insertions are lists of nodes.
LEMMA InsertsAreNodes == Seq(InsertNode) \subseteq Seq(Node)
<1>1. InsertNode \subseteq Node BY DEF InsertNode
<1> QED BY <1>1

\* Joined pieces are pieces, and text and lines are pieces.
LEMMA PiecesConcat ==
  /\ \A a, b \in Seq(Piece) : a \o b \in Seq(Piece)
  /\ Seq(TextPiece) \subseteq Seq(Piece) /\ Seq(LinePiece) \subseteq Seq(Piece)
<1>1. TextPiece \subseteq Piece /\ LinePiece \subseteq Piece BY DEF Piece
<1>2. \A a, b \in Seq(Piece) : a \o b \in Seq(Piece) OBVIOUS
<1> QED BY <1>1, <1>2

\* What sending a page off comes to.
LEMMA FireUpIs ==
  ASSUME NEW part, NEW b, FireUp(part, b)
  PROVE  LET packed == IF holding THEN part ELSE TextAlone(part)
             left   == IF holding THEN <<>> ELSE Unplaced(part)
             filled == IF holding THEN boxes ELSE Collected(part)
             runs   == Routine /\ ~Overworked
         IN  /\ contribs' = Spent(SubSeq(page, Len(part) + 1, Len(page)) \o contribs, b.penalty)
             /\ page' = left
             /\ insertPenalties' = Len(left) /\ boxes' = filled /\ marks' = Marked(part)
             /\ outPenalty' = b.penalty /\ hasBox' = FALSE /\ frozen' = FALSE
             /\ best' = NoBest /\ inserts' = <<>>
             /\ pc' = IF runs THEN "routine" ELSE "building"
             /\ box255' = IF runs THEN [void |-> FALSE, list |-> packed, size |-> b.size] ELSE NoBox
             /\ deadCycles' = IF runs THEN deadCycles + 1 ELSE 0
             /\ shipped' = IF runs THEN shipped ELSE shipped \o Material(packed)
             /\ gone' = gone \o Material(box255.list) \o (IF runs THEN <<>> ELSE LinesOf(packed))
             /\ made' = <<>>
             /\ UNCHANGED <<read, material, ended, holding, putBack>>
<1> DEFINE packed == IF holding THEN part ELSE TextAlone(part)
           left   == IF holding THEN <<>> ELSE Unplaced(part)
           filled == IF holding THEN boxes ELSE Collected(part)
           runs   == Routine /\ ~Overworked
           rest   == SubSeq(page, Len(part) + 1, Len(page)) \o contribs
           Effect(p, l, f) ==
             /\ contribs' = Spent(rest, b.penalty)
             /\ page' = l
             /\ insertPenalties' = Len(l) /\ boxes' = f /\ marks' = Marked(part)
             /\ outPenalty' = b.penalty /\ hasBox' = FALSE /\ frozen' = FALSE
             /\ best' = NoBest /\ inserts' = <<>>
             /\ pc' = IF runs THEN "routine" ELSE "building"
             /\ box255' = IF runs THEN [void |-> FALSE, list |-> p, size |-> b.size] ELSE NoBox
             /\ deadCycles' = IF runs THEN deadCycles + 1 ELSE 0
             /\ shipped' = IF runs THEN shipped ELSE shipped \o Material(p)
             /\ gone' = gone \o Material(box255.list) \o (IF runs THEN <<>> ELSE LinesOf(p))
             /\ made' = <<>>
             /\ UNCHANGED <<read, material, ended, holding, putBack>>
<1>1. \E p \in {packed}, l \in {left}, f \in {filled} : Effect(p, l, f)
  BY ZenonT(40) DEF FireUp
<1>2. Effect(packed, left, filled)
  <2> HIDE DEF packed, left, filled, Effect
  <2> QED BY <1>1
<1> QED BY <1>2, Zenon

\* When a page is sent off.
LEMMA FireUpType ==
  ASSUME TypeOK, Shape, pc = "building",
         NEW k \in 0 .. Len(page), NEW part, part = SubSeq(page, 1, k),
         NEW b, b.penalty \in Int, b.size \in Int,
         FireUp(part, b), dims' \in Measures, goal' \in Int
  PROVE  TypeOK' /\ Shape'
<1> DEFINE packed == IF holding THEN part ELSE TextAlone(part)
           left   == IF holding THEN <<>> ELSE Unplaced(part)
           filled == IF holding THEN boxes ELSE Collected(part)
           runs   == Routine /\ ~Overworked
           after  == SubSeq(page, Len(part) + 1, Len(page))
           returned == after \o contribs
<1>0. /\ page \in Seq(Node) /\ contribs \in Seq(Node) /\ boxes \in [Classes -> Seq(LineNode)]
      /\ box255 = NoBox /\ marks \in Numbering /\ deadCycles \in 0 .. MaxDeadCycles
      /\ shipped \in Seq(Piece) /\ gone \in Seq(Piece) /\ holding \in BOOLEAN
  BY DEF TypeOK, Shape, Numbering
<1>1. part \in Seq(Node) /\ after \in Seq(Node)
  BY <1>0, CutInTwo
<1>2. packed \in Seq(Node) BY <1>1, TextAloneIs
<1>3. left \in Seq(InsertNode)
  <2>1. Unplaced(part) \in Seq(InsertNode) BY <1>1, UnplacedType
  <2>2. <<>> \in Seq(InsertNode) OBVIOUS
  <2> QED BY <2>1, <2>2
<1>4. filled \in [Classes -> Seq(LineNode)] BY <1>0, <1>1, CollectedType
<1>5. Marked(part) \in Numbering BY <1>0, <1>1, MarkedType
<1> HIDE DEF after
<1>6. returned \in Seq(Node) BY <1>0, <1>1
<1>7. /\ contribs' = Spent(returned, b.penalty) /\ page' = left
      /\ insertPenalties' = Len(left) /\ boxes' = filled /\ marks' = Marked(part)
      /\ outPenalty' = b.penalty /\ hasBox' = FALSE /\ frozen' = FALSE
      /\ best' = NoBest /\ inserts' = <<>>
      /\ pc' = IF runs THEN "routine" ELSE "building"
      /\ box255' = IF runs THEN [void |-> FALSE, list |-> packed, size |-> b.size] ELSE NoBox
      /\ deadCycles' = IF runs THEN deadCycles + 1 ELSE 0
      /\ shipped' = IF runs THEN shipped ELSE shipped \o Material(packed)
      /\ gone' = gone \o Material(box255.list) \o (IF runs THEN <<>> ELSE LinesOf(packed))
      /\ made' = <<>>
      /\ UNCHANGED <<read, material, ended, holding, putBack>>
  BY FireUpIs, Zenon DEF after
<1>r. runs \in BOOLEAN /\ (runs => deadCycles < MaxDeadCycles)
  BY <1>0, RoutineAssumption, DeadAssumption DEF Overworked
<1> HIDE DEF packed, left, filled, runs, returned
<1>8. contribs' \in Seq(Node) BY <1>6, <1>7, SpentType
<1>9. page' \in Seq(Node) BY <1>3, <1>7, InsertsAreNodes
<1>10. Material(packed) \in Seq(Piece) /\ LinesOf(packed) \in Seq(Piece)
       /\ Material(box255.list) = <<>>
  BY <1>0, <1>2, MaterialType, LinesOfType, PiecesConcat, MaterialEmpty DEF NoBox
<1>11. shipped' \in Seq(Piece) BY <1>0, <1>7, <1>10, PiecesConcat
<1>12. gone' \in Seq(Piece)
  <2> DEFINE more == IF runs THEN <<>> ELSE LinesOf(packed)
  <2>1. more \in Seq(Piece) BY <1>10
  <2>2. gone \o <<>> = gone BY <1>0
  <2>3. gone' = gone \o more BY <1>7, <1>10, <2>2
  <2> HIDE DEF more
  <2> QED BY <2>1, <2>3, <1>0, PiecesConcat
<1>13. shipped' \in Seq(Node \cup LineNode) /\ gone' \in Seq(Node \cup LineNode)
  BY <1>11, <1>12, PieceIsNode
<1>14. box255' \in [void : BOOLEAN, list : Seq(Node), size : Int]
       /\ (box255'.void => box255' = NoBox) /\ (box255'.void \/ pc' = "routine")
       /\ (pc' # "routine" => box255' = NoBox)
  <2>1. NoBox \in [void : BOOLEAN, list : Seq(Node), size : Int] /\ NoBox.void BY DEF NoBox
  <2> QED BY <2>1, <1>2, <1>7, <1>r
<1>15. deadCycles' \in 0 .. MaxDeadCycles BY <1>0, <1>7, <1>r, DeadAssumption
<1>16. best' \in [at : 0 .. Len(page'), penalty : Int, size : Int, cost : Int]
  <2>1. Len(page') \in Nat BY <1>9
  <2>2. 0 \in 0 .. Len(page') BY <2>1
  <2> QED BY <2>2, <1>7 DEF NoBest, InfinitePenalty, Awful
<1>17. DOMAIN inserts' = {} BY <1>7
<1>18. insertPenalties' \in Int BY <1>3, <1>7
<1>19. read' \in 0 .. MaxItems /\ material' \in Nat /\ ended' \in BOOLEAN /\ holding' \in BOOLEAN
  BY <1>7 DEF TypeOK
<1>20. pc' \in {"reading", "building", "routine", "over"} BY <1>7
<1>21. made' \in Seq(Node) BY <1>7
<1>22. TypeOK'
  BY <1>4, <1>5, <1>7, <1>8, <1>9, <1>13, <1>14, <1>15, <1>16, <1>17, <1>18, <1>19, <1>20, <1>21
     DEF TypeOK, Numbering
<1>23. Shape'
  BY <1>3, <1>7, <1>11, <1>12, <1>14 DEF Shape
<1> QED BY <1>22, <1>23

\* What a page knows of its insertions is about insertions that stand on it.
Recorded(record, c, list) ==
  /\ record \in [held : Int, split : BOOLEAN, broken : Nat, breakAt : Nat]
  /\ record.split => /\ record.broken \in DOMAIN list
                     /\ list[record.broken].kind = "insert"
                     /\ list[record.broken].class = c

\* The list has the page at its front.
Extends(list, page0) ==
  /\ list \in Seq(Node) /\ Len(page0) <= Len(list)
  /\ \A i \in 1 .. Len(page0) : list[i] = page0[i]

\* A record of an insertion's class stays right on a longer page.
LEMMA StillRecorded ==
  ASSUME NEW old \in Seq(Node), NEW list, Extends(list, old), NEW c, NEW record, Recorded(record, c, old)
  PROVE  Recorded(record, c, list)
BY DEF Recorded, Extends

\* Settling a contribution on the page keeps the types and the shape.
LEMMA SettleType ==
  ASSUME TypeOK, Shape, pc = "building", contribs # <<>>,
         NEW m \in Measures, NEW g \in Int,
         NEW b, b \in [at : 0 .. Len(page), penalty : Int, size : Int, cost : Int],
         NEW list, Extends(list, page), Settle(m, g, b, list),
         hasBox' \in BOOLEAN, frozen' \in BOOLEAN, insertPenalties' \in Int,
         DOMAIN inserts' \subseteq Classes,
         \A c \in DOMAIN inserts' : Recorded(inserts'[c], c, list)
  PROVE  TypeOK' /\ Shape'
<1>1. /\ page' = list /\ contribs' = Tail(contribs) /\ dims' = m /\ goal' = g /\ best' = b
      /\ UNCHANGED <<pc, read, material, ended, made, deadCycles, marks, outPenalty,
                     box255, boxes, shipped, gone, holding>>
  BY DEF Settle, cycle, out
<1>2. contribs' \in Seq(Node) BY <1>1 DEF TypeOK
<1>3. page' \in Seq(Node) /\ Len(page) <= Len(page') BY <1>1 DEF Extends
<1>4. best' \in [at : 0 .. Len(page'), penalty : Int, size : Int, cost : Int]
  <2>0. page \in Seq(Node) BY DEF TypeOK
  <2>1. Len(page) \in Nat /\ Len(page') \in Nat BY <1>3, <2>0
  <2>2. b.at \in 0 .. Len(page') BY <2>1, <1>3
  <2> QED BY <2>2, <1>1
<1>5. \A c \in DOMAIN inserts' :
         /\ inserts'[c] \in [held : Int, split : BOOLEAN, broken : Nat, breakAt : Nat]
         /\ inserts'[c].split => /\ inserts'[c].broken \in DOMAIN page'
                                 /\ page'[inserts'[c].broken].kind = "insert"
                                 /\ page'[inserts'[c].broken].class = c
  BY <1>1 DEF Recorded
<1>6. TypeOK'
  BY <1>1, <1>2, <1>3, <1>4, <1>5 DEF TypeOK
<1>7. Shape' BY <1>1 DEF Shape
<1> QED BY <1>6, <1>7

\* The same, if nothing of insertions changes.
LEMMA SettlePlainType ==
  ASSUME TypeOK, Shape, pc = "building", contribs # <<>>,
         NEW m \in Measures, NEW g \in Int,
         NEW b, b \in [at : 0 .. Len(page), penalty : Int, size : Int, cost : Int],
         NEW list, Extends(list, page), Settle(m, g, b, list),
         hasBox' \in BOOLEAN, frozen' \in BOOLEAN, UNCHANGED <<inserts, insertPenalties>>
  PROVE  TypeOK' /\ Shape'
<1>1. insertPenalties' \in Int /\ DOMAIN inserts' \subseteq Classes /\ inserts' = inserts
  BY DEF TypeOK
<1>2. \A c \in DOMAIN inserts' : Recorded(inserts'[c], c, page) BY <1>1 DEF TypeOK, Recorded
<1>3. page \in Seq(Node) BY DEF TypeOK
<1>4. \A c \in DOMAIN inserts' : Recorded(inserts'[c], c, list) BY <1>2, <1>3, StillRecorded
<1> QED BY <1>1, <1>4, SettleType

\* A page is extended by a node more, and by nothing.
LEMMA ExtendsByOne ==
  ASSUME NEW old \in Seq(Node), NEW n \in Node
  PROVE  Extends(Append(old, n), old) /\ Extends(old, old)
BY DEF Extends

\* The first contribution and the others.
LEMMA HeadTail ==
  ASSUME TypeOK, contribs # <<>>
  PROVE  Head(contribs) \in Node /\ Tail(contribs) \in Seq(Node)
         /\ contribs = <<Head(contribs)>> \o Tail(contribs)
<1>1. contribs \in Seq(Node) BY DEF TypeOK
<1> HIDE DEF TypeOK
<1> QED BY <1>1, SMTT(40)

\* A new page's measures and goal are integers.
LEMMA StartTypes ==
  ASSUME TypeOK
  PROVE  StartDims \in Measures /\ StartGoal \in Int
BY SizesAssumption DEF TypeOK, StartDims, StartGoal, Nothing, Measures

\* A break that is better is a place of the page, with an integer cost.
LEMMA BetterType ==
  ASSUME TypeOK, NEW cost \in Int, NEW penalty \in Int, NEW g \in Int
  PROVE  Better(cost, penalty, g) \in [at : 0 .. Len(page), penalty : Int, size : Int, cost : Int]
<1>1. Len(page) \in Nat BY DEF TypeOK
<1>2. Len(page) \in 0 .. Len(page) BY <1>1
<1> QED BY <1>2 DEF Better, TypeOK

\* The cost of the page is an integer.
LEMMA PageCostType ==
  ASSUME TypeOK, NEW m \in Measures, NEW g \in Int, NEW penalty \in Int
  PROVE  PageCost(m, g, penalty) \in Int
<1>1. Badness(m, g) \in Int BY BadnessType
<1> DEFINE bad == Badness(m, g)
<1> HIDE DEF bad
<1>2. bad \in Int /\ insertPenalties \in Int BY <1>1 DEF bad, TypeOK
<1>3. BreakCost(bad, penalty, insertPenalties) \in Int BY <1>2, BreakCostType
<1> QED BY <1>3 DEF PageCost, Awful, bad

\* The break at the first contribution is a place of the page.
LEMMA HereTypes ==
  ASSUME TypeOK, contribs # <<>>
  PROVE  BestHere \in [at : 0 .. Len(page), penalty : Int, size : Int, cost : Int]
<1>1. Next1 \in Node BY HeadTail DEF Next1
<1>2. Next1.kind = "penalty" => Next1.penalty \in Int BY <1>1, NodeFacts
<1>3. PenaltyOf(Next1) \in Int BY <1>2 DEF PenaltyOf
<1>4. dims \in Measures /\ goal \in Int BY DEF TypeOK
<1>5. CostHere \in Int BY <1>3, <1>4, PageCostType DEF CostHere
<1> DEFINE p == IF Next1.kind = "penalty" THEN Next1.penalty ELSE InfinitePenalty
<1>6. p \in Int BY <1>2 DEF InfinitePenalty
<1>7. BestHere = Better(CostHere, p, goal) BY DEF BestHere
<1> HIDE DEF p
<1> QED BY <1>4, <1>5, <1>6, <1>7, BetterType

\* An item with its number is a node.
LEMMA NumberedType ==
  ASSUME NEW x \in Items, NEW k \in Nat \ {0}
  PROVE  Numbered(x, k) \in Node
<1>1. CASE x \in Pieces({0}, {0})
  <2>1. CASE x.kind \in {"box", "mark"}
    <3>1. Numbered(x, k) = [x EXCEPT !.id = k] BY <2>1 DEF Numbered
    <3>2. [x EXCEPT !.id = k] \in Pieces(Nat \ {0}, {0}) BY <1>1, <2>1 DEF Pieces, Plain
    <3> QED BY <3>1, <3>2 DEF Node
  <2>2. CASE x.kind \notin {"box", "mark"}
    <3>1. x \in Plain BY <1>1, <2>2 DEF Pieces
    <3>2. x.kind # "insert" BY <3>1 DEF Plain
    <3>3. Numbered(x, k) = x BY <2>2, <3>2 DEF Numbered
    <3> QED BY <3>1, <3>3, PlainIsNode
  <2> QED BY <2>1, <2>2
<1>2. CASE /\ x.kind = "insert" /\ x.class \in Classes
           /\ x.list \in Seq(Pieces({0}, {0})) /\ x = Insert(x.class, x.list)
  <2> DEFINE N == Pieces({0}, {0})
             y(j) == IF x.list[j].kind \in {"box", "mark"}
                     THEN [x.list[j] EXCEPT !.id = k, !.line = j] ELSE x.list[j]
             l == [j \in DOMAIN x.list |-> y(j)]
             h == Size(x.list)
  <2>1. Numbered(x, k) = [x EXCEPT !.list = l] BY <1>2 DEF Numbered
  <2>2. \A j \in 1 .. Len(x.list) : y(j) \in LineNode
    <3> SUFFICES ASSUME NEW j \in 1 .. Len(x.list) PROVE y(j) \in LineNode
      OBVIOUS
    <3>1. x.list[j] \in N BY <1>2
    <3>2. j \in Nat \ {0} OBVIOUS
    <3>3. CASE x.list[j].kind \in {"box", "mark"}
      BY <3>1, <3>2, <3>3 DEF Pieces, Plain, LineNode
    <3>4. CASE x.list[j].kind \notin {"box", "mark"}
      <4>1. x.list[j] \in Plain BY <3>1, <3>4 DEF Pieces
      <4> QED BY <4>1, <3>4, PlainIsNode
    <3> QED BY <3>3, <3>4
  <2>3. l \in Seq(LineNode)
    <3>1. DOMAIN x.list = 1 .. Len(x.list) /\ Len(x.list) \in Nat BY <1>2
    <3> HIDE DEF y
    <3> QED BY <2>2, <3>1
  <2>4. h \in Int
    <3> DEFINE e == [i \in DOMAIN x.list |-> Extent(x.list[i])]
    <3>1. ASSUME NEW n \in N PROVE Extent(n) \in Int
      <4>1. /\ n.kind = "box" => n.height \in Int /\ n.depth \in Int
            /\ n.kind \in {"glue", "kern"} => n.width \in Int
        BY DEF Pieces, Plain
      <4>2. CASE n.kind = "box" BY <4>1, <4>2 DEF Extent
      <4>3. CASE n.kind \in {"glue", "kern"} BY <4>1, <4>3 DEF Extent
      <4>4. CASE n.kind \notin {"box", "glue", "kern"} BY <4>4 DEF Extent
      <4> QED BY <4>2, <4>3, <4>4
    <3>2. \A i \in 1 .. Len(x.list) : x.list[i] \in N BY <1>2
    <3>3. \A i \in 1 .. Len(x.list) : Extent(x.list[i]) \in Int BY <3>1, <3>2
    <3>4. e \in Seq(Int) BY <3>3, <1>2
    <3> HIDE DEF e
    <3>5. Total(e) \in Int BY <3>4, TotalType
    <3> QED BY <3>5 DEF Size, e
  <2> HIDE DEF l, h
  <2>5. x = [kind |-> "insert", class |-> x.class, list |-> x.list, height |-> h]
    BY <1>2 DEF Insert, h
  <2>6. Numbered(x, k) = [kind |-> "insert", class |-> x.class, list |-> l, height |-> h]
    BY <2>1, <2>5
  <2> QED BY <1>2, <2>3, <2>4, <2>6 DEF Node
<1> QED BY <1>1, <1>2, ItemsAssumption

\* A node that is moved to the page, or thrown away, changes no types.
LEMMA PlainStepsType ==
  ASSUME TypeOK, Shape
  PROVE  /\ Carry => TypeOK' /\ Shape'
         /\ Discard => TypeOK' /\ Shape'
         /\ FirstBox => TypeOK' /\ Shape'
         /\ Weigh => TypeOK' /\ Shape'
         /\ BreakPage => TypeOK' /\ Shape'
<1>0. /\ page \in Seq(Node) /\ dims \in Measures /\ goal \in Int /\ hasBox \in BOOLEAN
      /\ frozen \in BOOLEAN /\ MaxDepth \in Int /\ TopSkip \in Int
      /\ best \in [at : 0 .. Len(page), penalty : Int, size : Int, cost : Int]
  BY SizesAssumption DEF TypeOK
<1>1. ASSUME Carry PROVE TypeOK' /\ Shape'
  <2>1. pc = "building" /\ contribs # <<>> BY <1>1 DEF Carry, Building
  <2>2. Head(contribs) \in Node BY <2>1, HeadTail
  <2>3. Extends(Append(page, Head(contribs)), page) BY <1>0, <2>2, ExtendsByOne
  <2>4. /\ Settle(dims, goal, best, Append(page, Head(contribs)))
        /\ UNCHANGED <<hasBox, frozen, inserts, insertPenalties>>
    BY <1>1 DEF Carry
  <2>5. hasBox' \in BOOLEAN /\ frozen' \in BOOLEAN BY <1>0, <2>4
  <2> QED BY <1>0, <2>1, <2>3, <2>4, <2>5, SettlePlainType
<1>2. ASSUME Discard PROVE TypeOK' /\ Shape'
  <2>1. pc = "building" /\ contribs # <<>> BY <1>2 DEF Discard, Building
  <2>2. Extends(page, page) BY <1>0 DEF Extends
  <2>3. /\ Settle(dims, goal, best, page)
        /\ UNCHANGED <<hasBox, frozen, inserts, insertPenalties>>
    BY <1>2 DEF Discard
  <2>4. hasBox' \in BOOLEAN /\ frozen' \in BOOLEAN BY <1>0, <2>3
  <2> QED BY <1>0, <2>1, <2>2, <2>3, <2>4, SettlePlainType
<1>3. ASSUME FirstBox PROVE TypeOK' /\ Shape'
  <2> DEFINE n     == Head(contribs)
             glue  == SkipTo(TopSkip, n)
             legal == Legal(page, glue, <<n>>)
             cost  == PageCost(StartDims, StartGoal, 0)
             b     == IF legal THEN Better(cost, InfinitePenalty, StartGoal) ELSE best
             start == Grown([StartDims EXCEPT !.total = 0], glue, MaxDepth)
  <2>1. pc = "building" /\ contribs # <<>> /\ n.kind = "box"
    BY <1>3 DEF FirstBox, Building
  <2>2. n \in Node BY <2>1, HeadTail
  <2>3. StartDims \in Measures /\ StartGoal \in Int BY StartTypes
  <2>4. glue \in Node BY <1>0, <2>1, <2>2, SkipIsPlain, PlainIsNode
  <2>5. cost \in Int BY <2>3, PageCostType
  <2>6. b \in [at : 0 .. Len(page), penalty : Int, size : Int, cost : Int]
    <3>1. InfinitePenalty \in Int BY DEF InfinitePenalty
    <3> HIDE DEF cost, legal
    <3>2. Better(cost, InfinitePenalty, StartGoal)
          \in [at : 0 .. Len(page), penalty : Int, size : Int, cost : Int]
      BY <2>3, <2>5, <3>1, BetterType
    <3> QED BY <3>2, <1>0
  <2>7. start \in Measures
    <3> DEFINE m == [StartDims EXCEPT !.total = 0]
    <3>1. m \in Measures BY <2>3 DEF Measures
    <3> HIDE DEF m, glue
    <3> QED BY <3>1, <2>4, <1>0, GrownType DEF m
  <2>8. Grown(start, n, MaxDepth) \in Measures
    <3> HIDE DEF start, n
    <3> QED BY <2>7, <2>2, <1>0, GrownType
  <2>9. IF legal /\ cost = Awful
        THEN FireUp(page, b) /\ dims' = StartDims /\ goal' = StartGoal
        ELSE /\ Settle(Grown(start, n, MaxDepth), StartGoal, b, page \o <<glue, n>>)
             /\ hasBox' = TRUE /\ frozen' = TRUE
             /\ UNCHANGED <<inserts, insertPenalties>>
    BY <1>3 DEF FirstBox
  <2>10. Extends(page \o <<glue, n>>, page)
    <3> HIDE DEF glue, n
    <3> QED BY <1>0, <2>2, <2>4 DEF Extends
  <2> DEFINE grown == Grown(start, n, MaxDepth)
             list == page \o <<glue, n>>
             fires == legal /\ cost = Awful
  <2> HIDE DEF grown, list, fires, b
  <2>11. CASE fires
    <3>1. FireUp(page, b) /\ dims' \in Measures /\ goal' \in Int
      BY <2>3, <2>9, <2>11 DEF fires, b
    <3>2. Len(page) \in 0 .. Len(page) /\ page = SubSeq(page, 1, Len(page)) BY <1>0
    <3>3. b.penalty \in Int /\ b.size \in Int BY <2>6
    <3> QED BY <2>1, <3>1, <3>2, <3>3, FireUpType
  <2>12. CASE ~fires
    <3>1. /\ Settle(grown, StartGoal, b, list)
          /\ hasBox' = TRUE /\ frozen' = TRUE
          /\ UNCHANGED <<inserts, insertPenalties>>
      BY <2>9, <2>12 DEF fires, b, grown, list
    <3>2. grown \in Measures /\ Extends(list, page) BY <2>8, <2>10 DEF grown, list
    <3> QED BY <2>1, <2>3, <2>6, <3>1, <3>2, SettlePlainType
  <2> QED BY <2>11, <2>12
<1>4. ASSUME Weigh PROVE TypeOK' /\ Shape'
  <2> DEFINE b == IF MayBreak THEN BestHere ELSE best
             list == Append(page, Next1)
             grown == Grown(dims, Next1, MaxDepth)
  <2>1. pc = "building" /\ contribs # <<>> BY <1>4 DEF Weigh, Building
  <2>2. Next1 \in Node BY <2>1, HeadTail DEF Next1
  <2>3. b \in [at : 0 .. Len(page), penalty : Int, size : Int, cost : Int]
    BY <1>0, <2>1, HereTypes
  <2>4. grown \in Measures BY <1>0, <2>2, GrownType
  <2>5. Extends(list, page) BY <1>0, <2>2, ExtendsByOne
  <2>6. Settle(grown, goal, b, list) /\ UNCHANGED <<hasBox, frozen, inserts, insertPenalties>>
    BY <1>4 DEF Weigh
  <2>7. hasBox' \in BOOLEAN /\ frozen' \in BOOLEAN BY <1>0, <2>6
  <2> HIDE DEF b, list, grown
  <2> QED BY <1>0, <2>1, <2>3, <2>4, <2>5, <2>6, <2>7, SettlePlainType
<1>5. ASSUME BreakPage PROVE TypeOK' /\ Shape'
  <2>1. pc = "building" /\ contribs # <<>> /\ UNCHANGED <<dims, goal>>
    BY <1>5 DEF BreakPage, Building
  <2> DEFINE b == BestHere
             part == SubSeq(page, 1, b.at)
  <2>2. FireUp(part, b) BY <1>5 DEF BreakPage
  <2>3. b \in [at : 0 .. Len(page), penalty : Int, size : Int, cost : Int]
    BY <2>1, HereTypes
  <2>4. b.at \in 0 .. Len(page) /\ b.penalty \in Int /\ b.size \in Int BY <2>3
  <2>5. dims' \in Measures /\ goal' \in Int BY <1>0, <2>1
  <2> HIDE DEF b
  <2> QED BY <2>1, <2>2, <2>4, <2>5, FireUpType
<1> QED BY <1>1, <1>2, <1>3, <1>4, <1>5

\* A new class's record says what the page holds of it.
LEMMA RecordOfType ==
  ASSUME TypeOK, NEW c \in Classes
  PROVE  /\ Recorded(RecordOf(c), c, page)
         /\ GoalWith(c) \in Int
<1>1. Size(boxes[c]) \in Int BY SizeType DEF TypeOK
<1> DEFINE s == Size(boxes[c])
<1> HIDE DEF s
<1>2. CASE c \in DOMAIN inserts
  BY <1>2 DEF RecordOf, GoalWith, Recorded, TypeOK
<1>3. CASE c \notin DOMAIN inserts
  <2>1. RecordOf(c) = [held |-> s, split |-> FALSE, broken |-> 0, breakAt |-> 0]
    BY <1>3 DEF RecordOf, s
  <2>2. GoalWith(c) = StartGoal - (InsertionSize(s) + ClassSkip)
    BY <1>3 DEF GoalWith, s
  <2>3. InsertionSize(s) \in Int BY <1>1 DEF s, InsertionSize
  <2>4. ClassSkip \in Int BY SizesAssumption
  <2> QED BY <1>1, <2>1, <2>2, <2>3, <2>4, StartTypes DEF s, Recorded
<1> QED BY <1>2, <1>3

\* Taking an insertion onto the page keeps the types and the shape.
LEMMA TakeInsertType ==
  ASSUME TypeOK, Shape, Building({"insert"}), NEW record, NEW g \in Int, NEW cost \in Int,
         Recorded(record, Next1.class, Append(page, Next1)), TakeInsert(record, g, cost)
  PROVE  TypeOK' /\ Shape'
<1> DEFINE list == Append(page, Next1)
           n == Next1
<1>1. pc = "building" /\ contribs # <<>> /\ n.kind = "insert" BY DEF Building, Next1
<1>2. n \in Node BY <1>1, HeadTail DEF Next1
<1>3. n.class \in Classes BY <1>1, <1>2, NodeFacts
<1>4. page \in Seq(Node) BY DEF TypeOK
<1>5. Extends(list, page) BY <1>2, <1>4, ExtendsByOne
<1>6. /\ frozen' = TRUE /\ insertPenalties' = insertPenalties + cost
      /\ inserts' = [c \in DOMAIN inserts \cup {n.class} |->
                        IF c = n.class THEN record ELSE inserts[c]]
      /\ Settle(StartDims, g, best, list)
      /\ UNCHANGED hasBox
  BY DEF TakeInsert
<1>7. Recorded(record, n.class, list) OBVIOUS
<1> HIDE DEF list, n
<1>8. DOMAIN inserts' \subseteq Classes BY <1>3, <1>6 DEF TypeOK
<1>9. ASSUME NEW c \in DOMAIN inserts' PROVE Recorded(inserts'[c], c, list)
  <2>1. CASE c = n.class
    BY <2>1, <1>6, <1>7
  <2>2. CASE c # n.class
    <3>1. c \in DOMAIN inserts /\ inserts'[c] = inserts[c] BY <2>2, <1>6
    <3>2. Recorded(inserts[c], c, page) BY <3>1 DEF TypeOK, Recorded
    <3> QED BY <3>1, <3>2, <1>4, <1>5, StillRecorded
  <2> QED BY <2>1, <2>2
<1>10. insertPenalties' \in Int /\ hasBox' \in BOOLEAN /\ frozen' \in BOOLEAN
       /\ best \in [at : 0 .. Len(page), penalty : Int, size : Int, cost : Int]
  <2>1. insertPenalties \in Int /\ hasBox \in BOOLEAN
        /\ best \in [at : 0 .. Len(page), penalty : Int, size : Int, cost : Int]
    BY DEF TypeOK
  <2>2. insertPenalties' = insertPenalties + cost /\ frozen' = TRUE /\ hasBox' = hasBox BY <1>6
  <2> QED BY <2>1, <2>2
<1> QED BY <1>1, <1>5, <1>6, <1>8, <1>9, <1>10, StartTypes, SettleType

\* An insertion that is taken, split or put off keeps the records right.
LEMMA InsertStepsType ==
  ASSUME TypeOK, Shape
  PROVE  /\ PutOff => TypeOK' /\ Shape'
         /\ TakeWhole => TypeOK' /\ Shape'
         /\ TakePart => TypeOK' /\ Shape'
<1> SUFFICES ASSUME Building({"insert"}), PutOff \/ TakeWhole \/ TakePart
             PROVE  TypeOK' /\ Shape'
  BY DEF PutOff, TakeWhole, TakePart
<1> DEFINE n == Next1
           r == RecordOf(n.class)
           g == GoalWith(n.class)
           list == Append(page, n)
<1>1. contribs # <<>> /\ n.kind = "insert" BY DEF Building, Next1
<1>2. n \in Node BY <1>1, HeadTail DEF Next1
<1>3. n.class \in Classes /\ n.list \in Seq(LineNode) /\ n.height \in Int BY <1>1, <1>2, NodeFacts
<1>4. page \in Seq(Node) BY DEF TypeOK
<1>5. Recorded(r, n.class, page) /\ g \in Int BY <1>3, RecordOfType
<1>6. Extends(list, page) BY <1>2, <1>4, ExtendsByOne
<1>7. Recorded(r, n.class, list) BY <1>4, <1>5, <1>6, StillRecorded
<1>8. \A s \in Int : InsertionSize(s) \in Int BY DEF InsertionSize
<1>p. /\ PutOff => TakeInsert(r, g, FloatCost)
      /\ TakeWhole => ~r.split /\ TakeInsert([r EXCEPT !.held = @ + n.height], g - InsertionSize(n.height), 0)
      /\ TakePart => \E room : \E v \in VerticalBreak(Places(n.list, SplitMaxDepth), room) :
            TakeInsert([held |-> r.held + (v.above.total + v.above.depth), split |-> TRUE,
                        broken |-> Len(page) + 1, breakAt |-> v.at],
                       g - InsertionSize(v.above.total + v.above.depth), v.penalty)
  BY DEF PutOff, TakeWhole, TakePart
<1>l. Len(page) + 1 \in DOMAIN list /\ list[Len(page) + 1] = n /\ Len(page) + 1 \in Nat BY <1>4
<1> HIDE DEF r, g, n, list
<1>9. CASE PutOff
  <2>1. FloatCost \in Int BY SizesAssumption
  <2> QED BY <1>5, <1>7, <1>9, <1>p, <2>1, TakeInsertType DEF n, list
<1>10. CASE TakeWhole
  <2> DEFINE record == [r EXCEPT !.held = @ + n.height]
             goes == g - InsertionSize(n.height)
             size == InsertionSize(n.height)
  <2>0. size \in Int
    <3>1. n.height \in Int BY <1>3
    <3> QED BY <3>1 DEF InsertionSize
  <2>1. goes \in Int
    <3> HIDE DEF size
    <3>1. g - size \in Int BY <2>0, <1>5
    <3> QED BY <3>1 DEF size
  <2>2. ~r.split /\ TakeInsert(record, goes, 0) BY <1>10, <1>p
  <2>3. Recorded(record, n.class, list) BY <2>2, <1>3, <1>7 DEF Recorded
  <2> HIDE DEF record, goes
  <2> QED BY <2>1, <2>2, <2>3, TakeInsertType DEF n, list
<1>11. CASE TakePart
  <2>0. PICK room : \E v \in VerticalBreak(Places(n.list, SplitMaxDepth), room) :
            TakeInsert([held |-> r.held + (v.above.total + v.above.depth), split |-> TRUE,
                        broken |-> Len(page) + 1, breakAt |-> v.at],
                       g - InsertionSize(v.above.total + v.above.depth), v.penalty)
    BY <1>11, <1>p
  <2>1. PICK v \in VerticalBreak(Places(n.list, SplitMaxDepth), room) :
            TakeInsert([held |-> r.held + (v.above.total + v.above.depth), split |-> TRUE,
                        broken |-> Len(page) + 1, breakAt |-> v.at],
                       g - InsertionSize(v.above.total + v.above.depth), v.penalty)
    BY <2>0
  <2>2. v \in Places(n.list, SplitMaxDepth) BY <2>1 DEF VerticalBreak
  <2>3. v.at \in 0 .. Len(n.list) /\ v.above \in Measures /\ v.penalty \in Int
    BY <2>2, <1>3, SizesAssumption, PlacesType
  <2>4. v.at \in Nat /\ v.above.total \in Int /\ v.above.depth \in Int
    BY <2>3, <1>3 DEF Measures
  <2> DEFINE reached == v.above.total + v.above.depth
             record == [held |-> r.held + reached, split |-> TRUE,
                        broken |-> Len(page) + 1, breakAt |-> v.at]
             goes == g - InsertionSize(reached)
  <2>5. reached \in Int BY <2>4
  <2>6. TakeInsert(record, goes, v.penalty) BY <2>1
  <2> HIDE DEF reached
  <2>7. goes \in Int BY <2>5, <1>5, <1>8
  <2>8. r.held \in Int BY <1>5 DEF Recorded
  <2>9. Recorded(record, n.class, list) BY <2>4, <2>5, <2>8, <1>1, <1>l DEF Recorded, n
  <2> HIDE DEF record, goes
  <2> QED BY <2>3, <2>6, <2>7, <2>9, TakeInsertType DEF n, list
<1> QED BY <1>9, <1>10, <1>11

\* The document's steps.
LEMMA DocumentStepsType ==
  ASSUME TypeOK, Shape
  PROVE  /\ \A x \in Items : Contribute(x) => TypeOK' /\ Shape'
         /\ Paragraph => TypeOK' /\ Shape'
         /\ End => TypeOK' /\ Shape'
         /\ EjectLastPages => TypeOK' /\ Shape'
         /\ Rest => TypeOK' /\ Shape'
<1>1. ASSUME NEW x \in Items, Contribute(x) PROVE TypeOK' /\ Shape'
  <2> DEFINE n == Numbered(x, read + 1)
  <2>1. /\ pc = "reading" /\ read < MaxItems /\ read' = read + 1
        /\ contribs' = Append(contribs, n)
        /\ material' = material + Len(Material(<<n>>) \o LinesOf(<<n>>))
        /\ pc' \in {"building", "reading"}
        /\ UNCHANGED <<ended, page, made, hasBox, frozen, dims, goal, best, inserts, insertPenalties,
                       deadCycles, marks, outPenalty, box255, boxes, shipped, gone, holding>>
    BY <1>1 DEF Contribute, weighs, cycle, out
  <2>2. read \in 0 .. MaxItems BY DEF TypeOK
  <2>3. read' \in 0 .. MaxItems /\ read + 1 \in Nat \ {0} BY <2>1, <2>2, BoundAssumption
  <2>4. n \in Node BY <2>3, NumberedType
  <2> DEFINE l == Len(Material(<<n>>) \o LinesOf(<<n>>))
  <2> HIDE DEF n
  <2>5. <<n>> \in Seq(Node) BY <2>4
  <2>6. Material(<<n>>) \in Seq(Piece) /\ LinesOf(<<n>>) \in Seq(Piece)
    BY <2>5, MaterialType, LinesOfType, PiecesConcat
  <2>7. Material(<<n>>) \o LinesOf(<<n>>) \in Seq(Piece) BY <2>6, PiecesConcat
  <2>8. l \in Nat BY <2>7
  <2> HIDE DEF l
  <2>9. material' \in Nat
    <3>1. material' = material + l BY <2>1 DEF l
    <3>2. material \in Nat BY DEF TypeOK
    <3> QED BY <3>1, <3>2, <2>8
  <2>10. contribs' \in Seq(Node)
    <3>1. contribs \in Seq(Node) BY DEF TypeOK
    <3> QED BY <3>1, <2>1, <2>4
  <2>11. TypeOK' BY <2>1, <2>3, <2>9, <2>10 DEF TypeOK
  <2>12. Shape' BY <2>1 DEF Shape
  <2> QED BY <2>11, <2>12
<1>2. ASSUME Paragraph PROVE TypeOK' /\ Shape'
  <2>1. TypeOK' BY <1>2 DEF Paragraph, TypeOK, lists, weighs, cycle, out
  <2>2. Shape' BY <1>2 DEF Paragraph, Shape, lists, weighs, cycle, out
  <2> QED BY <2>1, <2>2
<1>3. ASSUME End PROVE TypeOK' /\ Shape'
  <2>1. TypeOK' BY <1>3 DEF End, TypeOK, lists, weighs, cycle, out
  <2>2. Shape' BY <1>3 DEF End, Shape, lists, weighs, cycle, out
  <2> QED BY <2>1, <2>2
<1>4. ASSUME EjectLastPages PROVE TypeOK' /\ Shape'
  <2>1. Box(0, 0, 0) \in Node BY DEF Node
  <2>2. Glue(0, 0, TRUE, 0) \in Node /\ Penalty(Eject) \in Node
    <3>1. Glue(0, 0, TRUE, 0) \in Plain BY DEF Glue, Plain
    <3>2. Eject \in Int BY DEF Eject
    <3>3. Penalty(Eject) \in Plain BY <3>2 DEF Penalty, Plain
    <3> QED BY <3>1, <3>3, PlainIsNode
  <2> DEFINE a == Box(0, 0, 0)
             b == Glue(0, 0, TRUE, 0)
             c == Penalty(Eject)
  <2>3. contribs' = contribs \o <<a, b, c>> /\ pc = "reading" BY <1>4 DEF EjectLastPages
  <2> HIDE DEF a, b, c
  <2>4. contribs \in Seq(Node) BY DEF TypeOK
  <2>5. a \in Node /\ b \in Node /\ c \in Node BY <2>1, <2>2 DEF a, b, c
  <2>6. contribs' \in Seq(Node) BY <2>3, <2>4, <2>5
  <2>7. TypeOK' BY <1>4, <2>6 DEF EjectLastPages, TypeOK, weighs, cycle, out
  <2>8. Shape' BY <1>4, <2>3 DEF EjectLastPages, Shape, weighs, cycle, out
  <2> QED BY <2>7, <2>8
<1>5. ASSUME Rest PROVE TypeOK' /\ Shape'
  <2>1. TypeOK' BY <1>5 DEF Rest, TypeOK, Shape, lists, weighs, cycle, out
  <2>2. Shape' BY <1>5 DEF Rest, Shape, lists, weighs, cycle, out
  <2> QED BY <2>1, <2>2
<1> QED BY <1>1, <1>2, <1>3, <1>4, <1>5

\* What the boxes of all classes hold.
StoreOn(bx) == [c \in Classes |-> Material(bx[c])]
\* What the boxes of the classes hold, class by class.
Stored(bx)  == FlattenSeq([i \in DOMAIN SetToSeq(Classes) |-> Material(bx[SetToSeq(Classes)[i]])])

\* It is what each class's box holds, one after the other.
LEMMA StoredIs ==
  ASSUME NEW bx \in [Classes -> Seq(LineNode)]
  PROVE  /\ Maps(StoreOn(bx), Classes, Seq(LinePiece))
         /\ SetToSeq(Classes) \in Seq(Classes)
         /\ Stored(bx) = Spread(StoreOn(bx), SetToSeq(Classes))
         /\ Stored(bx) \in Seq(LinePiece)
<1>1. Maps(StoreOn(bx), Classes, Seq(LinePiece))
  <2>1. \A c \in Classes : Material(bx[c]) \in Seq(LinePiece) BY MaterialType
  <2> QED BY <2>1 DEF Maps, StoreOn
<1>2. SetToSeq(Classes) \in Seq(Classes) BY ClassesAssumption, SetToSeqIs
<1> DEFINE k == SetToSeq(Classes)
<1>3. \A i \in DOMAIN k : k[i] \in Classes BY <1>2
<1>4. [i \in DOMAIN k |-> Material(bx[k[i]])] = Mapped(StoreOn(bx), k)
  <2> HIDE DEF k
  <2> QED BY <1>3 DEF Mapped, StoreOn
<1>5. Stored(bx) = Spread(StoreOn(bx), k) BY <1>4 DEF Stored, Spread
<1> QED BY <1>1, <1>2, <1>5, SpreadType

\* Shipping a page keeps the types and the shape.
LEMMA ShipOutType ==
  ASSUME TypeOK, Shape, pc = "routine", NEW ids \in Seq(Piece), NEW lost \in Seq(Piece),
         ShipOut(ids, lost), boxes' \in [Classes -> Seq(LineNode)]
  PROVE  TypeOK' /\ Shape'
<1>1. /\ shipped' = shipped \o ids /\ gone' = gone \o lost /\ box255' = NoBox /\ deadCycles' = 0
      /\ UNCHANGED <<pc, read, material, ended, contribs, page, made, hasBox, frozen, dims, goal,
                     best, inserts, insertPenalties, marks, outPenalty, holding>>
  BY DEF ShipOut, lists, weighs
<1>2. shipped' \in Seq(Piece) /\ gone' \in Seq(Piece) BY <1>1, PiecesConcat DEF Shape
<1>3. shipped' \in Seq(Node \cup LineNode) /\ gone' \in Seq(Node \cup LineNode)
  BY <1>2, PieceIsNode
<1>4. NoBox \in [void : BOOLEAN, list : Seq(Node), size : Int] /\ NoBox.void BY DEF NoBox
<1>5. TypeOK'
  <2>1. deadCycles' \in 0 .. MaxDeadCycles BY <1>1, DeadAssumption
  <2>2. /\ box255' \in [void : BOOLEAN, list : Seq(Node), size : Int]
        /\ box255'.void \/ pc' = "routine"
    BY <1>1, <1>4
  <2>3. /\ page' \in Seq(Node)
        /\ best' \in [at : 0 .. Len(page'), penalty : Int, size : Int, cost : Int]
        /\ DOMAIN inserts' \subseteq Classes
        /\ \A c \in DOMAIN inserts' :
              /\ inserts'[c] \in [held : Int, split : BOOLEAN, broken : Nat, breakAt : Nat]
              /\ inserts'[c].split => /\ inserts'[c].broken \in DOMAIN page'
                                      /\ page'[inserts'[c].broken].kind = "insert"
                                      /\ page'[inserts'[c].broken].class = c
    BY <1>1 DEF TypeOK
  <2>4. /\ pc' \in {"reading", "building", "routine", "over"}
        /\ read' \in 0 .. MaxItems /\ material' \in Nat /\ ended' \in BOOLEAN
        /\ contribs' \in Seq(Node) /\ made' \in Seq(Node)
        /\ hasBox' \in BOOLEAN /\ frozen' \in BOOLEAN
        /\ dims' \in Measures /\ goal' \in Int /\ insertPenalties' \in Int
        /\ marks' \in [top : Nat, first : Nat, bot : Nat] /\ outPenalty' \in Int
        /\ holding' \in BOOLEAN
    BY <1>1 DEF TypeOK
  <2> QED BY <2>1, <2>2, <2>3, <2>4, <1>3 DEF TypeOK
<1>6. Shape' BY <1>1, <1>2, <1>4 DEF Shape
<1> QED BY <1>5, <1>6

\* So does every step of the output routine.
LEMMA RoutineStepsType ==
  ASSUME TypeOK, Shape
  PROVE  /\ ShipBare => TypeOK' /\ Shape'
         /\ ShipWhole => TypeOK' /\ Shape'
         /\ LetInsertsGo => TypeOK' /\ Shape'
         /\ EndRoutine => TypeOK' /\ Shape'
         /\ \A again \in BOOLEAN : Unbox(again) => TypeOK' /\ Shape'
<1>0. /\ box255.list \in Seq(Node) /\ boxes \in [Classes -> Seq(LineNode)]
      /\ gone \in Seq(Piece) /\ page \in Seq(Node) /\ made \in Seq(Node) /\ contribs \in Seq(Node)
  BY DEF TypeOK, Shape
<1>1. Material(box255.list) \in Seq(Piece) /\ LinesOf(box255.list) \in Seq(Piece)
  BY <1>0, MaterialType, LinesOfType, PiecesConcat
<1>b. NoBox \in [void : BOOLEAN, list : Seq(Node), size : Int] /\ NoBox.void BY DEF NoBox
<1>2. ASSUME ShipBare PROVE TypeOK' /\ Shape'
  <2>1. /\ pc = "routine" /\ ShipOut(Material(box255.list), LinesOf(box255.list))
        /\ boxes' = boxes
    BY <1>2 DEF ShipBare
  <2> QED BY <1>0, <1>1, <2>1, ShipOutType
<1>3. ASSUME ShipWhole PROVE TypeOK' /\ Shape'
  <2>1. /\ pc = "routine" /\ ShipOut(Material(box255.list) \o Stored(boxes), LinesOf(box255.list))
        /\ boxes' = [c \in Classes |-> <<>>]
    BY <1>3 DEF ShipWhole, Stored
  <2>2. Stored(boxes) \in Seq(Piece) BY <1>0, StoredIs, PiecesConcat
  <2>3. Material(box255.list) \o Stored(boxes) \in Seq(Piece) BY <1>1, <2>2, PiecesConcat
  <2>4. boxes' \in [Classes -> Seq(LineNode)] BY <2>1
  <2> QED BY <1>1, <2>1, <2>3, <2>4, ShipOutType
<1>4. ASSUME LetInsertsGo PROVE TypeOK' /\ Shape'
  <2>1. TypeOK' BY <1>4 DEF LetInsertsGo, TypeOK, lists, weighs, cycle, out
  <2>2. Shape' BY <1>4 DEF LetInsertsGo, Shape, lists, weighs, cycle, out
  <2> QED BY <2>1, <2>2
<1>5. ASSUME EndRoutine PROVE TypeOK' /\ Shape'
  <2>1. /\ pc = "routine" /\ contribs' = page \o made \o contribs
        /\ page' = <<>> /\ made' = <<>> /\ insertPenalties' = 0
        /\ gone' = gone \o Material(box255.list) \o LinesOf(box255.list)
        /\ box255' = NoBox /\ pc' = "building"
        /\ UNCHANGED <<read, material, ended, hasBox, frozen, dims, goal, best, inserts,
                       deadCycles, marks, outPenalty, boxes, shipped, holding>>
    BY <1>5 DEF EndRoutine, cycle
  <2>2. contribs' \in Seq(Node) BY <1>0, <2>1
  <2>3. gone' \in Seq(Piece)
    <3> DEFINE a == Material(box255.list)
               b == LinesOf(box255.list)
    <3> HIDE DEF a, b
    <3>1. a \in Seq(Piece) /\ b \in Seq(Piece) /\ gone' = gone \o a \o b BY <1>1, <2>1 DEF a, b
    <3> QED BY <1>0, <3>1, PiecesConcat
  <2>4. inserts = <<>> /\ best = NoBest BY <2>1 DEF Shape
  <2>5. best' \in [at : 0 .. Len(page'), penalty : Int, size : Int, cost : Int]
    <3>1. 0 \in 0 .. Len(page') BY <2>1
    <3> QED BY <3>1, <2>1, <2>4 DEF NoBest, InfinitePenalty, Awful
  <2>6. DOMAIN inserts' = {} BY <2>1, <2>4
  <2>7. gone' \in Seq(Node \cup LineNode) BY <2>3, PieceIsNode
  <2>8. TypeOK' BY <1>b, <2>1, <2>2, <2>5, <2>6, <2>7 DEF TypeOK
  <2>9. Shape' BY <1>b, <2>1, <2>3 DEF Shape
  <2> QED BY <2>8, <2>9
<1>6. ASSUME NEW again \in BOOLEAN, Unbox(again) PROVE TypeOK' /\ Shape'
  <2> DEFINE more == IF again THEN <<Penalty(outPenalty)>> ELSE <<>>
  <2>1. /\ pc = "routine" /\ made' = made \o box255.list \o more /\ box255' = NoBox
        /\ UNCHANGED <<pc, read, material, ended, contribs, page, hasBox, frozen, dims, goal,
                       best, inserts, insertPenalties, deadCycles, marks, outPenalty, boxes,
                       shipped, gone, holding>>
    BY <1>6 DEF Unbox, weighs, cycle
  <2>2. more \in Seq(Node)
    <3>1. outPenalty \in Int BY DEF TypeOK
    <3>2. Penalty(outPenalty) \in Plain BY <3>1 DEF Penalty, Plain
    <3>3. Penalty(outPenalty) \in Node BY <3>2, PlainIsNode
    <3> QED BY <3>3
  <2> HIDE DEF more
  <2>3. made' \in Seq(Node) BY <1>0, <2>1, <2>2
  <2>4. TypeOK' BY <1>b, <2>1, <2>3 DEF TypeOK
  <2>5. Shape' BY <1>b, <2>1, <2>3 DEF Shape
  <2> QED BY <2>4, <2>5
<1> QED BY <1>2, <1>3, <1>4, <1>5, <1>6

\* The types and the shape hold at the start,
LEMMA TypeInit == Init => TypeOK /\ Shape
<1> SUFFICES ASSUME Init PROVE TypeOK /\ Shape
  OBVIOUS
<1>1. DOMAIN inserts = {} /\ Len(page) = 0 BY DEF Init
<1>2. holding \in BOOLEAN BY RoutineAssumption DEF Init
<1>3. read \in 0 .. MaxItems /\ deadCycles \in 0 .. MaxDeadCycles
  BY BoundAssumption, DeadAssumption DEF Init
<1>4. dims \in Measures BY DEF Init, Nothing, Measures
<1>5. best \in [at : 0 .. Len(page), penalty : Int, size : Int, cost : Int]
  <2>1. 0 \in 0 .. Len(page) BY <1>1
  <2> QED BY <2>1 DEF Init, NoBest, InfinitePenalty, Awful
<1>6. marks \in [top : Nat, first : Nat, bot : Nat] BY DEF Init, NoMarks
<1>7. box255 \in [void : BOOLEAN, list : Seq(Node), size : Int] /\ box255.void /\ box255 = NoBox
  BY DEF Init, NoBox
<1>8. boxes \in [Classes -> Seq(LineNode)] BY DEF Init
<1>9. TypeOK
  <2>1. /\ contribs \in Seq(Node) /\ page \in Seq(Node) /\ made \in Seq(Node)
        /\ shipped \in Seq(Node \cup LineNode) /\ gone \in Seq(Node \cup LineNode)
    BY DEF Init
  <2>2. /\ pc \in {"reading", "building", "routine", "over"}
        /\ material \in Nat
        /\ goal \in Int /\ insertPenalties \in Int /\ outPenalty \in Int
    BY DEF Init
  <2>3. ended \in BOOLEAN /\ hasBox \in BOOLEAN /\ frozen \in BOOLEAN BY DEF Init
  <2> QED BY <1>1, <1>2, <1>3, <1>4, <1>5, <1>6, <1>7, <1>8, <2>1, <2>2, <2>3 DEF TypeOK
<1>10. Shape BY <1>7 DEF Init, Shape
<1> QED BY <1>9, <1>10

\* and every step keeps them.
LEMMA TypeStep == TypeOK /\ Shape /\ [Next]_vars => TypeOK' /\ Shape'
<1> SUFFICES ASSUME TypeOK, Shape, [Next]_vars PROVE TypeOK' /\ Shape'
  OBVIOUS
<1>1. CASE BuilderStep
  BY <1>1, PlainStepsType, InsertStepsType, DocumentStepsType DEF BuilderStep
<1>2. CASE RoutineStep
  BY <1>2, RoutineStepsType DEF RoutineStep
<1>3. CASE End \/ EjectLastPages \/ Paragraph \/ \E x \in Items : Contribute(x)
  BY <1>3, DocumentStepsType
<1>4. CASE UNCHANGED vars
  <2>1. TypeOK' BY <1>4 DEF vars, TypeOK, lists, weighs, cycle, out
  <2>2. Shape' BY <1>4 DEF vars, Shape, lists, weighs, cycle, out
  <2> QED BY <2>1, <2>2
<1> QED BY <1>1, <1>2, <1>3, <1>4 DEF Next

\* Every variable of the page builder keeps its type, whatever the items, the
\* sizes and the classes are; in particular the best break is always a place
\* on the current page, and the insertion that a class was split at stands on
\* it (page_inserts and best_page_break of src/engine.c).
THEOREM PageTypeCorrect == Spec => [](TypeOK /\ Shape)
<1>1. Init => TypeOK /\ Shape BY TypeInit
<1>2. TypeOK /\ Shape /\ [Next]_vars => (TypeOK /\ Shape)' BY TypeStep
<1> QED BY <1>1, <1>2, PTL DEF Spec

-------------------------------------------------------------------------------
(* Every piece is somewhere, once. *)

(* What is taken apart when a page is sent off. *)

\* For each node of the page: the lines fire_up takes of it, those it holds over,
\* and the class it belongs to.
TakenMaterial(part) ==
  [i \in DOMAIN part |-> IF i \in InsertsAt(part) THEN Material(Taken(part, i)) ELSE <<>>]
HeldMaterial(part) ==
  [i \in DOMAIN part |-> IF i \in InsertsAt(part) THEN LinesOf(HeldOver(part, i)) ELSE <<>>]
Labels(part) == [i \in DOMAIN part |-> part[i].class]

\* Both are lists of lines, one for each node of the page.
LEMMA TakenMaterialType ==
  ASSUME TypeOK, NEW part \in Seq(Node)
  PROVE  /\ TakenMaterial(part) \in Seq(Seq(LinePiece)) /\ Len(TakenMaterial(part)) = Len(part)
         /\ HeldMaterial(part) \in Seq(Seq(LinePiece)) /\ Len(HeldMaterial(part)) = Len(part)
<1> DEFINE E == Seq(LinePiece)
<1>0. DOMAIN part = 1 .. Len(part) /\ Len(part) \in Nat OBVIOUS
<1>1. \A i \in InsertsAt(part) : Material(Taken(part, i)) \in E
  <2>1. \A i \in InsertsAt(part) : Taken(part, i) \in Seq(LineNode) BY TakenAndHeld
  <2> QED BY <2>1, MaterialType
<1>2. \A i \in InsertsAt(part) : LinesOf(HeldOver(part, i)) \in E
  <2>1. \A i \in InsertsAt(part) : HeldOver(part, i) \in Seq(Node) BY TakenAndHeld, InsertsAreNodes
  <2> QED BY <2>1, LinesOfType
<1>3. <<>> \in E OBVIOUS
<1> HIDE DEF E
<1>4. TakenMaterial(part) \in Seq(E) /\ Len(TakenMaterial(part)) = Len(part)
  BY <1>0, <1>1, <1>3 DEF TakenMaterial
<1>5. HeldMaterial(part) \in Seq(E) /\ Len(HeldMaterial(part)) = Len(part)
  BY <1>0, <1>2, <1>3 DEF HeldMaterial
<1> QED BY <1>4, <1>5 DEF E

\* The lines of what is collected for a class.
LEMMA GivenMaterial ==
  ASSUME TypeOK, NEW part \in Seq(Node), NEW c \in Classes
  PROVE  Material(GivenTo(part, c))
         = FlattenSeq(Picked(TakenMaterial(part), Labels(part), {c}))
<1> DEFINE p == [i \in DOMAIN part |->
                   IF i \in InsertsAt(part) /\ part[i].class = c THEN Taken(part, i) ELSE <<>>]
           E == Seq(LineNode)
           g == MatOn(LineNode)
<1>0. DOMAIN part = 1 .. Len(part) /\ Len(part) \in Nat OBVIOUS
<1>1. \A i \in InsertsAt(part) : Taken(part, i) \in E BY TakenAndHeld
<1>2. <<>> \in E OBVIOUS
<1>3. p \in Seq(E) /\ Len(p) = Len(part)
      /\ \A i \in 1 .. Len(part) :
            p[i] = IF i \in InsertsAt(part) /\ part[i].class = c THEN Taken(part, i) ELSE <<>>
  <2> HIDE DEF E
  <2> QED BY <1>0, <1>1, <1>2
<1>4. p \in Seq(Seq(LineNode)) BY <1>3
<1>5. GivenTo(part, c) = FlattenSeq(p) BY DEF GivenTo
<1>6. Maps(g, LineNode, Seq(LinePiece)) BY MatMaps
<1>7. \A list \in E : Material(list) = Spread(g, list) BY MaterialIs
<1>8. Spread(g, <<>>) = <<>> BY SpreadEmpty
<1> HIDE DEF p, g
<1>9. FlattenSeq(p) \in E BY <1>4, FlattenType
<1>10. Spread(g, FlattenSeq(p)) = FlattenSeq(Spreads(g, p)) BY <1>4, <1>6, SpreadFlatten
<1>11. Spreads(g, p) = Picked(TakenMaterial(part), Labels(part), {c})
  <2>1. DOMAIN p = 1 .. Len(part)
    <3> HIDE DEF E
    <3> QED BY <1>3, <1>0
  <2>2. ASSUME NEW i \in 1 .. Len(part)
        PROVE  Spread(g, p[i]) = IF Labels(part)[i] \in {c} THEN TakenMaterial(part)[i] ELSE <<>>
    <3>1. Labels(part)[i] = part[i].class BY <1>0 DEF Labels
    <3>2. TakenMaterial(part)[i] = IF i \in InsertsAt(part) THEN Material(Taken(part, i)) ELSE <<>>
      BY <1>0 DEF TakenMaterial
    <3>3. CASE i \in InsertsAt(part) /\ part[i].class = c
      <4>1. p[i] = Taken(part, i) BY <1>3, <3>3
      <4>2. Material(Taken(part, i)) = Spread(g, Taken(part, i)) BY <1>1, <1>7, <3>3
      <4> QED BY <3>1, <3>2, <3>3, <4>1, <4>2
    <3>4. CASE ~(i \in InsertsAt(part) /\ part[i].class = c)
      <4>1. p[i] = <<>> BY <1>3, <3>4
      <4> QED BY <1>8, <3>1, <3>2, <3>4, <4>1
    <3> QED BY <3>3, <3>4
  <2>3. DOMAIN TakenMaterial(part) = 1 .. Len(part) BY <1>0 DEF TakenMaterial
  <2> QED BY <2>1, <2>2, <2>3 DEF Spreads, Picked
<1> QED BY <1>5, <1>7, <1>9, <1>10, <1>11

\* What is collected adds to the boxes of the classes what was taken.
LEMMA CollectedAdds ==
  ASSUME TypeOK, NEW part \in Seq(Node), NEW X
  PROVE  Tally(Stored(Collected(part)), X)
         = Tally(Stored(boxes), X) + Tally(FlattenSeq(TakenMaterial(part)), X)
<1> DEFINE pm == TakenMaterial(part)
           w  == Labels(part)
           k  == SetToSeq(Classes)
           D  == [c \in Classes |-> FlattenSeq(Picked(pm, w, {c}))]
           E  == Seq(LinePiece)
           old == StoreOn(boxes)
           new == StoreOn(Collected(part))
<1>1. boxes \in [Classes -> Seq(LineNode)] /\ Collected(part) \in [Classes -> Seq(LineNode)]
  BY CollectedType DEF TypeOK
<1>2. /\ Maps(old, Classes, E) /\ Maps(new, Classes, E) /\ k \in Seq(Classes)
      /\ Stored(boxes) = Spread(old, k) /\ Stored(Collected(part)) = Spread(new, k)
  BY <1>1, StoredIs
<1>3. pm \in Seq(Seq(LinePiece)) BY TakenMaterialType
<1>4. \A c \in Classes : D[c] = FlattenSeq(Picked(pm, w, {c})) OBVIOUS
<1>d. Dealt(D, Classes, pm, w) BY <1>4 DEF Dealt
<1>5. Maps(D, Classes, E)
  <2>1. \A c \in Classes : FlattenSeq(Picked(pm, w, {c})) \in E
    <3> TAKE c \in Classes
    <3> HIDE DEF pm, w
    <3>1. Picked(pm, w, {c}) \in Seq(Seq(LinePiece)) BY <1>3, PickedIs
    <3> QED BY <3>1, FlattenType
  <2> HIDE DEF E, pm, w
  <2> QED BY <2>1 DEF Maps
<1>6. ASSUME NEW c \in Classes PROVE new[c] = old[c] \o D[c]
  <2>1. new[c] = Material(boxes[c] \o GivenTo(part, c))
    BY DEF StoreOn, Collected, GivenTo
  <2>2. boxes[c] \in Seq(LineNode) /\ GivenTo(part, c) \in Seq(LineNode)
    BY <1>1, CollectedType
  <2>3. Material(boxes[c] \o GivenTo(part, c)) = Material(boxes[c]) \o Material(GivenTo(part, c))
    BY <2>2, LineMaterialConcat
  <2>4. Material(GivenTo(part, c)) = D[c] BY <1>4, GivenMaterial
  <2>5. old[c] = Material(boxes[c]) BY DEF StoreOn
  <2> QED BY <2>1, <2>3, <2>4, <2>5
<1>7. \A c \in Classes : old[c] \in Seq(LinePiece) /\ D[c] \in Seq(LinePiece) BY <1>2, <1>5 DEF Maps
<1>8. \A c \in Classes : Tally(new[c], X) = Tally(old[c], X) + Tally(D[c], X)
  <2> TAKE c \in Classes
  <2> DEFINE a == old[c]
             b == D[c]
             e == new[c]
  <2>1. a \in Seq(LinePiece) /\ b \in Seq(LinePiece) /\ e = a \o b BY <1>6, <1>7
  <2> HIDE DEF a, b, e, old, new, D
  <2>2. Tally(a \o b, X) = Tally(a, X) + Tally(b, X) BY <2>1, TallyConcat
  <2>3. Tally(e, X) = Tally(a, X) + Tally(b, X) BY <2>1, <2>2
  <2> QED BY <2>3 DEF a, b, e
<1>9. Apart(k) /\ Members(k) = Classes
  BY ClassesAssumption, SetToSeqIs
<1> HIDE DEF pm, w, k, old, new, D
<1>10. Tally(Spread(new, k), X) = Tally(Spread(old, k), X) + Tally(Spread(D, k), X)
  <2>1. /\ Mapped(new, k) \in Seq(Seq(LinePiece)) /\ Mapped(old, k) \in Seq(Seq(LinePiece))
        /\ Mapped(D, k) \in Seq(Seq(LinePiece))
    BY <1>2, <1>5, SpreadIsSeq
  <2>2. /\ Len(Mapped(new, k)) = Len(k) /\ Len(Mapped(old, k)) = Len(k) /\ Len(Mapped(D, k)) = Len(k)
        /\ \A i \in 1 .. Len(k) : /\ Mapped(new, k)[i] = new[k[i]]
                                  /\ Mapped(old, k)[i] = old[k[i]]
                                  /\ Mapped(D, k)[i] = D[k[i]]
    <3> HIDE DEF E
    <3> QED BY <1>2, <1>5, MappedIs
  <2>3. \A i \in 1 .. Len(k) : k[i] \in Classes BY <1>2
  <2>4. \A i \in 1 .. Len(k) : Tally(Mapped(new, k)[i], X)
                               = Tally(Mapped(old, k)[i], X) + Tally(Mapped(D, k)[i], X)
    BY <2>2, <2>3, <1>8
  <2> DEFINE a == Mapped(new, k)
             b == Mapped(old, k)
             c == Mapped(D, k)
  <2>6. /\ a \in Seq(Seq(LinePiece)) /\ b \in Seq(Seq(LinePiece)) /\ c \in Seq(Seq(LinePiece))
        /\ Len(b) = Len(a) /\ Len(c) = Len(a)
        /\ \A i \in 1 .. Len(a) : Tally(a[i], X) = Tally(b[i], X) + Tally(c[i], X)
    BY <2>1, <2>2, <2>4
  <2> HIDE DEF a, b, c, E
  <2>5. Tally(FlattenSeq(a), X) = Tally(FlattenSeq(b), X) + Tally(FlattenSeq(c), X)
    BY <2>6, TallyFlattenAdd
  <2> QED BY <2>5 DEF Spread, a, b, c
<1>11. Tally(Spread(D, k), X) = Tally(FlattenSeq(Picked(pm, w, Classes)), X)
  <2>1. Maps(D, Classes, Seq(LinePiece)) /\ k \in Seq(Classes) BY <1>2, <1>5
  <2>2. Tally(Spread(D, k), X) = Tally(FlattenSeq(Picked(pm, w, Members(k))), X)
    <3> HIDE DEF E
    <3> QED BY <1>3, <1>d, <1>9, <2>1, TallyDealt
  <2> QED BY <1>9, <2>2
<1>12. Picked(pm, w, Classes) = pm
  <2>0. Len(part) \in Nat /\ DOMAIN part = 1 .. Len(part) OBVIOUS
  <2>1. DOMAIN pm = 1 .. Len(part) /\ pm = [i \in DOMAIN pm |-> pm[i]]
    BY <2>0 DEF pm, TakenMaterial
  <2>2. ASSUME NEW i \in 1 .. Len(part) PROVE (IF w[i] \in Classes THEN pm[i] ELSE <<>>) = pm[i]
    <3>1. w[i] = part[i].class /\ part[i] \in Node BY DEF w, Labels
    <3>2. pm[i] = IF i \in InsertsAt(part) THEN Material(Taken(part, i)) ELSE <<>>
      BY DEF pm, TakenMaterial
    <3>3. i \in InsertsAt(part) => part[i].class \in Classes
      BY <3>1, NodeFacts DEF InsertsAt
    <3> QED BY <3>1, <3>2, <3>3
  <2> QED BY <2>1, <2>2 DEF Picked
<1> QED BY <1>2, <1>10, <1>11, <1>12 DEF pm

\* Insertions held over carry no text.
LEMMA InsertsHaveNoText ==
  ASSUME NEW list \in Seq(InsertNode)
  PROVE  Material(list) = <<>>
<1>1. Maps(MatOn(InsertNode), InsertNode, Seq({}))
  <2>1. \A n \in InsertNode : (IF n.kind \in {"box", "mark"} /\ n.id # 0 THEN <<n>> ELSE <<>>) \in Seq({})
    BY DEF InsertNode
  <2> QED BY <2>1 DEF Maps, MatOn
<1>2. Material(list) \in Seq({}) BY <1>1, SpreadType, MaterialIs
<1> QED BY <1>2

\* The lines of what is held over.
LEMMA HeldMaterialIs ==
  ASSUME TypeOK, NEW part \in Seq(Node)
  PROVE  LinesOf(Unplaced(part)) = FlattenSeq(HeldMaterial(part))
<1> DEFINE p == [i \in DOMAIN part |-> IF i \in InsertsAt(part) THEN HeldOver(part, i) ELSE <<>>]
           E == Seq(Node)
           g == LinOn(Node)
<1>0. DOMAIN part = 1 .. Len(part) /\ Len(part) \in Nat OBVIOUS
<1>1. \A i \in InsertsAt(part) : HeldOver(part, i) \in E BY TakenAndHeld, InsertsAreNodes
<1>2. <<>> \in E OBVIOUS
<1>3. p \in Seq(E) /\ Len(p) = Len(part)
      /\ \A i \in 1 .. Len(part) : p[i] = IF i \in InsertsAt(part) THEN HeldOver(part, i) ELSE <<>>
  <2> HIDE DEF E
  <2> QED BY <1>0, <1>1, <1>2
<1>4. p \in Seq(Seq(Node)) BY <1>3
<1>5. Unplaced(part) = FlattenSeq(p) BY DEF Unplaced
<1>6. Maps(g, Node, Seq(LinePiece)) BY LinMaps
<1>7. \A list \in E : LinesOf(list) = Spread(g, list) BY LinesOfIs
<1>8. Spread(g, <<>>) = <<>> BY SpreadEmpty
<1> HIDE DEF p, g
<1>9. FlattenSeq(p) \in E BY <1>4, FlattenType
<1>10. Spread(g, FlattenSeq(p)) = FlattenSeq(Spreads(g, p)) BY <1>4, <1>6, SpreadFlatten
<1>11. Spreads(g, p) = HeldMaterial(part)
  <2>1. DOMAIN p = 1 .. Len(part)
    <3> HIDE DEF E
    <3> QED BY <1>3, <1>0
  <2>2. ASSUME NEW i \in 1 .. Len(part)
        PROVE  Spread(g, p[i]) = IF i \in InsertsAt(part) THEN LinesOf(HeldOver(part, i)) ELSE <<>>
    <3>1. CASE i \in InsertsAt(part)
      BY <1>1, <1>3, <1>7, <3>1
    <3>2. CASE i \notin InsertsAt(part)
      BY <1>3, <1>8, <3>2
    <3> QED BY <3>1, <3>2
  <2> QED BY <1>0, <2>1, <2>2 DEF Spreads, HeldMaterial
<1> QED BY <1>5, <1>7, <1>9, <1>10, <1>11

\* The lines of a part of the page are those held over and those taken.
LEMMA PartIsTakenAndHeld ==
  ASSUME TypeOK, NEW part \in Seq(Node), NEW X
  PROVE  Tally(LinesOf(part), X)
         = Tally(LinesOf(Unplaced(part)), X) + Tally(FlattenSeq(TakenMaterial(part)), X)
<1> DEFINE q  == Mapped(LinOn(Node), part)
           hm == HeldMaterial(part)
           tm == TakenMaterial(part)
<1>1. q \in Seq(Seq(LinePiece)) /\ Len(q) = Len(part)
  <2>1. q \in Seq(Seq(LinePiece)) BY LinMaps, SpreadIsSeq
  <2>2. Len(q) = Len(part) BY DEF Mapped
  <2> QED BY <2>1, <2>2
<1>2. /\ hm \in Seq(Seq(LinePiece)) /\ Len(hm) = Len(part)
      /\ tm \in Seq(Seq(LinePiece)) /\ Len(tm) = Len(part)
  BY TakenMaterialType
<1>3. ASSUME NEW i \in 1 .. Len(part) PROVE Tally(q[i], X) = Tally(hm[i], X) + Tally(tm[i], X)
  <2>1. q[i] = IF part[i].kind = "insert" THEN Material(part[i].list) ELSE <<>>
    BY DEF Mapped, LinOn
  <2>2. /\ hm[i] = IF i \in InsertsAt(part) THEN LinesOf(HeldOver(part, i)) ELSE <<>>
        /\ tm[i] = IF i \in InsertsAt(part) THEN Material(Taken(part, i)) ELSE <<>>
    BY DEF HeldMaterial, TakenMaterial
  <2> HIDE DEF q, hm, tm
  <2>3. CASE part[i].kind = "insert"
    <3>1. i \in InsertsAt(part) BY <2>3 DEF InsertsAt
    <3> QED BY <2>1, <2>2, <2>3, <3>1, TakenAndHeld
  <2>4. CASE part[i].kind # "insert"
    <3>1. i \notin InsertsAt(part) BY <2>4 DEF InsertsAt
    <3>2. q[i] = <<>> /\ hm[i] = <<>> /\ tm[i] = <<>> BY <2>1, <2>2, <2>4, <3>1
    <3> QED BY <3>2, TallyEmpty
  <2> QED BY <2>3, <2>4
<1>4. LinesOf(part) = FlattenSeq(q) BY LinesOfIs DEF Spread
<1>5. LinesOf(Unplaced(part)) = FlattenSeq(hm) BY HeldMaterialIs
<1> HIDE DEF q, hm, tm
<1>6. Tally(FlattenSeq(q), X) = Tally(FlattenSeq(hm), X) + Tally(FlattenSeq(tm), X)
  <2>1. /\ Len(hm) = Len(q) /\ Len(tm) = Len(q)
        /\ \A i \in 1 .. Len(q) : Tally(q[i], X) = Tally(hm[i], X) + Tally(tm[i], X)
    BY <1>1, <1>2, <1>3
  <2>2. q \in Seq(Seq(LinePiece)) /\ hm \in Seq(Seq(LinePiece)) /\ tm \in Seq(Seq(LinePiece))
    BY <1>1, <1>2
  <2> QED BY <2>1, <2>2, TallyFlattenAdd
<1> QED BY <1>4, <1>5, <1>6 DEF tm

\* Without its insertions the part holds its text.
LEMMA TextAloneHolds ==
  ASSUME NEW part \in Seq(Node)
  PROVE  Material(TextAlone(part)) = Material(part) /\ LinesOf(TextAlone(part)) = <<>>
<1> DEFINE al == AloneOn(Node)
           mt == MatOn(Node)
           ln == LinOn(Node)
           no == [n \in Node |-> <<>>]
<1>1. Maps(al, Node, Seq(Node)) /\ TextAlone(part) = Spread(al, part) /\ TextAlone(part) \in Seq(Node)
  BY TextAloneIs
<1>2. Maps(mt, Node, Seq(TextPiece)) /\ Maps(ln, Node, Seq(LinePiece)) BY MatMaps, LinMaps
<1>3. Maps(no, Node, Seq(LinePiece))
  <2>1. <<>> \in Seq(LinePiece) OBVIOUS
  <2> QED BY <2>1 DEF Maps
<1>4. ASSUME NEW n \in Node PROVE Spread(mt, al[n]) = mt[n] /\ Spread(ln, al[n]) = no[n]
  <2>1. CASE n.kind = "insert"
    <3>1. al[n] = <<>> /\ mt[n] = <<>> /\ no[n] = <<>> BY <2>1 DEF AloneOn, MatOn
    <3> QED BY <3>1, SpreadEmpty
  <2>2. CASE n.kind # "insert"
    <3>1. al[n] = <<n>> /\ ln[n] = <<>> /\ no[n] = <<>> BY <2>2 DEF AloneOn, LinOn
    <3> HIDE DEF al, mt, ln, no
    <3>2. Spread(mt, <<n>>) = mt[n] /\ Spread(ln, <<n>>) = ln[n] BY <1>2, SpreadOne
    <3> QED BY <3>1, <3>2
  <2> QED BY <2>1, <2>2
<1>5. Material(TextAlone(part)) = Spread(mt, TextAlone(part))
      /\ LinesOf(TextAlone(part)) = Spread(ln, TextAlone(part)) /\ Material(part) = Spread(mt, part)
  BY <1>1, MaterialIs, LinesOfIs
<1> HIDE DEF al, mt, ln, no
<1>6. \A n \in Node : Spread(mt, al[n]) = mt[n] BY <1>4
<1>7. Spread(mt, Spread(al, part)) = Spread(mt, part) BY <1>1, <1>2, <1>6, SpreadTwice
<1>8. \A n \in Node : Spread(ln, al[n]) = no[n] BY <1>4
<1>9. Spread(ln, Spread(al, part)) = Spread(no, part) BY <1>1, <1>2, <1>3, <1>8, SpreadTwice
<1>10. Maps(no, Node, Seq({}))
  <2>1. <<>> \in Seq({}) OBVIOUS
  <2> QED BY <2>1 DEF Maps, no
<1>11. Spread(no, part) \in Seq({}) BY <1>10, SpreadType
<1>12. Spread(no, part) = <<>> BY <1>11
<1> QED BY <1>1, <1>5, <1>7, <1>9, <1>12

------------------------------------------------------------------------------
(* How much of X the builder has, wherever it is. *)

\* How many pieces of X the builder, the routine's boxes, the shipped pages and
\* the class boxes hold, with those the routine let go.
Held(X) ==
  Weight(contribs, X) + Weight(page, X) + Weight(made, X) + Weight(box255.list, X)
  + Tally(shipped, X) + Tally(gone, X) + Tally(Stored(boxes), X)

\* Each of these counts is a number.
LEMMA HeldParts ==
  ASSUME TypeOK, Shape, NEW X
  PROVE  /\ Weight(contribs, X) \in Nat /\ Weight(page, X) \in Nat /\ Weight(made, X) \in Nat
         /\ Weight(box255.list, X) \in Nat /\ Tally(shipped, X) \in Nat /\ Tally(gone, X) \in Nat
         /\ Tally(Stored(boxes), X) \in Nat
<1>1. /\ contribs \in Seq(Node) /\ page \in Seq(Node) /\ made \in Seq(Node) /\ box255.list \in Seq(Node)
      /\ shipped \in Seq(Piece) /\ gone \in Seq(Piece) /\ boxes \in [Classes -> Seq(LineNode)]
  BY DEF TypeOK, Shape
<1>2. Stored(boxes) \in Seq(LinePiece) BY <1>1, StoredIs
<1>3. Tally(shipped, X) \in Nat /\ Tally(gone, X) \in Nat /\ Tally(Stored(boxes), X) \in Nat
  BY <1>1, <1>2, TallyNat
<1> QED BY <1>1, <1>3, WeightNat

\* The page that is sent off loses nothing: what is packed, what is left on
\* the page and what is collected are what was there.
LEMMA PartConserved ==
  ASSUME TypeOK, NEW part \in Seq(Node), NEW X
  PROVE  Weight(part, X) + Tally(Stored(boxes), X)
         = Weight(TextAlone(part), X) + Weight(Unplaced(part), X) + Tally(Stored(Collected(part)), X)
<1> DEFINE lines == Tally(LinesOf(part), X)
           text  == Tally(Material(part), X)
           heldl == Tally(LinesOf(Unplaced(part)), X)
           taken == Tally(FlattenSeq(TakenMaterial(part)), X)
           old   == Tally(Stored(boxes), X)
           new   == Tally(Stored(Collected(part)), X)
<1>1. lines = heldl + taken BY PartIsTakenAndHeld
<1>2. new = old + taken BY CollectedAdds
<1>3. Weight(part, X) = text + lines BY DEF Weight
<1>4. Weight(TextAlone(part), X) = text + 0 BY TextAloneHolds, TallyEmpty DEF Weight
<1>5. Weight(Unplaced(part), X) = 0 + heldl
  <2>1. Material(Unplaced(part)) = <<>> BY UnplacedType, InsertsHaveNoText
  <2> QED BY <2>1, TallyEmpty DEF Weight
<1>6. text \in Nat BY MaterialType, TallyNat
<1>7. heldl \in Nat
  <2>1. Unplaced(part) \in Seq(Node) BY UnplacedType, InsertsAreNodes
  <2>2. LinesOf(Unplaced(part)) \in Seq(LinePiece) BY <2>1, LinesOfType
  <2> QED BY <2>2, TallyNat
<1>8. taken \in Nat
  <2>1. TakenMaterial(part) \in Seq(Seq(LinePiece)) BY TakenMaterialType
  <2>2. FlattenSeq(TakenMaterial(part)) \in Seq(LinePiece) BY <2>1, FlattenType
  <2> QED BY <2>2, TallyNat
<1>9. old \in Nat
  <2>1. Stored(boxes) \in Seq(LinePiece) BY StoredIs DEF TypeOK
  <2> QED BY <2>1, TallyNat
<1> DEFINE wp == Weight(part, X)
           wt == Weight(TextAlone(part), X)
           wu == Weight(Unplaced(part), X)
<1> HIDE DEF lines, text, heldl, taken, old, new, wp, wt, wu
<1>10. wp = text + lines /\ wt = text + 0 /\ wu = 0 + heldl
  BY <1>3, <1>4, <1>5 DEF wp, wt, wu
<1>11. wp + old = wt + wu + new
  BY <1>1, <1>2, <1>6, <1>7, <1>8, <1>9, <1>10
<1> QED BY <1>11 DEF wp, wt, wu, old, new

\* Putting 10000 for the penalty of the break changes no count.
LEMMA SpentWeight ==
  ASSUME NEW list \in Seq(Node), NEW p \in Int, NEW X
  PROVE  Weight(Spent(list, p), X) = Weight(list, X)
<1>0. \A q \in Int : Penalty(q) \in Node /\ Weight(<<Penalty(q)>>, X) = 0
  <2> TAKE q \in Int
  <2>1. Penalty(q) \in Node BY SpentType
  <2>2. Penalty(q).kind = "penalty" BY DEF Penalty
  <2> QED BY <2>1, <2>2, WeightPlain
<1>1. CASE list # <<>> /\ Head(list) = Penalty(p)
  <2> DEFINE n == Penalty(p)
             m == Penalty(InfinitePenalty)
             tail == Tail(list)
             ln == <<n>>
             lm == <<m>>
  <2>1. InfinitePenalty \in Int BY DEF InfinitePenalty
  <2>2. n \in Node /\ m \in Node /\ Weight(ln, X) = 0 /\ Weight(lm, X) = 0 BY <1>0, <2>1
  <2>3. Spent(list, p) = lm \o tail BY <1>1 DEF Spent
  <2>4. tail \in Seq(Node) /\ list = ln \o tail BY <1>1
  <2>5. ln \in Seq(Node) /\ lm \in Seq(Node) BY <2>2
  <2> HIDE DEF n, m, tail, ln, lm
  <2>6. Weight(ln \o tail, X) = Weight(ln, X) + Weight(tail, X)
        /\ Weight(lm \o tail, X) = Weight(lm, X) + Weight(tail, X)
    BY <2>4, <2>5, WeightConcat
  <2> QED BY <2>2, <2>3, <2>4, <2>6
<1>2. CASE ~(list # <<>> /\ Head(list) = Penalty(p))
  BY <1>2 DEF Spent
<1> QED BY <1>1, <1>2

\* Sending a page off loses nothing and doubles nothing.
LEMMA FireUpConserves ==
  ASSUME TypeOK, Shape, pc = "building",
         NEW k \in 0 .. Len(page), NEW part, part = SubSeq(page, 1, k),
         NEW b, b.penalty \in Int, FireUp(part, b), NEW X
  PROVE  Held(X)' = Held(X) /\ material' = material /\ read' = read
<1> DEFINE packed == IF holding THEN part ELSE TextAlone(part)
           left   == IF holding THEN <<>> ELSE Unplaced(part)
           filled == IF holding THEN boxes ELSE Collected(part)
           runs   == Routine /\ ~Overworked
           after  == SubSeq(page, Len(part) + 1, Len(page))
           returned == after \o contribs
<1>0. /\ page \in Seq(Node) /\ contribs \in Seq(Node)
      /\ box255 = NoBox /\ made = <<>> /\ shipped \in Seq(Piece) /\ gone \in Seq(Piece)
      /\ boxes \in [Classes -> Seq(LineNode)]
  BY DEF TypeOK, Shape
<1>1. part \in Seq(Node) /\ after \in Seq(Node) /\ page = part \o after
  BY <1>0, CutInTwo
<1>2. packed \in Seq(Node) BY <1>1, TextAloneIs
<1>3. /\ contribs' = Spent(returned, b.penalty) /\ page' = left
      /\ boxes' = filled
      /\ box255' = IF runs THEN [void |-> FALSE, list |-> packed, size |-> b.size] ELSE NoBox
      /\ shipped' = IF runs THEN shipped ELSE shipped \o Material(packed)
      /\ gone' = gone \o Material(box255.list) \o (IF runs THEN <<>> ELSE LinesOf(packed))
      /\ made' = <<>>
      /\ read' = read /\ material' = material
  BY FireUpIs, Zenon
<1>4. Weight(part, X) + Tally(Stored(boxes), X)
      = Weight(packed, X) + Weight(left, X) + Tally(Stored(filled), X)
  <2>1. CASE holding
    <3>1. packed = part /\ left = <<>> /\ filled = boxes BY <2>1
    <3>2. Weight(part, X) \in Nat BY <1>1, WeightNat
    <3>3. Weight(left, X) = 0 BY <3>1, WeightEmpty
    <3>4. Stored(boxes) \in Seq(LinePiece) BY <1>0, StoredIs
    <3>5. Tally(Stored(boxes), X) \in Nat BY <3>4, TallyNat
    <3>6. Weight(packed, X) = Weight(part, X) /\ Stored(filled) = Stored(boxes) BY <3>1
    <3> HIDE DEF packed, left, filled
    <3> DEFINE w == Weight(part, X)
               s == Tally(Stored(boxes), X)
    <3>7. w + s = w + 0 + s
      <4>1. w \in Nat /\ s \in Nat BY <3>2, <3>5
      <4> HIDE DEF w, s
      <4> QED BY <4>1
    <3> QED BY <3>3, <3>6, <3>7
  <2>2. CASE ~holding
    BY <2>2, <1>1, PartConserved
  <2> QED BY <2>1, <2>2
<1>5. left \in Seq(Node)
  <2>1. Unplaced(part) \in Seq(Node) BY <1>1, UnplacedType, InsertsAreNodes
  <2>2. <<>> \in Seq(Node) OBVIOUS
  <2> QED BY <2>1, <2>2
<1>6. filled \in [Classes -> Seq(LineNode)] BY <1>0, <1>1, CollectedType
<1> HIDE DEF packed, left, filled, runs, after, returned
<1>7. Weight(page, X) = Weight(part, X) + Weight(after, X) BY <1>1, WeightConcat
<1>8. returned \in Seq(Node) /\ Weight(returned, X) = Weight(after, X) + Weight(contribs, X)
  BY <1>0, <1>1, WeightConcat DEF returned
<1>9. Weight(contribs', X) = Weight(after, X) + Weight(contribs, X)
  BY <1>3, <1>8, SpentWeight
<1>10. Weight(<<>>, X) = 0 /\ Tally(<<>>, X) = 0 /\ Material(<<>>) = <<>> BY WeightEmpty, TallyEmpty, MaterialEmpty
<1>11. Weight(made, X) = 0 /\ Weight(made', X) = 0 /\ Weight(box255.list, X) = 0
  BY <1>0, <1>3, <1>10 DEF NoBox
<1>12. /\ Weight(part, X) \in Nat /\ Weight(after, X) \in Nat /\ Weight(contribs, X) \in Nat
       /\ Weight(packed, X) \in Nat /\ Weight(left, X) \in Nat
  BY <1>0, <1>1, <1>2, <1>5, WeightNat
<1>13. Tally(shipped, X) \in Nat /\ Tally(gone, X) \in Nat BY <1>0, TallyNat
<1>14. Tally(Stored(boxes), X) \in Nat /\ Tally(Stored(filled), X) \in Nat
  <2>1. Stored(boxes) \in Seq(LinePiece) /\ Stored(filled) \in Seq(LinePiece) BY <1>0, <1>6, StoredIs
  <2> QED BY <2>1, TallyNat
<1>15. Material(packed) \in Seq(Piece) /\ LinesOf(packed) \in Seq(Piece)
  BY <1>2, MaterialType, LinesOfType, PiecesConcat
<1>16. Tally(Material(packed), X) \in Nat /\ Tally(LinesOf(packed), X) \in Nat BY <1>15, TallyNat
<1>17. Weight(box255'.list, X) + Tally(shipped', X) + Tally(gone', X)
       = Weight(packed, X) + Tally(shipped, X) + Tally(gone, X)
  <2>1. CASE runs
    <3>1. box255'.list = packed /\ shipped' = shipped BY <1>3, <2>1
    <3>2. gone' = gone
      <4>1. gone' = (gone \o <<>>) \o <<>> BY <1>0, <1>3, <1>10, <2>1 DEF NoBox
      <4> QED BY <4>1, <1>0
    <3> QED BY <3>1, <3>2, <1>12, <1>13
  <2>2. CASE ~runs
    <3>1. box255'.list = <<>> /\ shipped' = shipped \o Material(packed) BY <1>3, <2>2 DEF NoBox
    <3>2. gone' = gone \o LinesOf(packed)
      <4>1. gone' = (gone \o <<>>) \o LinesOf(packed) BY <1>0, <1>3, <1>10, <2>2 DEF NoBox
      <4>2. gone \o <<>> = gone BY <1>0
      <4> QED BY <4>1, <4>2
    <3>3. Tally(shipped', X) = Tally(shipped, X) + Tally(Material(packed), X)
      BY <1>0, <1>15, <3>1, TallyConcat
    <3>4. Tally(gone', X) = Tally(gone, X) + Tally(LinesOf(packed), X)
      BY <1>0, <1>15, <3>2, TallyConcat
    <3>5. Weight(packed, X) = Tally(Material(packed), X) + Tally(LinesOf(packed), X) BY DEF Weight
    <3>6. Weight(box255'.list, X) = 0 BY <3>1, <1>10
    <3> QED BY <3>3, <3>4, <3>5, <3>6, <1>13, <1>16
  <2> QED BY <2>1, <2>2
<1> DEFINE out1 == Weight(box255'.list, X) + Tally(shipped', X) + Tally(gone', X)
<1>18. Held(X)' = Weight(contribs', X) + Weight(left, X) + 0 + Weight(box255'.list, X)
                  + Tally(shipped', X) + Tally(gone', X) + Tally(Stored(filled), X)
  BY <1>3, <1>11 DEF Held
<1>19. /\ Weight(box255'.list, X) \in Nat /\ Tally(shipped', X) \in Nat /\ Tally(gone', X) \in Nat
  <2>1. box255'.list \in Seq(Node) /\ shipped' \in Seq(Piece) /\ gone' \in Seq(Piece)
    <3>1. box255'.list \in {packed, <<>>} BY <1>3 DEF NoBox
    <3>2. <<>> \in Seq(Node) /\ <<>> \in Seq(Piece) OBVIOUS
    <3>3. shipped' \in {shipped, shipped \o Material(packed)} BY <1>3
    <3>4. shipped \o Material(packed) \in Seq(Piece) BY <1>0, <1>15, PiecesConcat
    <3>5. gone' \in {(gone \o <<>>) \o <<>>, (gone \o <<>>) \o LinesOf(packed)}
      BY <1>0, <1>3, <1>10 DEF NoBox
    <3>6. gone \o <<>> = gone BY <1>0
    <3>7. gone \o LinesOf(packed) \in Seq(Piece) BY <1>0, <1>15, PiecesConcat
    <3> QED BY <3>1, <3>2, <3>3, <3>4, <3>5, <3>6, <3>7, <1>0, <1>2
  <2> QED BY <2>1, WeightNat, TallyNat
<1> DEFINE x1 == Weight(contribs', X)
           x2 == Weight(left, X)
           x3 == Weight(box255'.list, X)
           x4 == Tally(shipped', X)
           x5 == Tally(gone', X)
           x6 == Tally(Stored(filled), X)
           y1 == Weight(contribs, X)
           y2 == Weight(page, X)
           y4 == Tally(shipped, X)
           y5 == Tally(gone, X)
           y6 == Tally(Stored(boxes), X)
           z1 == Weight(part, X)
           z2 == Weight(after, X)
           z3 == Weight(packed, X)
<1>20. Held(X) = y1 + y2 + 0 + 0 + y4 + y5 + y6 BY <1>11 DEF Held
<1>21. Held(X)' = x1 + x2 + 0 + x3 + x4 + x5 + x6 BY <1>18
<1>22. /\ z1 + y6 = z3 + x2 + x6 /\ y2 = z1 + z2 /\ x1 = z2 + y1
       /\ x3 + x4 + x5 = z3 + y4 + y5
  BY <1>4, <1>7, <1>9, <1>17
<1>23. /\ x2 \in Nat /\ x3 \in Nat /\ x4 \in Nat /\ x5 \in Nat /\ x6 \in Nat /\ y1 \in Nat
       /\ y4 \in Nat /\ y5 \in Nat /\ y6 \in Nat /\ z1 \in Nat /\ z2 \in Nat /\ z3 \in Nat
  BY <1>12, <1>13, <1>14, <1>19
<1> HIDE DEF x1, x2, x3, x4, x5, x6, y1, y2, y4, y5, y6, z1, z2, z3
<1>24. x1 + x2 + 0 + x3 + x4 + x5 + x6 = y1 + y2 + 0 + 0 + y4 + y5 + y6
  BY <1>22, <1>23
<1> QED BY <1>3, <1>20, <1>21, <1>24

\* A node moved from the contributions to the page stays what it was.
LEMMA SettleConserves ==
  ASSUME TypeOK, Shape, contribs # <<>>, NEW m, NEW g, NEW b, NEW list, NEW X,
         Settle(m, g, b, list), list \in Seq(Node),
         Weight(list, X) = Weight(page, X) + Weight(<<Head(contribs)>>, X)
  PROVE  Held(X)' = Held(X) /\ material' = material /\ read' = read
<1> DEFINE n == <<Head(contribs)>>
           tail == Tail(contribs)
<1>1. /\ page' = list /\ contribs' = tail
      /\ UNCHANGED <<read, material, made, box255, boxes, shipped, gone>>
  BY DEF Settle, cycle, out
<1>2. n \in Seq(Node) /\ tail \in Seq(Node) /\ contribs = n \o tail
  BY HeadTail
<1>3. Weight(list, X) = Weight(page, X) + Weight(n, X) OBVIOUS
<1> HIDE DEF n, tail
<1>4. Weight(contribs, X) = Weight(n, X) + Weight(tail, X) BY <1>2, WeightConcat
<1>5. Weight(n, X) \in Nat /\ Weight(tail, X) \in Nat BY <1>2, WeightNat
<1> DEFINE rest == Weight(made, X) + Weight(box255.list, X)
           x1 == Weight(contribs, X)
           x2 == Weight(page, X)
           x3 == Weight(made, X)
           x4 == Weight(box255.list, X)
           x5 == Tally(shipped, X)
           x6 == Tally(gone, X)
           x7 == Tally(Stored(boxes), X)
           y1 == Weight(tail, X)
           y2 == Weight(list, X)
           z  == Weight(n, X)
<1>6. Held(X)' = y1 + y2 + x3 + x4 + x5 + x6 + x7 BY <1>1 DEF Held
<1>7. Held(X) = x1 + x2 + x3 + x4 + x5 + x6 + x7 BY DEF Held
<1>8. /\ x1 \in Nat /\ x2 \in Nat /\ x3 \in Nat /\ x4 \in Nat /\ x5 \in Nat /\ x6 \in Nat /\ x7 \in Nat
  BY HeldParts
<1>9. x1 = z + y1 /\ y2 = x2 + z /\ z \in Nat /\ y1 \in Nat BY <1>3, <1>4, <1>5
<1> HIDE DEF x1, x2, x3, x4, x5, x6, x7, y1, y2, z
<1>10. y1 + y2 + x3 + x4 + x5 + x6 + x7 = x1 + x2 + x3 + x4 + x5 + x6 + x7
  BY <1>8, <1>9
<1> QED BY <1>1, <1>6, <1>7, <1>10

\* A node more adds what it holds.
LEMMA WeightAppend ==
  ASSUME NEW list \in Seq(Node), NEW n \in Node, NEW X
  PROVE  Weight(Append(list, n), X) = Weight(list, X) + Weight(<<n>>, X)
<1> DEFINE one == <<n>>
<1>1. one \in Seq(Node) /\ Append(list, n) = list \o one OBVIOUS
<1> HIDE DEF one
<1>2. Weight(list \o one, X) = Weight(list, X) + Weight(one, X) BY <1>1, WeightConcat
<1> QED BY <1>1, <1>2 DEF one

\* A step that neither makes nor loses a piece of X, and reads no item.
Same(X) == Held(X)' = Held(X) /\ material' = material /\ read' = read

\* No step of the page builder, fire_up included, makes or loses a piece.
LEMMA BuilderConserves ==
  ASSUME TypeOK, Shape, NEW X
  PROVE  BuilderStep => Same(X)
<1>0. /\ page \in Seq(Node) /\ contribs \in Seq(Node) /\ MaxDepth \in Int /\ TopSkip \in Int
      /\ best \in [at : 0 .. Len(page), penalty : Int, size : Int, cost : Int]
  BY SizesAssumption DEF TypeOK
<1>h. contribs # <<>> => /\ Head(contribs) \in Node
                         /\ Append(page, Head(contribs)) \in Seq(Node)
                         /\ Weight(Append(page, Head(contribs)), X)
                            = Weight(page, X) + Weight(<<Head(contribs)>>, X)
  BY <1>0, HeadTail, WeightAppend
<1>1. ASSUME Carry PROVE Same(X)
  <2>1. contribs # <<>> /\ Settle(dims, goal, best, Append(page, Head(contribs)))
    BY <1>1 DEF Carry, Building
  <2> QED BY <2>1, <1>h, SettleConserves DEF Same
<1>2. ASSUME Discard PROVE Same(X)
  <2>1. contribs # <<>> /\ Settle(dims, goal, best, page) /\ Head(contribs).kind \in Discardable
    BY <1>2 DEF Discard, Building
  <2>2. Weight(<<Head(contribs)>>, X) = 0 BY <2>1, <1>h, WeightPlain DEF Discardable
  <2>3. Weight(page, X) \in Nat BY <1>0, WeightNat
  <2>4. Weight(page, X) = Weight(page, X) + Weight(<<Head(contribs)>>, X) BY <2>2, <2>3
  <2> QED BY <2>1, <2>4, <1>0, SettleConserves DEF Same
<1>3. ASSUME FirstBox PROVE Same(X)
  <2> DEFINE n     == Head(contribs)
             glue  == SkipTo(TopSkip, n)
             legal == Legal(page, glue, <<n>>)
             cost  == PageCost(StartDims, StartGoal, 0)
             b     == IF legal THEN Better(cost, InfinitePenalty, StartGoal) ELSE best
             start == Grown([StartDims EXCEPT !.total = 0], glue, MaxDepth)
             grown == Grown(start, n, MaxDepth)
             lg    == <<glue>>
             ln    == <<n>>
             list  == page \o <<glue, n>>
             fires == legal /\ cost = Awful
  <2>1. pc = "building" /\ contribs # <<>> /\ n.kind = "box" BY <1>3 DEF FirstBox, Building
  <2>2. n \in Node BY <2>1, HeadTail
  <2>4. glue \in Node /\ glue.kind = "glue"
    BY <1>0, <2>1, <2>2, SkipIsPlain, PlainIsNode DEF SkipTo, Glue
  <2>5. b.penalty \in Int
    <3>1. Better(cost, InfinitePenalty, StartGoal).penalty \in Int
      <4> HIDE DEF cost
      <4>1. Better(cost, InfinitePenalty, StartGoal).penalty \in {best.penalty, InfinitePenalty} BY DEF Better
      <4>2. best.penalty \in Int /\ InfinitePenalty \in Int BY <1>0 DEF InfinitePenalty
      <4> QED BY <4>1, <4>2
    <3> HIDE DEF cost, legal
    <3> QED BY <3>1, <1>0
  <2>9. IF fires THEN FireUp(page, b) ELSE Settle(grown, StartGoal, b, list)
    BY <1>3 DEF FirstBox
  <2>6. Weight(lg, X) = 0 BY <2>4, WeightPlain
  <2>7. lg \in Seq(Node) /\ ln \in Seq(Node) /\ list = page \o (lg \o ln) BY <2>2, <2>4
  <2> HIDE DEF lg, list, fires, b, grown, glue
  <2>8. lg \o ln \in Seq(Node) /\ Weight(lg \o ln, X) = Weight(lg, X) + Weight(ln, X)
    <3> HIDE DEF ln
    <3> QED BY <2>7, WeightConcat
  <2>10. list \in Seq(Node) /\ Weight(list, X) = Weight(page, X) + Weight(lg \o ln, X)
    <3> DEFINE both == lg \o ln
    <3>1. both \in Seq(Node) /\ list = page \o both BY <2>7, <2>8
    <3> HIDE DEF both
    <3>2. list \in Seq(Node) BY <3>1, <1>0
    <3>3. Weight(page \o both, X) = Weight(page, X) + Weight(both, X) BY <3>1, <1>0, WeightConcat
    <3> QED BY <3>1, <3>2, <3>3 DEF both
  <2>11. CASE fires
    <3>2. Len(page) \in 0 .. Len(page) /\ page = SubSeq(page, 1, Len(page)) BY <1>0
    <3>3. FireUp(page, b) BY <2>9, <2>11
    <3> QED BY <2>1, <2>5, <3>2, <3>3, FireUpConserves DEF Same
  <2>12. CASE ~fires
    <3>1. Settle(grown, StartGoal, b, list) BY <2>9, <2>12
    <3>2. Weight(ln, X) \in Nat BY <2>7, WeightNat
    <3>3. Weight(list, X) = Weight(page, X) + Weight(ln, X) BY <2>6, <2>8, <2>10, <3>2
    <3> QED BY <2>1, <2>10, <3>1, <3>3, SettleConserves DEF Same
  <2> QED BY <2>11, <2>12
<1>4. ASSUME Weigh PROVE Same(X)
  <2> DEFINE b == IF MayBreak THEN BestHere ELSE best
             grown == Grown(dims, Next1, MaxDepth)
  <2>1. contribs # <<>> /\ Settle(grown, goal, b, Append(page, Head(contribs)))
    BY <1>4 DEF Weigh, Building, Next1
  <2> HIDE DEF b, grown
  <2> QED BY <2>1, <1>h, SettleConserves DEF Same
<1>5. ASSUME BreakPage PROVE Same(X)
  <2>1. pc = "building" /\ contribs # <<>> BY <1>5 DEF BreakPage, Building
  <2> DEFINE b == BestHere
             part == SubSeq(page, 1, b.at)
  <2>2. FireUp(part, b) BY <1>5 DEF BreakPage
  <2>3. b \in [at : 0 .. Len(page), penalty : Int, size : Int, cost : Int]
    BY <2>1, HereTypes
  <2>4. b.at \in 0 .. Len(page) /\ b.penalty \in Int BY <2>3
  <2> HIDE DEF b
  <2> QED BY <2>1, <2>2, <2>4, FireUpConserves DEF Same
<1>6. ASSUME NEW record, NEW g, NEW cost, contribs # <<>>, TakeInsert(record, g, cost) PROVE Same(X)
  <2>1. Settle(StartDims, g, best, Append(page, Head(contribs)))
    BY <1>6 DEF TakeInsert, Next1
  <2> QED BY <1>6, <2>1, <1>h, SettleConserves DEF Same
<1>7. ASSUME PutOff \/ TakeWhole PROVE Same(X)
  <2>1. contribs # <<>> /\ \E record, g, cost : TakeInsert(record, g, cost)
    BY <1>7 DEF PutOff, TakeWhole, Building
  <2> QED BY <2>1, <1>6
<1>8. ASSUME TakePart PROVE Same(X)
  <2>1. contribs # <<>> /\ \E record, g, cost : TakeInsert(record, g, cost)
    BY <1>8 DEF TakePart, Building
  <2> QED BY <2>1, <1>6
<1>9. ASSUME Rest PROVE Same(X)
  BY <1>9 DEF Rest, Same, Held, lists, out
<1> QED BY <1>1, <1>2, <1>3, <1>4, <1>5, <1>7, <1>8, <1>9 DEF BuilderStep

\* What an output routine does with its page loses nothing either.
LEMMA ShippedConserves ==
  ASSUME TypeOK, Shape, NEW X, NEW ids \in Seq(Piece), NEW lost \in Seq(Piece), ShipOut(ids, lost),
         boxes' \in [Classes -> Seq(LineNode)],
         Weight(box255.list, X) + Tally(Stored(boxes), X)
         = Tally(ids, X) + Tally(lost, X) + Tally(Stored(boxes'), X)
  PROVE  Same(X)
<1>1. /\ shipped' = shipped \o ids /\ gone' = gone \o lost /\ box255' = NoBox
      /\ UNCHANGED <<read, material, contribs, page, made>>
  BY DEF ShipOut, lists
<1>2. shipped \in Seq(Piece) /\ gone \in Seq(Piece) BY DEF Shape
<1>3. Tally(shipped', X) = Tally(shipped, X) + Tally(ids, X)
      /\ Tally(gone', X) = Tally(gone, X) + Tally(lost, X)
  BY <1>1, <1>2, TallyConcat
<1>4. Tally(ids, X) \in Nat /\ Tally(lost, X) \in Nat BY TallyNat
<1>5. Tally(Stored(boxes'), X) \in Nat
  <2>1. Stored(boxes') \in Seq(LinePiece) BY StoredIs
  <2> QED BY <2>1, TallyNat
<1> DEFINE x1 == Weight(contribs, X)
           x2 == Weight(page, X)
           x3 == Weight(made, X)
           x4 == Weight(box255.list, X)
           x5 == Tally(shipped, X)
           x6 == Tally(gone, X)
           x7 == Tally(Stored(boxes), X)
           y5 == Tally(shipped', X)
           y6 == Tally(gone', X)
           y7 == Tally(Stored(boxes'), X)
           z5 == Tally(ids, X)
           z6 == Tally(lost, X)
<1>6. Held(X)' = x1 + x2 + x3 + 0 + y5 + y6 + y7 BY <1>1, WeightEmpty DEF Held, NoBox
<1>7. Held(X) = x1 + x2 + x3 + x4 + x5 + x6 + x7 BY DEF Held
<1>8. /\ x1 \in Nat /\ x2 \in Nat /\ x3 \in Nat /\ x4 \in Nat /\ x5 \in Nat /\ x6 \in Nat /\ x7 \in Nat
      /\ z5 \in Nat /\ z6 \in Nat /\ y7 \in Nat
  BY <1>4, <1>5, HeldParts
<1>9. y5 = x5 + z5 /\ y6 = x6 + z6 /\ x4 + x7 = z5 + z6 + y7 BY <1>3
<1> HIDE DEF x1, x2, x3, x4, x5, x6, x7, y5, y6, y7, z5, z6
<1>10. x1 + x2 + x3 + 0 + y5 + y6 + y7 = x1 + x2 + x3 + x4 + x5 + x6 + x7 BY <1>8, <1>9
<1> QED BY <1>1, <1>6, <1>7, <1>10 DEF Same

\* Empty class boxes hold nothing.
LEMMA EmptyBoxes ==
  ASSUME NEW X
  PROVE  Tally(Stored([c \in Classes |-> <<>>]), X) = 0
<1> DEFINE bx == [c \in Classes |-> <<>>]
           k  == SetToSeq(Classes)
<1>1. bx \in [Classes -> Seq(LineNode)] OBVIOUS
<1>2. Maps(StoreOn(bx), Classes, Seq({}))
  <2>1. \A c \in Classes : Material(bx[c]) = <<>> BY MaterialEmpty
  <2>2. <<>> \in Seq({}) OBVIOUS
  <2> QED BY <2>1, <2>2 DEF Maps, StoreOn
<1>3. k \in Seq(Classes) /\ Stored(bx) = Spread(StoreOn(bx), k) BY <1>1, StoredIs
<1> HIDE DEF bx, k
<1>4. Spread(StoreOn(bx), k) \in Seq({}) BY <1>2, <1>3, SpreadType
<1>5. Stored(bx) = <<>> BY <1>3, <1>4
<1> QED BY <1>5, TallyEmpty DEF bx

\* No step of the output routine does.
LEMMA RoutineConserves ==
  ASSUME TypeOK, Shape, NEW X
  PROVE  RoutineStep => Same(X)
<1> DEFINE box == box255.list
           text == Material(box)
           lines == LinesOf(box)
           store == Stored(boxes)
<1>0. /\ box \in Seq(Node) /\ boxes \in [Classes -> Seq(LineNode)]
      /\ gone \in Seq(Piece) /\ page \in Seq(Node) /\ made \in Seq(Node) /\ contribs \in Seq(Node)
  BY DEF TypeOK, Shape
<1>1. text \in Seq(Piece) /\ lines \in Seq(Piece) /\ store \in Seq(Piece)
  BY <1>0, MaterialType, LinesOfType, PiecesConcat, StoredIs
<1>2. Weight(box, X) = Tally(text, X) + Tally(lines, X) BY DEF Weight
<1>3. Tally(text, X) \in Nat /\ Tally(lines, X) \in Nat /\ Tally(store, X) \in Nat BY <1>1, TallyNat
<1> HIDE DEF text, lines, store
<1>4. ASSUME ShipBare PROVE Same(X)
  <2>1. ShipOut(text, lines) /\ boxes' = boxes BY <1>4 DEF ShipBare, text, lines
  <2>2. Weight(box, X) + Tally(store, X) = Tally(text, X) + Tally(lines, X) + Tally(store, X)
    BY <1>2, <1>3
  <2>3. Weight(box255.list, X) + Tally(Stored(boxes), X)
        = Tally(text, X) + Tally(lines, X) + Tally(Stored(boxes'), X)
    BY <2>1, <2>2 DEF store
  <2> QED BY <1>0, <1>1, <2>1, <2>3, ShippedConserves
<1>5. ASSUME ShipWhole PROVE Same(X)
  <2>1. ShipOut(text \o store, lines) /\ boxes' = [c \in Classes |-> <<>>]
    BY <1>5 DEF ShipWhole, text, lines, store, Stored
  <2>2. text \o store \in Seq(Piece) /\ Tally(text \o store, X) = Tally(text, X) + Tally(store, X)
    BY <1>1, PiecesConcat, TallyConcat
  <2>3. boxes' \in [Classes -> Seq(LineNode)] BY <2>1
  <2>4. Tally(Stored(boxes'), X) = 0 BY <2>1, EmptyBoxes
  <2>5. Weight(box, X) + Tally(store, X)
        = Tally(text \o store, X) + Tally(lines, X) + Tally(Stored(boxes'), X)
    BY <1>2, <1>3, <2>2, <2>4
  <2>6. Weight(box255.list, X) + Tally(Stored(boxes), X)
        = Tally(text \o store, X) + Tally(lines, X) + Tally(Stored(boxes'), X)
    BY <2>5 DEF store
  <2> QED BY <1>1, <2>1, <2>2, <2>3, <2>6, ShippedConserves
<1>6. ASSUME LetInsertsGo PROVE Same(X)
  BY <1>6 DEF LetInsertsGo, Same, Held, lists, out
<1>7. ASSUME NEW again \in BOOLEAN, Unbox(again) PROVE Same(X)
  <2> DEFINE more == IF again THEN <<Penalty(outPenalty)>> ELSE <<>>
  <2>1. /\ made' = made \o box \o more /\ box255' = NoBox
        /\ UNCHANGED <<read, material, contribs, page, boxes, shipped, gone>>
    BY <1>7 DEF Unbox
  <2>2. more \in Seq(Node) /\ Weight(more, X) = 0
    <3>1. outPenalty \in Int BY DEF TypeOK
    <3>0. <<>> \in Seq(Node) OBVIOUS
    <3>2. Penalty(outPenalty) \in Node BY <3>0, <3>1, SpentType
    <3>3. Penalty(outPenalty).kind = "penalty" BY DEF Penalty
    <3>4. Weight(<<Penalty(outPenalty)>>, X) = 0 BY <3>2, <3>3, WeightPlain
    <3> QED BY <3>2, <3>4, WeightEmpty
  <2> HIDE DEF more, box
  <2>3. made \o box \in Seq(Node) /\ Weight(made \o box, X) = Weight(made, X) + Weight(box, X)
    BY <1>0, WeightConcat
  <2>4. Weight(made', X) = Weight(made \o box, X) + Weight(more, X) BY <2>1, <2>2, <2>3, WeightConcat
  <2> DEFINE x1 == Weight(contribs, X)
             x2 == Weight(page, X)
             x3 == Weight(made, X)
             x4 == Weight(box255.list, X)
             x5 == Tally(shipped, X)
             x6 == Tally(gone, X)
             x7 == Tally(Stored(boxes), X)
             y3 == Weight(made', X)
  <2>5. Held(X)' = x1 + x2 + y3 + 0 + x5 + x6 + x7 BY <2>1, WeightEmpty DEF Held, NoBox
  <2>6. Held(X) = x1 + x2 + x3 + x4 + x5 + x6 + x7 BY DEF Held
  <2>7. /\ x1 \in Nat /\ x2 \in Nat /\ x3 \in Nat /\ x4 \in Nat /\ x5 \in Nat /\ x6 \in Nat /\ x7 \in Nat
    BY HeldParts
  <2>8. y3 = x3 + x4
    <3>1. y3 = (x3 + x4) + 0 BY <2>2, <2>3, <2>4 DEF box
    <3> QED BY <3>1, <2>7
  <2> HIDE DEF x1, x2, x3, x4, x5, x6, x7, y3
  <2>9. x1 + x2 + y3 + 0 + x5 + x6 + x7 = x1 + x2 + x3 + x4 + x5 + x6 + x7 BY <2>7, <2>8
  <2> QED BY <2>1, <2>5, <2>6, <2>9 DEF Same
<1>8. ASSUME EndRoutine PROVE Same(X)
  <2>1. /\ contribs' = page \o made \o contribs
        /\ page' = <<>> /\ made' = <<>> /\ gone' = gone \o text \o lines /\ box255' = NoBox
        /\ UNCHANGED <<read, material, boxes, shipped>>
    BY <1>8 DEF EndRoutine, text, lines
  <2>2. page \o made \in Seq(Node) /\ Weight(page \o made, X) = Weight(page, X) + Weight(made, X)
    BY <1>0, WeightConcat
  <2>3. Weight(contribs', X) = Weight(page \o made, X) + Weight(contribs, X)
    BY <1>0, <2>1, <2>2, WeightConcat
  <2>4. gone \o text \in Seq(Piece) /\ Tally(gone \o text, X) = Tally(gone, X) + Tally(text, X)
    BY <1>0, <1>1, PiecesConcat, TallyConcat
  <2>5. Tally(gone', X) = Tally(gone \o text, X) + Tally(lines, X)
    <3> DEFINE gt == gone \o text
    <3>1. gt \in Seq(Piece) /\ lines \in Seq(Piece) /\ gone' = gt \o lines BY <1>1, <2>1, <2>4
    <3> HIDE DEF gt
    <3>2. Tally(gt \o lines, X) = Tally(gt, X) + Tally(lines, X) BY <3>1, TallyConcat
    <3> QED BY <3>1, <3>2 DEF gt
  <2> DEFINE x1 == Weight(contribs, X)
             x2 == Weight(page, X)
             x3 == Weight(made, X)
             x4 == Weight(box255.list, X)
             x5 == Tally(shipped, X)
             x6 == Tally(gone, X)
             x7 == Tally(Stored(boxes), X)
             y1 == Weight(contribs', X)
             y6 == Tally(gone', X)
             z1 == Tally(text, X)
             z2 == Tally(lines, X)
  <2>6. Held(X)' = y1 + 0 + 0 + 0 + x5 + y6 + x7 BY <2>1, WeightEmpty DEF Held, NoBox
  <2>7. Held(X) = x1 + x2 + x3 + x4 + x5 + x6 + x7 BY DEF Held
  <2>8. /\ x1 \in Nat /\ x2 \in Nat /\ x3 \in Nat /\ x4 \in Nat /\ x5 \in Nat /\ x6 \in Nat /\ x7 \in Nat
        /\ z1 \in Nat /\ z2 \in Nat
    BY HeldParts, <1>3
  <2>9. y1 = (x2 + x3) + x1 /\ y6 = (x6 + z1) + z2 /\ x4 = z1 + z2 BY <2>2, <2>3, <2>4, <2>5, <1>2
  <2> HIDE DEF x1, x2, x3, x4, x5, x6, x7, y1, y6, z1, z2
  <2>10. y1 + 0 + 0 + 0 + x5 + y6 + x7 = x1 + x2 + x3 + x4 + x5 + x6 + x7 BY <2>8, <2>9
  <2> QED BY <2>1, <2>6, <2>7, <2>10 DEF Same
<1> QED BY <1>4, <1>5, <1>6, <1>7, <1>8 DEF RoutineStep

\* Nor does the document, but for what it contributes.
LEMMA DocumentConserves ==
  ASSUME TypeOK, Shape, NEW X
  PROVE  /\ End \/ EjectLastPages \/ Paragraph => Same(X)
         /\ \A x \in Items : Contribute(x) =>
               /\ Held(X)' = Held(X) + Weight(<<Numbered(x, read + 1)>>, X)
               /\ material' = material + Len(Material(<<Numbered(x, read + 1)>>)
                                             \o LinesOf(<<Numbered(x, read + 1)>>))
               /\ read' = read + 1
<1>0. contribs \in Seq(Node) BY DEF TypeOK
<1>1. ASSUME End \/ Paragraph PROVE Same(X)
  BY <1>1 DEF End, Paragraph, Same, Held, lists, out
<1>2. ASSUME EjectLastPages PROVE Same(X)
  <2> DEFINE a == Box(0, 0, 0)
             b == Glue(0, 0, TRUE, 0)
             c == Penalty(Eject)
             d == Append(contribs, a)
             e == Append(d, b)
  <2>1. contribs' = contribs \o <<a, b, c>>
        /\ UNCHANGED <<read, material, page, made, box255, boxes, shipped, gone>>
    BY <1>2 DEF EjectLastPages, out
  <2>2. a \in Node BY DEF Node
  <2>3. b \in Plain BY DEF Glue, Plain
  <2>4. c \in Plain
    <3>1. Eject \in Int BY DEF Eject
    <3> QED BY <3>1 DEF Penalty, Plain
  <2>5. b \in Node /\ c \in Node /\ b.kind = "glue" /\ c.kind = "penalty"
    BY <2>3, <2>4, PlainIsNode DEF Glue, Penalty
  <2>6. Weight(<<a>>, X) = 0 /\ Weight(<<b>>, X) = 0 /\ Weight(<<c>>, X) = 0
    BY <2>2, <2>5, WeightPlain
  <2>7. contribs' = Append(e, c)
    <3> HIDE DEF a, b, c
    <3> QED BY <1>0, <2>1, <2>2, <2>5
  <2> HIDE DEF a, b, c
  <2>8. d \in Seq(Node) /\ Weight(d, X) = Weight(contribs, X) + Weight(<<a>>, X)
    BY <1>0, <2>2, WeightAppend
  <2> HIDE DEF d
  <2>9. e \in Seq(Node) /\ Weight(e, X) = Weight(d, X) + Weight(<<b>>, X)
    BY <2>5, <2>8, WeightAppend
  <2> HIDE DEF e
  <2>10. Weight(Append(e, c), X) = Weight(e, X) + Weight(<<c>>, X)
    BY <2>5, <2>9, WeightAppend
  <2>11. Weight(contribs, X) \in Nat BY <1>0, WeightNat
  <2>12. Weight(contribs', X) = Weight(contribs, X)
    <3>1. Weight(contribs', X) = ((Weight(contribs, X) + 0) + 0) + 0 BY <2>6, <2>7, <2>8, <2>9, <2>10
    <3> QED BY <2>11, <3>1
  <2> QED BY <2>1, <2>12 DEF Same, Held
<1>3. ASSUME NEW x \in Items, Contribute(x)
      PROVE  /\ Held(X)' = Held(X) + Weight(<<Numbered(x, read + 1)>>, X)
             /\ material' = material + Len(Material(<<Numbered(x, read + 1)>>)
                                           \o LinesOf(<<Numbered(x, read + 1)>>))
             /\ read' = read + 1
  <2> DEFINE n == Numbered(x, read + 1)
  <2>1. /\ contribs' = Append(contribs, n)
        /\ material' = material + Len(Material(<<n>>) \o LinesOf(<<n>>))
        /\ read' = read + 1
        /\ UNCHANGED <<page, made, box255, boxes, shipped, gone>>
    BY <1>3 DEF Contribute, out
  <2>2. read + 1 \in Nat \ {0} BY BoundAssumption DEF TypeOK
  <2>3. n \in Node BY <2>2, NumberedType
  <2>o. <<n>> \in Seq(Node) BY <2>3
  <2> HIDE DEF n
  <2>4. Weight(contribs', X) = Weight(contribs, X) + Weight(<<n>>, X)
    BY <1>0, <2>1, <2>3, WeightAppend
  <2> DEFINE x1 == Weight(contribs, X)
             x2 == Weight(page, X)
             x3 == Weight(made, X)
             x4 == Weight(box255.list, X)
             x5 == Tally(shipped, X)
             x6 == Tally(gone, X)
             x7 == Tally(Stored(boxes), X)
             y1 == Weight(contribs', X)
             z  == Weight(<<n>>, X)
  <2>5. Held(X)' = y1 + x2 + x3 + x4 + x5 + x6 + x7 BY <2>1 DEF Held
  <2>6. Held(X) = x1 + x2 + x3 + x4 + x5 + x6 + x7 BY DEF Held
  <2>7. /\ x1 \in Nat /\ x2 \in Nat /\ x3 \in Nat /\ x4 \in Nat /\ x5 \in Nat /\ x6 \in Nat /\ x7 \in Nat
    BY HeldParts
  <2>8. z \in Nat /\ y1 = x1 + z BY <2>o, <2>4, WeightNat
  <2> HIDE DEF x1, x2, x3, x4, x5, x6, x7, y1, z
  <2>9. y1 + x2 + x3 + x4 + x5 + x6 + x7 = (x1 + x2 + x3 + x4 + x5 + x6 + x7) + z BY <2>7, <2>8
  <2> QED BY <2>1, <2>5, <2>6, <2>9 DEF z, n
<1> QED BY <1>1, <1>2, <1>3

------------------------------------------------------------------------------
(* Every piece of what the document contributes is there once. *)

\* The pieces with one name: the number of the item and that of the line in it.
At(k, l) == {n \in Piece : n.id = k /\ n.line = l}

\* As many pieces as were contributed, no two of them with one name, and none
\* with the number of an item that is still to come.
Kept ==
  /\ Held(Piece) = material
  /\ \A k, l \in Nat : Held(At(k, l)) <= 1
  /\ \A k, l \in Nat : k > read => Held(At(k, l)) = 0

\* A list with no element in X holds none of X.
LEMMA TallyNone ==
  ASSUME NEW S, NEW s \in Seq(S), NEW X, \A i \in 1 .. Len(s) : s[i] \notin X
  PROVE  Tally(s, X) = 0
<1>1. {i \in DOMAIN s : s[i] \in X} = {} OBVIOUS
<1> QED BY <1>1, FS_EmptySet DEF Tally

\* A list that meets X in one place at most holds one of X at most.
LEMMA TallyOnce ==
  ASSUME NEW S, NEW s \in Seq(S), NEW X, NEW j, \A i \in 1 .. Len(s) : s[i] \in X => i = j
  PROVE  Tally(s, X) <= 1
<1> DEFINE I == {i \in DOMAIN s : s[i] \in X}
<1>1. I \subseteq {j} OBVIOUS
<1>2. IsFiniteSet({j}) /\ Cardinality({j}) = 1 BY FS_Singleton
<1> HIDE DEF I
<1>3. Cardinality(I) <= Cardinality({j}) BY <1>1, <1>2, FS_Subset
<1> QED BY <1>2, <1>3 DEF Tally, I

\* What one item adds: at most one piece of each name, with its own number.
LEMMA ItemWeight ==
  ASSUME NEW x \in Items, NEW r \in Nat
  PROVE  LET n == <<Numbered(x, r + 1)>>
         IN  /\ \A k, l \in Nat : Weight(n, At(k, l)) <= 1
             /\ \A k, l \in Nat : k # r + 1 => Weight(n, At(k, l)) = 0
             /\ Weight(n, Piece) = Len(Material(n) \o LinesOf(n))
<1> DEFINE m == Numbered(x, r + 1)
           n == <<m>>
<1>0. r + 1 \in Nat \ {0} OBVIOUS
<1>1. m \in Node BY <1>0, NumberedType
<1>2. n \in Seq(Node) BY <1>1
<1>3. /\ Material(n) = IF m.kind \in {"box", "mark"} /\ m.id # 0 THEN <<m>> ELSE <<>>
      /\ LinesOf(n) = IF m.kind = "insert" THEN Material(m.list) ELSE <<>>
  BY <1>1, MaterialOne
<1>4. /\ Material(n) \in Seq(Piece) /\ LinesOf(n) \in Seq(Piece)
  BY <1>2, MaterialType, LinesOfType, PiecesConcat
<1>5. Weight(n, Piece) = Len(Material(n) \o LinesOf(n))
  <2>1. Tally(Material(n) \o LinesOf(n), Piece) = Tally(Material(n), Piece) + Tally(LinesOf(n), Piece)
    BY <1>4, TallyConcat
  <2>2. Material(n) \o LinesOf(n) \in Seq(Piece) BY <1>4, PiecesConcat
  <2>3. Tally(Material(n) \o LinesOf(n), Piece) = Len(Material(n) \o LinesOf(n))
    BY <2>2, TallyAll
  <2> QED BY <2>1, <2>3 DEF Weight
<1>6. ASSUME NEW k \in Nat, NEW l \in Nat
      PROVE  Weight(n, At(k, l)) <= 1 /\ (k # r + 1 => Weight(n, At(k, l)) = 0)
  <2> DEFINE X == At(k, l)
  <2>1. CASE m.kind \in {"box", "mark"}
    <3>1. m.id = r + 1
      <4>1. CASE x.kind \in {"box", "mark"}
        <5>1. m = [x EXCEPT !.id = r + 1] BY <4>1 DEF Numbered
        <5>2. x \in Pieces({0}, {0}) BY <4>1, ItemsAssumption
        <5> QED BY <4>1, <5>1, <5>2 DEF Pieces, Plain
      <4>2. CASE x.kind = "insert"
        <5>1. x \notin Pieces({0}, {0}) BY <4>2 DEF Pieces, Plain
        <5>2. x = Insert(x.class, x.list) BY <5>1, ItemsAssumption
        <5> DEFINE h == Size(x.list)
        <5>3. x = [kind |-> "insert", class |-> x.class, list |-> x.list, height |-> h]
          BY <5>2 DEF Insert
        <5> HIDE DEF h
        <5>4. m.kind = "insert" BY <4>2, <5>3 DEF Numbered
        <5> QED BY <2>1, <5>4
      <4>3. CASE x.kind \notin {"box", "mark", "insert"}
        <5>1. m = x BY <4>3 DEF Numbered
        <5> QED BY <2>1, <4>3, <5>1
      <4> QED BY <4>1, <4>2, <4>3
    <3>2. Material(n) = n /\ LinesOf(n) = <<>> BY <1>0, <1>3, <2>1, <3>1
    <3>3. Weight(n, X) = (IF m \in X THEN 1 ELSE 0) + 0 BY <3>2, TallyOne, TallyEmpty DEF Weight
    <3>4. m \in X => k = r + 1 BY <3>1 DEF At
    <3> HIDE DEF X, m
    <3>5. Weight(n, X) <= 1 /\ (k # r + 1 => Weight(n, X) = 0) BY <3>3, <3>4
    <3> QED BY <3>5 DEF X
  <2>2. CASE m.kind = "insert"
    <3> DEFINE L == m.list
    <3>1. L \in Seq(LineNode) BY <1>1, <2>2, NodeFacts
    <3>2. \A j \in 1 .. Len(L) : L[j].kind \in {"box", "mark"} => L[j].id = r + 1 /\ L[j].line = j
      <4>1. x.kind = "insert"
        <5>1. CASE x.kind \in {"box", "mark"}
          <6>1. m = [x EXCEPT !.id = r + 1] BY <5>1 DEF Numbered
          <6>2. x \in Pieces({0}, {0}) BY <5>1, ItemsAssumption
          <6>3. m.kind = x.kind BY <5>1, <6>1, <6>2 DEF Pieces, Plain
          <6> QED BY <2>2, <5>1, <6>3
        <5>2. CASE x.kind \notin {"box", "mark", "insert"}
          BY <2>2, <5>2 DEF Numbered
        <5> QED BY <5>1, <5>2
      <4>2. x \notin Pieces({0}, {0}) BY <4>1 DEF Pieces, Plain
      <4>3. x.list \in Seq(Pieces({0}, {0})) /\ x = Insert(x.class, x.list) BY <4>2, ItemsAssumption
      <4> DEFINE N == Pieces({0}, {0})
                 h == Size(x.list)
                 y(j) == IF x.list[j].kind \in {"box", "mark"}
                         THEN [x.list[j] EXCEPT !.id = r + 1, !.line = j] ELSE x.list[j]
                 M == [j \in DOMAIN x.list |-> y(j)]
      <4>4. m = [x EXCEPT !.list = M] BY <4>1 DEF Numbered
      <4>5. x = [kind |-> "insert", class |-> x.class, list |-> x.list, height |-> h]
        BY <4>3 DEF Insert
      <4>6. L = M
        <5> HIDE DEF M, h
        <5> QED BY <4>4, <4>5
      <4>7. Len(L) = Len(x.list) /\ \A j \in 1 .. Len(L) : L[j] = y(j) /\ x.list[j] \in N
        <5>1. DOMAIN x.list = 1 .. Len(x.list) /\ Len(x.list) \in Nat /\ \A j \in 1 .. Len(x.list) : x.list[j] \in N
          BY <4>3
        <5> HIDE DEF y, N, L
        <5>2. DOMAIN L = 1 .. Len(x.list) BY <4>6, <5>1
        <5>3. L \in Seq(LineNode) BY <3>1 DEF L
        <5>4. Len(L) = Len(x.list) BY <5>1, <5>2, <5>3
        <5> QED BY <4>6, <5>1, <5>4
      <4> HIDE DEF L
      <4>8. ASSUME NEW j \in 1 .. Len(L), L[j].kind \in {"box", "mark"}
            PROVE  L[j].id = r + 1 /\ L[j].line = j
        <5>1. L[j] = y(j) /\ x.list[j] \in N BY <4>7
        <5>2. CASE x.list[j].kind \in {"box", "mark"}
          BY <5>1, <5>2 DEF Pieces, Plain
        <5>3. CASE x.list[j].kind \notin {"box", "mark"}
          <6>1. L[j] = x.list[j] BY <5>1, <5>3
          <6> QED BY <4>8, <5>3, <6>1
        <5> QED BY <5>2, <5>3
      <4> QED BY <4>8 DEF L
    <3>3. Material(n) = <<>> /\ LinesOf(n) = Material(L) BY <1>3, <2>2
    <3>4. Weight(n, X) = 0 + Tally(Material(L), X) BY <3>3, TallyEmpty DEF Weight
    <3> DEFINE g == MatOn(LineNode)
    <3> HIDE DEF L
    <3>5. CountsOne(g, LineNode, X)
      <4>1. ASSUME NEW z \in LineNode PROVE Tally(g[z], X) = IF z \in X THEN 1 ELSE 0
        <5>1. CASE z.kind \in {"box", "mark"}
          <6>1. g[z] = <<z>> BY <5>1, LineFacts DEF MatOn
          <6> QED BY <6>1, TallyOne
        <5>2. CASE z.kind \notin {"box", "mark"}
          <6>1. g[z] = <<>> BY <5>2 DEF MatOn
          <6>2. z \notin X BY <5>2 DEF At, Piece, TextPiece, LinePiece
          <6> QED BY <6>1, <6>2, TallyEmpty
        <5> QED BY <5>1, <5>2
      <4> QED BY <4>1 DEF CountsOne
    <3>6. Maps(g, LineNode, Seq(LinePiece)) /\ Material(L) = Spread(g, L) BY <3>1, MatMaps, MaterialIs
    <3> HIDE DEF X, g
    <3>7. Tally(Material(L), X) = Tally(L, X) BY <3>1, <3>5, <3>6, TallySpread
    <3>8. Tally(L, X) \in Nat BY <3>1, TallyNat
    <3>9. \A j \in 1 .. Len(L) : L[j] \in X => j = l /\ k = r + 1
      BY <3>2 DEF X, At, Piece, TextPiece, LinePiece
    <3>12. \A j \in 1 .. Len(L) : L[j] \in X => j = l BY <3>9
    <3>10. Tally(L, X) <= 1 BY <3>1, <3>12, TallyOnce
    <3>11. k # r + 1 => Tally(L, X) = 0
      <4>1. k # r + 1 => \A j \in 1 .. Len(L) : L[j] \notin X BY <3>9
      <4> QED BY <3>1, <4>1, TallyNone
    <3> QED BY <3>4, <3>7, <3>8, <3>10, <3>11 DEF X
  <2>3. CASE m.kind \notin {"box", "mark", "insert"}
    <3>1. Weight(n, X) = 0
      <4> HIDE DEF m, X
      <4> QED BY <1>1, <2>3, WeightPlain
    <3> QED BY <3>1
  <2> QED BY <2>1, <2>2, <2>3
<1> QED BY <1>5, <1>6
\* Nothing is held at the start;
LEMMA KeptInit == Init => Kept
<1> SUFFICES ASSUME Init PROVE Kept
  OBVIOUS
<1> DEFINE bx == [c \in Classes |-> <<>>]
<1>1. /\ contribs = <<>> /\ page = <<>> /\ made = <<>> /\ box255.list = <<>> /\ shipped = <<>>
      /\ gone = <<>> /\ boxes = bx /\ material = 0
  BY DEF Init, NoBox
<1> HIDE DEF bx
<1>2. ASSUME NEW X PROVE Held(X) = 0
  <2>1. Weight(<<>>, X) = 0 /\ Tally(<<>>, X) = 0 BY WeightEmpty, TallyEmpty
  <2>2. Tally(Stored(bx), X) = 0 BY EmptyBoxes DEF bx
  <2>3. Held(X) = Weight(<<>>, X) + Weight(<<>>, X) + Weight(<<>>, X) + Weight(<<>>, X)
                  + Tally(<<>>, X) + Tally(<<>>, X) + Tally(Stored(bx), X)
    BY <1>1 DEF Held
  <2> QED BY <2>1, <2>2, <2>3
<1>3. Held(Piece) = 0 BY <1>2
<1>4. \A k, l \in Nat : Held(At(k, l)) = 0 BY <1>2
<1>5. \A k, l \in Nat : Held(At(k, l)) <= 1
  <2>1. 0 <= 1 OBVIOUS
  <2> QED BY <1>4, <2>1
<1>6. \A k, l \in Nat : k > read => Held(At(k, l)) = 0 BY <1>4
<1>7. Held(Piece) = material BY <1>1, <1>3
<1> QED BY <1>5, <1>6, <1>7 DEF Kept

\* What is held is a number;
LEMMA HeldNat ==
  ASSUME TypeOK, Shape, NEW X
  PROVE  Held(X) \in Nat
<1> DEFINE x1 == Weight(contribs, X)
           x2 == Weight(page, X)
           x3 == Weight(made, X)
           x4 == Weight(box255.list, X)
           x5 == Tally(shipped, X)
           x6 == Tally(gone, X)
           x7 == Tally(Stored(boxes), X)
<1>1. /\ x1 \in Nat /\ x2 \in Nat /\ x3 \in Nat /\ x4 \in Nat /\ x5 \in Nat /\ x6 \in Nat /\ x7 \in Nat
  BY HeldParts
<1>2. Held(X) = x1 + x2 + x3 + x4 + x5 + x6 + x7 BY DEF Held
<1> HIDE DEF x1, x2, x3, x4, x5, x6, x7
<1> QED BY <1>1, <1>2

\* and every step keeps the account: an item adds pieces with a name nobody has,
\* every other step adds none.
LEMMA KeptStep == TypeOK /\ Shape /\ Kept /\ [Next]_vars => Kept'
<1> SUFFICES ASSUME TypeOK, Shape, Kept, [Next]_vars PROVE Kept'
  OBVIOUS
<1>0. read \in Nat BY BoundAssumption DEF TypeOK
<1>1. ASSUME \A X : Same(X) PROVE Kept'
  <2>1. Held(Piece)' = Held(Piece) /\ material' = material /\ read' = read BY <1>1 DEF Same
  <2>2. \A k, l \in Nat : Held(At(k, l))' = Held(At(k, l)) BY <1>1 DEF Same
  <2> QED BY <2>1, <2>2 DEF Kept
<1>2. CASE BuilderStep \/ RoutineStep \/ End \/ EjectLastPages \/ Paragraph
  <2>1. ASSUME NEW X PROVE Same(X) BY <1>2, BuilderConserves, RoutineConserves, DocumentConserves
  <2> QED BY <1>1, <2>1
<1>3. CASE UNCHANGED vars
  <2>1. ASSUME NEW X PROVE Same(X) BY <1>3 DEF vars, lists, out, Same, Held
  <2> QED BY <1>1, <2>1
<1>4. ASSUME NEW x \in Items, Contribute(x) PROVE Kept'
  <2> DEFINE n == <<Numbered(x, read + 1)>>
  <2>1. ASSUME NEW X PROVE Held(X)' = Held(X) + Weight(n, X) BY <1>4, DocumentConserves
  <2>2. material' = material + Len(Material(n) \o LinesOf(n)) /\ read' = read + 1
    BY <1>4, DocumentConserves
  <2>3. /\ \A k, l \in Nat : Weight(n, At(k, l)) <= 1
        /\ \A k, l \in Nat : k # read + 1 => Weight(n, At(k, l)) = 0
        /\ Weight(n, Piece) = Len(Material(n) \o LinesOf(n))
    BY <1>0, ItemWeight
  <2>4. n \in Seq(Node)
    <3>1. read + 1 \in Nat \ {0} BY <1>0
    <3>2. Numbered(x, read + 1) \in Node BY <3>1, NumberedType
    <3> QED BY <3>2
  <2> DEFINE len == Len(Material(n) \o LinesOf(n))
  <2> HIDE DEF n, len
  <2>5. Held(Piece)' = material' BY <2>1, <2>2, <2>3 DEF Kept, len
  <2>6. ASSUME NEW k \in Nat, NEW l \in Nat
        PROVE  Held(At(k, l))' <= 1 /\ (k > read' => Held(At(k, l))' = 0)
    <3> DEFINE X == At(k, l)
               old == Held(X)
               add == Weight(n, X)
    <3>1. Held(X)' = old + add BY <2>1
    <3>2. old \in Nat BY HeldNat
    <3>3. add \in Nat BY <2>4, WeightNat
    <3>4. old <= 1 /\ (k > read => old = 0) BY DEF Kept
    <3>5. add <= 1 /\ (k # read + 1 => add = 0) BY <2>3
    <3> HIDE DEF old, add
    <3>6. old + add <= 1 /\ (k > read + 1 => old + add = 0) BY <3>2, <3>3, <3>4, <3>5, <1>0
    <3> QED BY <3>1, <3>6, <2>2
  <2> QED BY <2>5, <2>6 DEF Kept
<1> QED BY <1>2, <1>3, <1>4 DEF Next
\* Everything there is, in one list.
LEMMA EverythingIs ==
  ASSUME TypeOK, Shape
  PROVE  Everything \in Seq(Piece) /\ \A X : Tally(Everything, X) = Held(X)
<1> DEFINE w(list) == Material(list) \o LinesOf(list)
           a == w(contribs)
           b == w(page)
           c == w(made)
           d == w(box255.list)
           k == SetToSeq(Classes)
           s == FlattenSeq([i \in DOMAIN k |-> w(boxes[k[i]])])
<1>1. /\ contribs \in Seq(Node) /\ page \in Seq(Node) /\ made \in Seq(Node) /\ box255.list \in Seq(Node)
      /\ shipped \in Seq(Piece) /\ gone \in Seq(Piece) /\ boxes \in [Classes -> Seq(LineNode)]
  BY DEF TypeOK, Shape
<1>2. ASSUME NEW list \in Seq(Node)
      PROVE  w(list) \in Seq(Piece) /\ \A X : Tally(w(list), X) = Weight(list, X)
  <2>1. Material(list) \in Seq(Piece) /\ LinesOf(list) \in Seq(Piece)
    BY MaterialType, LinesOfType, PiecesConcat
  <2>2. w(list) \in Seq(Piece) BY <2>1, PiecesConcat
  <2>3. \A X : Tally(w(list), X) = Tally(Material(list), X) + Tally(LinesOf(list), X)
    BY <2>1, TallyConcat
  <2> QED BY <2>2, <2>3 DEF Weight
<1>3. s = Stored(boxes)
  <2>1. k \in Seq(Classes) BY <1>1, StoredIs
  <2>2. \A i \in DOMAIN k : w(boxes[k[i]]) = Material(boxes[k[i]])
    <3>1. ASSUME NEW i \in DOMAIN k PROVE w(boxes[k[i]]) = Material(boxes[k[i]])
      <4> DEFINE l == boxes[k[i]]
      <4>1. l \in Seq(LineNode) BY <1>1, <2>1
      <4>2. Material(l) \in Seq(LinePiece) /\ LinesOf(l) = <<>>
        <5> HIDE DEF l
        <5> QED BY <4>1, MaterialType, LinesOfType
      <4> DEFINE m == Material(l)
      <4>3. m \in Seq(LinePiece) BY <4>2
      <4> HIDE DEF m
      <4>4. m \o <<>> = m BY <4>3
      <4> QED BY <4>2, <4>4 DEF m
    <3> QED BY <3>1
  <2>3. [i \in DOMAIN k |-> w(boxes[k[i]])] = [i \in DOMAIN k |-> Material(boxes[k[i]])] BY <2>2
  <2> QED BY <2>3 DEF Stored
<1>4. Everything = a \o b \o c \o d \o shipped \o gone \o s BY DEF Everything
<1>5. a \in Seq(Piece) /\ b \in Seq(Piece) /\ c \in Seq(Piece) /\ d \in Seq(Piece)
  BY <1>1, <1>2
<1>6. s \in Seq(Piece) BY <1>1, <1>3, StoredIs, PiecesConcat
<1>7. \A X : /\ Tally(a, X) = Weight(contribs, X) /\ Tally(b, X) = Weight(page, X)
             /\ Tally(c, X) = Weight(made, X) /\ Tally(d, X) = Weight(box255.list, X)
  BY <1>1, <1>2
<1> HIDE DEF a, b, c, d, s
<1> DEFINE e1 == a \o b
           e2 == e1 \o c
           e3 == e2 \o d
           e4 == e3 \o shipped
           e5 == e4 \o gone
<1>8. e1 \in Seq(Piece) BY <1>5, PiecesConcat
<1>9. e2 \in Seq(Piece) BY <1>5, <1>8, PiecesConcat
<1>10. e3 \in Seq(Piece) BY <1>5, <1>9, PiecesConcat
<1>11. e4 \in Seq(Piece) BY <1>1, <1>10, PiecesConcat
<1>12. e5 \in Seq(Piece) BY <1>1, <1>11, PiecesConcat
<1>13. e5 \o s \in Seq(Piece) BY <1>6, <1>12, PiecesConcat
<1>14. ASSUME NEW X PROVE Tally(e5 \o s, X) = Held(X)
  <2>1. Tally(e1, X) = Tally(a, X) + Tally(b, X) BY <1>5, TallyConcat
  <2>2. Tally(e2, X) = Tally(e1, X) + Tally(c, X)
    <3> HIDE DEF e1
    <3> QED BY <1>5, <1>8, TallyConcat
  <2>3. Tally(e3, X) = Tally(e2, X) + Tally(d, X)
    <3> HIDE DEF e2
    <3> QED BY <1>5, <1>9, TallyConcat
  <2>4. Tally(e4, X) = Tally(e3, X) + Tally(shipped, X)
    <3> HIDE DEF e3
    <3> QED BY <1>1, <1>10, TallyConcat
  <2>5. Tally(e5, X) = Tally(e4, X) + Tally(gone, X)
    <3> HIDE DEF e4
    <3> QED BY <1>1, <1>11, TallyConcat
  <2>6. Tally(e5 \o s, X) = Tally(e5, X) + Tally(s, X)
    <3> HIDE DEF e5
    <3> QED BY <1>6, <1>12, TallyConcat
  <2> HIDE DEF e1, e2, e3, e4, e5
  <2> QED BY <2>1, <2>2, <2>3, <2>4, <2>5, <2>6, <1>3, <1>7 DEF Held
<1> QED BY <1>4, <1>13, <1>14

\* A list that holds one of X at most has it in one place only.
LEMMA TwoAreMore ==
  ASSUME NEW S, NEW s \in Seq(S), NEW X, NEW i \in 1 .. Len(s), NEW j \in 1 .. Len(s),
         s[i] \in X, s[j] \in X, Tally(s, X) <= 1
  PROVE  i = j
<1> SUFFICES ASSUME i # j PROVE FALSE
  OBVIOUS
<1> DEFINE I == {h \in DOMAIN s : s[h] \in X}
<1>1. {i, j} \in SUBSET I OBVIOUS
<1>2. IsFiniteSet(I) /\ Cardinality(I) \in Nat BY TallyNat DEF Tally
<1>3. IsFiniteSet({i}) /\ Cardinality({i}) = 1 BY FS_Singleton
<1>4. {i, j} = {i} \cup {j} /\ j \notin {i} OBVIOUS
<1>5. Cardinality({i} \cup {j}) = 2
  <2> DEFINE A == {i}
  <2>1. IsFiniteSet(A) /\ Cardinality(A) = 1 /\ j \notin A BY <1>3, <1>4
  <2> HIDE DEF A
  <2>2. Cardinality(A \cup {j}) = 1 + 1 BY <2>1, FS_AddElement
  <2> QED BY <2>2 DEF A
<1> HIDE DEF I
<1>6. Cardinality({i, j}) <= Cardinality(I) BY <1>1, <1>2, FS_Subset
<1>7. Cardinality(I) <= 1 BY DEF Tally, I
<1>8. 2 <= Cardinality(I) BY <1>4, <1>5, <1>6
<1> QED BY <1>2, <1>7, <1>8

\* As many pieces as were contributed, and of each name one at most: then
\* there are as many names as pieces.
LEMMA KeptMeans ==
  ASSUME TypeOK, Shape, Kept
  PROVE  NothingLostOrDoubled
<1> DEFINE e == Everything
           I == 1 .. Len(e)
           N == {<<n.id, n.line>> : n \in ToSet(e)}
           f == [i \in I |-> <<e[i].id, e[i].line>>]
<1>1. e \in Seq(Piece) /\ (\A X : Tally(e, X) = Held(X)) BY EverythingIs
<1>2. Len(e) = material
  <2> HIDE DEF e
  <2>1. Tally(e, Piece) = Len(e) BY <1>1, TallyAll
  <2> QED BY <1>1, <2>1 DEF Kept
<1> HIDE DEF e
<1>3. Len(e) \in Nat /\ \A i \in I : e[i] \in Piece /\ e[i].id \in Nat /\ e[i].line \in Nat
  <2>1. \A n \in Piece : n.id \in Nat /\ n.line \in Nat BY PieceFacts DEF Piece
  <2> QED BY <1>1, <2>1
<1>4. ASSUME NEW i \in I, NEW j \in I, f[i] = f[j] PROVE i = j
  <2> DEFINE X == At(e[i].id, e[i].line)
  <2>1. e[j].id = e[i].id /\ e[j].line = e[i].line BY <1>4
  <2>2. e[i] \in X /\ e[j] \in X BY <1>3, <2>1 DEF At
  <2>3. Held(X) <= 1 BY <1>3 DEF Kept
  <2>4. Tally(e, X) <= 1 BY <1>1, <2>3
  <2> HIDE DEF X
  <2> QED BY <1>1, <2>2, <2>4, TwoAreMore
<1>5. N = {f[i] : i \in I}
  <2>1. ToSet(e) = {e[i] : i \in I} BY <1>1 DEF ToSet
  <2> QED BY <2>1
<1>6. f \in Injection(I, N) /\ f \in Surjection(I, N)
  <2>1. f \in [I -> N] BY <1>5
  <2>2. \A a, b \in I : f[a] = f[b] => a = b BY <1>4
  <2>3. \A t \in N : \E i \in I : f[i] = t BY <1>5
  <2>4. DOMAIN f = I OBVIOUS
  <2> HIDE DEF f, N, I
  <2>5. IsInjective(f) BY <2>2, <2>4 DEF IsInjective
  <2> QED BY <2>1, <2>3, <2>5 DEF Injection, Surjection
<1>7. IsFiniteSet(I) /\ Cardinality(I) = Len(e)
  <2>1. \A n \in Nat : IsFiniteSet(1 .. n) /\ Cardinality(1 .. n) = n BY FS_Interval
  <2> QED BY <1>3, <2>1
<1>8. Cardinality(N) = Cardinality(I)
  <2> HIDE DEF f, N, I
  <2> QED BY <1>6, <1>7, FS_Surjection
<1>9. Cardinality(N) = Len(e) BY <1>7, <1>8
<1> QED BY <1>2, <1>9 DEF NothingLostOrDoubled, e

\* Whatever the document contributed is in one place and in one only, for
\* every document, every \output and every choice of sizes and classes: page
\* breaks, split and held over insertions, pages put back and boxes thrown
\* away neither lose a piece nor double one (fire_up, hold_over_insertions
\* and the output routine's end in src/engine.c).
THEOREM NothingIsLost == Spec => []NothingLostOrDoubled
<1>1. Init => TypeOK /\ Shape /\ Kept BY TypeInit, KeptInit
<1>2. (TypeOK /\ Shape /\ Kept) /\ [Next]_vars => (TypeOK /\ Shape /\ Kept)'
  BY TypeStep, KeptStep
<1>3. TypeOK /\ Shape /\ Kept => NothingLostOrDoubled BY KeptMeans
<1> QED BY <1>1, <1>2, <1>3, PTL DEF Spec

-------------------------------------------------------------------------------
(* The order of the text, and the marks. *)

(* The text of a list of pieces. *)

\* What a piece gives to the text.
TextOn(N) == [n \in N |-> IF n.line = 0 THEN <<n>> ELSE <<>>]

\* The text among pieces is what each gives.
LEMMA TextOfIs ==
  ASSUME NEW N, NEW list \in Seq(N)
  PROVE  TextOf(list) = Spread(TextOn(N), list)
<1>1. [i \in DOMAIN list |-> IF list[i].line = 0 THEN <<list[i]>> ELSE <<>>]
      = Mapped(TextOn(N), list)
  BY DEF Mapped, TextOn
<1> QED BY <1>1 DEF TextOf, Only, Spread

\* Text is all text.
LEMMA TextOfText ==
  ASSUME NEW list \in Seq(TextPiece)
  PROVE  TextOf(list) = list
<1> DEFINE g == TextOn(TextPiece)
<1>1. ASSUME NEW n \in TextPiece PROVE g[n] = <<n>> BY PieceFacts DEF TextOn
<1>2. \A n \in TextPiece : g[n] = <<n>> BY <1>1
<1>3. Maps(g, TextPiece, Seq(TextPiece))
  <2>1. \A n \in TextPiece : (IF n.line = 0 THEN <<n>> ELSE <<>>) \in Seq(TextPiece) OBVIOUS
  <2> QED BY <2>1 DEF Maps, TextOn
<1>4. TextOf(list) = Spread(g, list) BY TextOfIs
<1> HIDE DEF g
<1> QED BY <1>2, <1>3, <1>4, SpreadSame

\* Lines of insertions have no text.
LEMMA TextOfLines ==
  ASSUME NEW list \in Seq(LinePiece)
  PROVE  TextOf(list) = <<>>
<1> DEFINE g == TextOn(LinePiece)
<1>1. ASSUME NEW n \in LinePiece PROVE g[n] = <<>> BY PieceFacts DEF TextOn
<1>2. Maps(g, LinePiece, Seq({}))
  <2>1. <<>> \in Seq({}) OBVIOUS
  <2>2. \A n \in LinePiece : (IF n.line = 0 THEN <<n>> ELSE <<>>) \in Seq({})
    BY <2>1, PieceFacts
  <2> QED BY <2>2 DEF Maps, TextOn
<1>3. TextOf(list) = Spread(g, list) BY TextOfIs
<1> HIDE DEF g
<1>4. Spread(g, list) \in Seq({}) BY <1>2, SpreadType
<1> QED BY <1>3, <1>4

\* The text of joined lists is the text of each.
LEMMA TextOfConcat ==
  \A a, b \in Seq(Piece) : TextOf(a \o b) = TextOf(a) \o TextOf(b) /\ TextOf(a) \in Seq(Piece)
<1> SUFFICES ASSUME NEW a \in Seq(Piece), NEW b \in Seq(Piece)
             PROVE  TextOf(a \o b) = TextOf(a) \o TextOf(b) /\ TextOf(a) \in Seq(Piece)
  OBVIOUS
<1> DEFINE g == TextOn(Piece)
<1>1. Maps(g, Piece, Seq(Piece))
  <2>1. \A n \in Piece : (IF n.line = 0 THEN <<n>> ELSE <<>>) \in Seq(Piece) OBVIOUS
  <2> QED BY <2>1 DEF Maps, TextOn
<1>2. a \o b \in Seq(Piece) BY PiecesConcat
<1>3. /\ TextOf(a) = Spread(g, a) /\ TextOf(b) = Spread(g, b)
      /\ TextOf(a \o b) = Spread(g, a \o b)
  BY <1>2, TextOfIs
<1> HIDE DEF g
<1>4. Spread(g, a \o b) = Spread(g, a) \o Spread(g, b) BY <1>1, SpreadConcat
<1>5. Spread(g, a) \in Seq(Piece) BY <1>1, SpreadType
<1> QED BY <1>3, <1>4, <1>5

------------------------------------------------------------------------------
(* Lists in order. *)

\* The numbers grow along the list, and none is beyond the last item read.
Ordered(list, last) ==
  Increasing(list) /\ \A i \in 1 .. Len(list) : list[i].id \in 1 .. last

\* A list that loses a part in its middle stays in order.
LEMMA OrderedWithout ==
  ASSUME NEW a \in Seq(Piece), NEW b \in Seq(Piece), NEW c \in Seq(Piece), NEW r \in Nat,
         Ordered(a \o (b \o c), r)
  PROVE  Ordered(a \o c, r)
<1> DEFINE e == a \o (b \o c)
           d == a \o c
           p(i) == IF i <= Len(a) THEN i ELSE i + Len(b)
<1>1. /\ DOMAIN e = 1 .. Len(e) /\ Len(e) = Len(a) + (Len(b) + Len(c))
      /\ DOMAIN d = 1 .. Len(d) /\ Len(d) = Len(a) + Len(c)
      /\ Len(a) \in Nat /\ Len(b) \in Nat /\ Len(c) \in Nat
  OBVIOUS
<1>2. ASSUME NEW i \in 1 .. Len(d) PROVE p(i) \in 1 .. Len(e) /\ d[i] = e[p(i)]
  <2>1. p(i) \in 1 .. Len(e) BY <1>1
  <2>2. CASE i <= Len(a)
    BY <1>1, <2>2
  <2>3. CASE ~(i <= Len(a))
    <3>1. PICK j \in Nat : i = Len(a) + j
      <4>1. i - Len(a) \in Nat BY <1>1, <2>3
      <4> QED BY <4>1, <1>1
    <3>2. j \in 1 .. Len(c) BY <1>1, <2>3, <3>1
    <3>3. d[i] = c[j] BY <1>1, <3>1, <3>2
    <3> DEFINE bc == b \o c
    <3>4. bc \in Seq(Piece) /\ Len(bc) = Len(b) + Len(c) /\ bc[Len(b) + j] = c[j]
      BY <1>1, <3>2
    <3>5. p(i) = Len(a) + (Len(b) + j) BY <1>1, <2>3, <3>1
    <3> HIDE DEF bc
    <3>6. (a \o bc)[Len(a) + (Len(b) + j)] = bc[Len(b) + j] BY <1>1, <3>2, <3>4
    <3> QED BY <2>1, <3>3, <3>4, <3>5, <3>6 DEF bc
  <2> QED BY <2>1, <2>2, <2>3
<1>3. ASSUME NEW i \in 1 .. Len(d), NEW j \in 1 .. Len(d), i < j PROVE p(i) < p(j)
  BY <1>1, <1>3
<1>4. \A i, j \in 1 .. Len(e) : i < j => e[i].id < e[j].id BY <1>1 DEF Ordered, Increasing
<1>5. \A i \in 1 .. Len(e) : e[i].id \in 1 .. r BY DEF Ordered
<1> HIDE DEF e, d, p
<1>6. \A i, j \in DOMAIN d : i < j => d[i].id < d[j].id BY <1>1, <1>2, <1>3, <1>4
<1>7. \A i \in 1 .. Len(d) : d[i].id \in 1 .. r BY <1>2, <1>5
<1> QED BY <1>6, <1>7 DEF Ordered, Increasing, d

\* A piece with the next number may follow.
LEMMA OrderedMore ==
  ASSUME NEW a \in Seq(Piece), NEW r \in Nat, Ordered(a, r), NEW n, n.id = r + 1
  PROVE  Ordered(a, r + 1) /\ Ordered(a \o <<n>>, r + 1)
<1> DEFINE e == a \o <<n>>
<1>1. /\ DOMAIN a = 1 .. Len(a) /\ Len(a) \in Nat
      /\ \A i, j \in 1 .. Len(a) : i < j => a[i].id < a[j].id
      /\ \A i \in 1 .. Len(a) : a[i].id \in 1 .. r
  BY DEF Ordered, Increasing
<1>2. Ordered(a, r + 1) BY <1>1 DEF Ordered, Increasing
<1>3. /\ DOMAIN e = 1 .. Len(a) + 1 /\ Len(e) = Len(a) + 1
      /\ (\A i \in 1 .. Len(a) : e[i] = a[i]) /\ e[Len(a) + 1] = n
  OBVIOUS
<1> HIDE DEF e
<1>4. ASSUME NEW i \in 1 .. Len(a) + 1, NEW j \in 1 .. Len(a) + 1, i < j
      PROVE  e[i].id < e[j].id
  <2>1. i \in 1 .. Len(a) /\ e[i] = a[i] BY <1>1, <1>3, <1>4
  <2>2. CASE j \in 1 .. Len(a)
    BY <1>1, <1>3, <1>4, <2>1, <2>2
  <2>3. CASE j = Len(a) + 1
    <3>1. e[j].id = r + 1 BY <1>3, <2>3
    <3>2. e[i].id \in 1 .. r BY <1>1, <2>1
    <3> QED BY <3>1, <3>2
  <2> QED BY <1>1, <2>2, <2>3
<1>5. ASSUME NEW i \in 1 .. Len(a) + 1 PROVE e[i].id \in 1 .. r + 1
  <2>1. CASE i \in 1 .. Len(a) BY <1>1, <1>3, <2>1
  <2>2. CASE i = Len(a) + 1 BY <1>3, <2>2
  <2> QED BY <1>1, <2>1, <2>2
<1>6. Ordered(e, r + 1) BY <1>3, <1>4, <1>5 DEF Ordered, Increasing
<1> QED BY <1>2, <1>6 DEF e

------------------------------------------------------------------------------
(* The text the builder has, in the order in which it will come out. *)

\* The text as it will be read: shipped, in the routine, on the page, contributed.
Waiting == (Material(made) \o Material(box255.list)) \o (Material(page) \o Material(contribs))
Queue   == TextOf(shipped) \o Waiting

\* A step that keeps the queue.
Still == Queue' = Queue /\ read' = read

\* Joining nothing changes nothing.
LEMMA WithNothing ==
  \A a \in Seq(Piece) : a \o <<>> = a /\ <<>> \o a = a
OBVIOUS

\* Joining pieces is associative.
LEMMA PiecesAssociative ==
  \A a, b, c \in Seq(Piece) : (a \o b) \o c = a \o (b \o c)
BY Associative

\* The parts of the queue are pieces; outside the routine its boxes are empty, and
\* in it the page is.
LEMMA MaterialOfParts ==
  ASSUME TypeOK, Shape
  PROVE  /\ Material(made) \in Seq(Piece) /\ Material(box255.list) \in Seq(Piece)
         /\ Material(page) \in Seq(Piece) /\ Material(contribs) \in Seq(Piece)
         /\ TextOf(shipped) \in Seq(Piece) /\ Waiting \in Seq(Piece) /\ Queue \in Seq(Piece)
         /\ pc # "routine" => Queue = TextOf(shipped) \o (Material(page) \o Material(contribs))
         /\ pc = "routine" => /\ Material(page) = <<>>
                              /\ Queue = TextOf(shipped) \o ((Material(made) \o Material(box255.list))
                                                              \o Material(contribs))
<1> DEFINE m == Material(made)
           b == Material(box255.list)
           p == Material(page)
           c == Material(contribs)
           t == TextOf(shipped)
<1>1. m \in Seq(Piece) /\ b \in Seq(Piece) /\ p \in Seq(Piece) /\ c \in Seq(Piece)
  BY MaterialType, PiecesConcat DEF TypeOK
<1>2. t \in Seq(Piece) BY TextOfConcat DEF Shape
<1>3. pc # "routine" => m = <<>> /\ b = <<>> BY MaterialEmpty DEF Shape, NoBox
<1>4. pc = "routine" => p = <<>> BY InsertsHaveNoText DEF Shape
<1>5. Waiting = (m \o b) \o (p \o c) /\ Queue = t \o ((m \o b) \o (p \o c)) BY DEF Waiting, Queue
<1> HIDE DEF m, b, p, c, t
<1>6. m \o b \in Seq(Piece) /\ p \o c \in Seq(Piece) BY <1>1, PiecesConcat
<1>7. (m \o b) \o (p \o c) \in Seq(Piece)
  <2> DEFINE x == m \o b
             y == p \o c
  <2>1. x \in Seq(Piece) /\ y \in Seq(Piece) BY <1>6
  <2> HIDE DEF x, y
  <2>2. x \o y \in Seq(Piece) BY <2>1, PiecesConcat
  <2> QED BY <2>2 DEF x, y
<1>8. Waiting \in Seq(Piece) BY <1>5, <1>7
<1>9. Queue \in Seq(Piece)
  <2>1. Queue = t \o Waiting BY DEF Queue, t
  <2> QED BY <2>1, <1>2, <1>8, PiecesConcat
<1>10. pc # "routine" => Queue = t \o (p \o c)
  <2>1. (<<>> \o <<>>) \o (p \o c) = p \o c
    <3> DEFINE y == p \o c
    <3>1. y \in Seq(Piece) BY <1>6
    <3> HIDE DEF y
    <3>2. <<>> \o <<>> = <<>> /\ <<>> \o y = y BY <3>1, WithNothing
    <3> QED BY <3>2 DEF y
  <2> QED BY <2>1, <1>3, <1>5
<1>11. pc = "routine" => Queue = t \o ((m \o b) \o c)
  <2>1. <<>> \o c = c BY <1>1, WithNothing
  <2> QED BY <2>1, <1>4, <1>5
<1> QED BY <1>1, <1>2, <1>4, <1>8, <1>9, <1>10, <1>11 DEF m, b, p, c, t

\* Putting 10000 for the penalty of the break changes no material.
LEMMA SpentMaterial ==
  ASSUME NEW list \in Seq(Node), NEW p \in Int
  PROVE  Material(Spent(list, p)) = Material(list)
<1>0. \A q \in Int : Penalty(q) \in Node /\ Material(<<Penalty(q)>>) = <<>>
  <2> TAKE q \in Int
  <2>0. <<>> \in Seq(Node) OBVIOUS
  <2>1. Penalty(q) \in Node BY <2>0, SpentType
  <2>2. Penalty(q).kind = "penalty" BY DEF Penalty
  <2> QED BY <2>1, <2>2, MaterialOne
<1>1. CASE list # <<>> /\ Head(list) = Penalty(p)
  <2> DEFINE n == Penalty(p)
             m == Penalty(InfinitePenalty)
             tail == Tail(list)
             ln == <<n>>
             lm == <<m>>
  <2>1. InfinitePenalty \in Int BY DEF InfinitePenalty
  <2>2. n \in Node /\ m \in Node /\ Material(ln) = <<>> /\ Material(lm) = <<>> BY <1>0, <2>1
  <2>3. Spent(list, p) = lm \o tail BY <1>1 DEF Spent
  <2>4. tail \in Seq(Node) /\ list = ln \o tail BY <1>1
  <2>5. ln \in Seq(Node) /\ lm \in Seq(Node) BY <2>2
  <2> HIDE DEF n, m, tail, ln, lm
  <2>6. Material(ln \o tail) = Material(ln) \o Material(tail)
        /\ Material(lm \o tail) = Material(lm) \o Material(tail)
    BY <2>4, <2>5, MaterialConcat
  <2> QED BY <2>2, <2>3, <2>4, <2>6
<1>2. CASE ~(list # <<>> /\ Head(list) = Penalty(p))
  BY <1>2 DEF Spent
<1> QED BY <1>1, <1>2

\* Sending a page off leaves the queue as it was.
LEMMA FireUpKeepsOrder ==
  ASSUME TypeOK, Shape, TypeOK', Shape', pc = "building",
         NEW k \in 0 .. Len(page), NEW part, part = SubSeq(page, 1, k),
         NEW b, b.penalty \in Int, FireUp(part, b)
  PROVE  Still
<1> DEFINE packed == IF holding THEN part ELSE TextAlone(part)
           left   == IF holding THEN <<>> ELSE Unplaced(part)
           runs   == Routine /\ ~Overworked
           after  == SubSeq(page, Len(part) + 1, Len(page))
           returned == after \o contribs
           t == TextOf(shipped)
           x == Material(part)
           y == Material(after)
           z == Material(contribs)
<1>1. page \in Seq(Node) /\ contribs \in Seq(Node) /\ shipped \in Seq(Piece) BY DEF TypeOK, Shape
<1>2. part \in Seq(Node) /\ after \in Seq(Node) /\ page = part \o after
  BY <1>1, CutInTwo
<1>3. /\ contribs' = Spent(returned, b.penalty) /\ page' = left
      /\ box255' = IF runs THEN [void |-> FALSE, list |-> packed, size |-> b.size] ELSE NoBox
      /\ shipped' = IF runs THEN shipped ELSE shipped \o Material(packed)
      /\ made' = <<>>
      /\ read' = read
  BY FireUpIs, Zenon
<1>4. Material(packed) = x BY <1>2, TextAloneHolds
<1>5. Material(left) = <<>>
  <2>1. Unplaced(part) \in Seq(InsertNode) BY <1>2, UnplacedType
  <2> QED BY <2>1, InsertsHaveNoText, MaterialEmpty
<1>6. returned \in Seq(Node)
  <2> HIDE DEF after
  <2> QED BY <1>1, <1>2
<1>7. Material(returned) = y \o z
  <2> HIDE DEF after
  <2> QED BY <1>1, <1>2, MaterialConcat
<1>8. Material(contribs') = y \o z
  <2> HIDE DEF returned, after
  <2> QED BY <1>3, <1>6, <1>7, SpentMaterial
<1>9. Material(page) = x \o y
  <2> HIDE DEF after
  <2> QED BY <1>2, MaterialConcat
<1>10. t \in Seq(Piece) /\ x \in Seq(TextPiece) /\ x \in Seq(Piece) /\ y \in Seq(Piece) /\ z \in Seq(Piece)
  <2> HIDE DEF after
  <2> QED BY <1>1, <1>2, MaterialType, PiecesConcat, TextOfConcat
<1>11. Queue = t \o ((x \o y) \o z) BY <1>9, MaterialOfParts
<1>12. TextOf(shipped) \o (x \o (y \o z)) = Queue
  <2>1. (x \o y) \o z = x \o (y \o z)
    <3>1. x \in Seq(Piece) /\ y \in Seq(Piece) /\ z \in Seq(Piece) BY <1>10
    <3> HIDE DEF x, y, z
    <3> QED BY <3>1, PiecesAssociative
  <2> QED BY <1>11, <2>1
<1>13. TextOf(shipped') = IF runs THEN t ELSE t \o x
  <2>1. CASE runs BY <1>3, <2>1
  <2>2. CASE ~runs
    <3>1. shipped' = shipped \o x BY <1>3, <1>4, <2>2
    <3>2. TextOf(x) = x BY <1>10, TextOfText
    <3>3. TextOf(shipped \o x) = t \o TextOf(x)
      <4> HIDE DEF x
      <4> QED BY <1>1, <1>10, TextOfConcat
    <3> QED BY <2>2, <3>1, <3>2, <3>3
  <2> QED BY <2>1, <2>2
<1>14. Material(made') = <<>> /\ Material(page') = <<>> BY <1>3, <1>5, MaterialEmpty
<1>15. Material(box255'.list) = IF runs THEN x ELSE <<>> BY <1>3, <1>4, MaterialEmpty DEF NoBox
<1>16. Queue' = TextOf(shipped') \o ((Material(made') \o Material(box255'.list))
                                     \o (Material(page') \o Material(contribs')))
  BY DEF Queue, Waiting
<1>17. y \o z \in Seq(Piece) BY <1>10, PiecesConcat
<1> DEFINE yz == y \o z
<1>18. Queue' = (IF runs THEN t ELSE t \o x) \o ((<<>> \o (IF runs THEN x ELSE <<>>)) \o (<<>> \o yz))
  BY <1>8, <1>13, <1>14, <1>15, <1>16
<1>19. Queue = t \o (x \o yz) BY <1>12
<1>20. yz \in Seq(Piece) BY <1>17
<1> HIDE DEF x, t, yz, runs
<1>21. <<>> \o yz = yz /\ <<>> \o x = x /\ <<>> \o <<>> = <<>>
  <2>1. <<>> \in Seq(Piece) /\ x \in Seq(Piece) /\ yz \in Seq(Piece) BY <1>10, <1>20
  <2> QED BY <2>1, WithNothing
<1>22. (t \o x) \o yz = t \o (x \o yz)
  <2>1. t \in Seq(Piece) /\ x \in Seq(Piece) /\ yz \in Seq(Piece) BY <1>10, <1>20
  <2> QED BY <2>1, PiecesAssociative
<1>23. Queue' = Queue
  <2>1. CASE runs BY <2>1, <1>18, <1>19, <1>21
  <2>2. CASE ~runs BY <2>2, <1>18, <1>19, <1>21, <1>22
  <2> QED BY <2>1, <2>2
<1> QED BY <1>3, <1>23 DEF Still

\* A node moved to the page stays where it was in the queue.
LEMMA SettleKeepsOrder ==
  ASSUME TypeOK, Shape, pc = "building", contribs # <<>>, NEW m, NEW g, NEW b, NEW list,
         Settle(m, g, b, list), list \in Seq(Node),
         Material(list) = Material(page) \o Material(<<Head(contribs)>>)
  PROVE  Still
<1> DEFINE n == <<Head(contribs)>>
           tail == Tail(contribs)
           p == Material(page)
           h == Material(n)
           c == Material(tail)
<1>1. /\ page' = list /\ contribs' = tail
      /\ UNCHANGED <<read, made, box255, shipped>>
  BY DEF Settle, out
<1>2. n \in Seq(Node) /\ tail \in Seq(Node) /\ contribs = n \o tail
  BY HeadTail
<1>3. p \in Seq(Piece) /\ h \in Seq(Piece) /\ c \in Seq(Piece)
  <2>1. page \in Seq(Node) BY DEF TypeOK
  <2> HIDE DEF n, tail
  <2> QED BY <2>1, <1>2, MaterialType, PiecesConcat
<1>4. Material(contribs) = h \o c
  <2> HIDE DEF n, tail
  <2> QED BY <1>2, MaterialConcat
<1>5. Material(page') \o Material(contribs') = (p \o h) \o c BY <1>1
<1>6. Material(page) \o Material(contribs) = p \o (h \o c) BY <1>4
<1> HIDE DEF p, h, c
<1>7. (p \o h) \o c = p \o (h \o c) BY <1>3, PiecesAssociative
<1>8. Waiting' = Waiting BY <1>1, <1>5, <1>6, <1>7 DEF Waiting
<1> QED BY <1>1, <1>8 DEF Still, Queue

\* The page builder moves text along the queue and never past another.
LEMMA BuilderKeepsOrder ==
  ASSUME TypeOK, Shape, TypeOK', Shape'
  PROVE  BuilderStep => Still
<1>0. /\ page \in Seq(Node) /\ contribs \in Seq(Node) /\ MaxDepth \in Int /\ TopSkip \in Int
      /\ best \in [at : 0 .. Len(page), penalty : Int, size : Int, cost : Int]
  BY SizesAssumption DEF TypeOK
<1>h. contribs # <<>> => /\ Head(contribs) \in Node
                         /\ Append(page, Head(contribs)) \in Seq(Node)
                         /\ Material(Append(page, Head(contribs)))
                            = Material(page) \o Material(<<Head(contribs)>>)
  <2> SUFFICES ASSUME contribs # <<>>
               PROVE  /\ Head(contribs) \in Node
                      /\ Append(page, Head(contribs)) \in Seq(Node)
                      /\ Material(Append(page, Head(contribs)))
                         = Material(page) \o Material(<<Head(contribs)>>)
    OBVIOUS
  <2> DEFINE n == <<Head(contribs)>>
  <2>1. Head(contribs) \in Node BY HeadTail
  <2>2. n \in Seq(Node) /\ Append(page, Head(contribs)) = page \o n BY <1>0, <2>1
  <2> HIDE DEF n
  <2>3. Material(page \o n) = Material(page) \o Material(n) BY <1>0, <2>2, MaterialConcat
  <2>4. Append(page, Head(contribs)) \in Seq(Node) BY <1>0, <2>1
  <2> QED BY <2>1, <2>2, <2>3, <2>4 DEF n
<1>1. ASSUME Carry PROVE Still
  <2>1. pc = "building" /\ contribs # <<>> /\ Settle(dims, goal, best, Append(page, Head(contribs)))
    BY <1>1 DEF Carry, Building
  <2> QED BY <2>1, <1>h, SettleKeepsOrder
<1>2. ASSUME Discard PROVE Still
  <2>1. /\ pc = "building" /\ contribs # <<>> /\ Settle(dims, goal, best, page)
        /\ Head(contribs).kind \in Discardable
    BY <1>2 DEF Discard, Building
  <2>2. Material(<<Head(contribs)>>) = <<>> BY <2>1, <1>h, MaterialOne DEF Discardable
  <2>3. Material(page) \in Seq(TextPiece) BY <1>0, MaterialType
  <2>4. Material(page) = Material(page) \o Material(<<Head(contribs)>>) BY <2>2, <2>3
  <2> QED BY <2>1, <2>4, <1>0, SettleKeepsOrder
<1>3. ASSUME FirstBox PROVE Still
  <2> DEFINE n     == Head(contribs)
             glue  == SkipTo(TopSkip, n)
             legal == Legal(page, glue, <<n>>)
             cost  == PageCost(StartDims, StartGoal, 0)
             b     == IF legal THEN Better(cost, InfinitePenalty, StartGoal) ELSE best
             start == Grown([StartDims EXCEPT !.total = 0], glue, MaxDepth)
             grown == Grown(start, n, MaxDepth)
             lg    == <<glue>>
             ln    == <<n>>
             list  == page \o <<glue, n>>
             fires == legal /\ cost = Awful
  <2>1. pc = "building" /\ contribs # <<>> /\ n.kind = "box" BY <1>3 DEF FirstBox, Building
  <2>2. n \in Node BY <2>1, HeadTail
  <2>4. glue \in Node /\ glue.kind = "glue"
    BY <1>0, <2>1, <2>2, SkipIsPlain, PlainIsNode DEF SkipTo, Glue
  <2>5. b.penalty \in Int
    <3>1. Better(cost, InfinitePenalty, StartGoal).penalty \in Int
      <4> HIDE DEF cost
      <4>1. Better(cost, InfinitePenalty, StartGoal).penalty \in {best.penalty, InfinitePenalty} BY DEF Better
      <4>2. best.penalty \in Int /\ InfinitePenalty \in Int BY <1>0 DEF InfinitePenalty
      <4> QED BY <4>1, <4>2
    <3> HIDE DEF cost, legal
    <3> QED BY <3>1, <1>0
  <2>9. IF fires THEN FireUp(page, b) ELSE Settle(grown, StartGoal, b, list)
    BY <1>3 DEF FirstBox
  <2>6. Material(lg) = <<>> BY <2>4, MaterialOne
  <2>7. lg \in Seq(Node) /\ ln \in Seq(Node) /\ list = page \o (lg \o ln) BY <2>2, <2>4
  <2> HIDE DEF lg, list, fires, b, grown, glue
  <2>8. lg \o ln \in Seq(Node) /\ Material(lg \o ln) = Material(ln)
    <3> HIDE DEF ln
    <3>1. lg \o ln \in Seq(Node) /\ Material(lg \o ln) = Material(lg) \o Material(ln)
      BY <2>7, MaterialConcat
    <3>2. Material(ln) \in Seq(TextPiece) BY <2>7, MaterialType
    <3>3. <<>> \o Material(ln) = Material(ln) BY <3>2
    <3> QED BY <3>1, <3>3, <2>6
  <2>10. list \in Seq(Node) /\ Material(list) = Material(page) \o Material(ln)
    <3> DEFINE both == lg \o ln
    <3>1. both \in Seq(Node) /\ list = page \o both /\ Material(both) = Material(ln) BY <2>7, <2>8
    <3> HIDE DEF both, ln
    <3>2. list \in Seq(Node) BY <3>1, <1>0
    <3>3. Material(page \o both) = Material(page) \o Material(both) BY <3>1, <1>0, MaterialConcat
    <3> QED BY <3>1, <3>2, <3>3
  <2>11. CASE fires
    <3>2. Len(page) \in 0 .. Len(page) /\ page = SubSeq(page, 1, Len(page)) BY <1>0
    <3>3. FireUp(page, b) BY <2>9, <2>11
    <3> QED BY <2>1, <2>5, <3>2, <3>3, FireUpKeepsOrder
  <2>12. CASE ~fires
    <3>1. Settle(grown, StartGoal, b, list) BY <2>9, <2>12
    <3> QED BY <2>1, <2>10, <3>1, SettleKeepsOrder
  <2> QED BY <2>11, <2>12
<1>4. ASSUME Weigh PROVE Still
  <2> DEFINE b == IF MayBreak THEN BestHere ELSE best
             grown == Grown(dims, Next1, MaxDepth)
  <2>1. pc = "building" /\ contribs # <<>> /\ Settle(grown, goal, b, Append(page, Head(contribs)))
    BY <1>4 DEF Weigh, Building, Next1
  <2> HIDE DEF b, grown
  <2> QED BY <2>1, <1>h, SettleKeepsOrder
<1>5. ASSUME BreakPage PROVE Still
  <2>1. pc = "building" /\ contribs # <<>> BY <1>5 DEF BreakPage, Building
  <2> DEFINE b == BestHere
             part == SubSeq(page, 1, b.at)
  <2>2. FireUp(part, b) BY <1>5 DEF BreakPage
  <2>3. b \in [at : 0 .. Len(page), penalty : Int, size : Int, cost : Int]
    BY <2>1, HereTypes
  <2>4. b.at \in 0 .. Len(page) /\ b.penalty \in Int BY <2>3
  <2> HIDE DEF b
  <2> QED BY <2>1, <2>2, <2>4, FireUpKeepsOrder
<1>6. ASSUME NEW record, NEW g, NEW cost, pc = "building", contribs # <<>>, TakeInsert(record, g, cost)
      PROVE  Still
  <2>1. Settle(StartDims, g, best, Append(page, Head(contribs)))
    BY <1>6 DEF TakeInsert, Next1
  <2> QED BY <1>6, <2>1, <1>h, SettleKeepsOrder
<1>7. ASSUME PutOff \/ TakeWhole PROVE Still
  <2>1. pc = "building" /\ contribs # <<>> /\ \E record, g, cost : TakeInsert(record, g, cost)
    BY <1>7 DEF PutOff, TakeWhole, Building
  <2> QED BY <2>1, <1>6
<1>8. ASSUME TakePart PROVE Still
  <2>1. pc = "building" /\ contribs # <<>> /\ \E record, g, cost : TakeInsert(record, g, cost)
    BY <1>8 DEF TakePart, Building
  <2> QED BY <2>1, <1>6
<1>9. ASSUME Rest PROVE Still
  BY <1>9 DEF Rest, Still, Queue, Waiting, lists, out
<1> QED BY <1>1, <1>2, <1>3, <1>4, <1>5, <1>7, <1>8, <1>9 DEF BuilderStep

\* Shipping takes the text of the page from the queue's front to its end.
LEMMA ShippedKeepsOrder ==
  ASSUME TypeOK, Shape, pc = "routine", ~box255.void,
         NEW lines \in Seq(LinePiece), NEW lost,
         ShipOut(Material(box255.list) \o lines, lost)
  PROVE  Still
<1> DEFINE t == TextOf(shipped)
           x == Material(box255.list)
           p == Material(page)
           c == Material(contribs)
           pc1 == p \o c
<1>1. /\ shipped' = shipped \o (x \o lines) /\ box255' = NoBox
      /\ UNCHANGED <<read, contribs, page, made>>
  BY DEF ShipOut, lists
<1>2. made = <<>> /\ shipped \in Seq(Piece) BY DEF Shape
<1>3. x \in Seq(TextPiece) /\ x \in Seq(Piece) /\ lines \in Seq(Piece)
  BY MaterialType, PiecesConcat DEF TypeOK
<1>4. p \in Seq(Piece) /\ c \in Seq(Piece) BY MaterialOfParts
<1>5. pc1 \in Seq(Piece) BY <1>4, PiecesConcat
<1>6. Material(box255'.list) = <<>> /\ Material(made) = <<>> BY <1>1, <1>2, MaterialEmpty DEF NoBox
<1>7. TextOf(shipped') = t \o x
  <2> DEFINE xl == x \o lines
  <2>0. shipped' = shipped \o xl BY <1>1
  <2>1. TextOf(x) = x /\ TextOf(lines) = <<>> BY <1>3, TextOfText, TextOfLines
  <2>2. xl \in Seq(Piece) /\ TextOf(xl) = TextOf(x) \o TextOf(lines)
    <3> HIDE DEF x
    <3> QED BY <1>3, PiecesConcat, TextOfConcat
  <2>3. TextOf(xl) = x \o <<>> BY <2>1, <2>2
  <2>4. x \o <<>> = x BY <1>3, WithNothing
  <2> HIDE DEF xl
  <2>5. TextOf(shipped \o xl) = t \o TextOf(xl) BY <1>2, <2>2, TextOfConcat
  <2> QED BY <2>0, <2>3, <2>4, <2>5
<1>8. Queue = t \o ((<<>> \o x) \o pc1) BY <1>6 DEF Queue, Waiting
<1>9. Queue' = (t \o x) \o ((<<>> \o <<>>) \o pc1) BY <1>1, <1>6, <1>7 DEF Queue, Waiting
<1>10. t \in Seq(Piece) BY <1>2, TextOfConcat
<1> HIDE DEF t, x, pc1
<1>11. <<>> \o x = x /\ <<>> \o pc1 = pc1 /\ <<>> \o <<>> = <<>>
  <2>1. <<>> \in Seq(Piece) OBVIOUS
  <2> QED BY <2>1, <1>3, <1>5, WithNothing
<1>12. (t \o x) \o pc1 = t \o (x \o pc1) BY <1>3, <1>5, <1>10, PiecesAssociative
<1>13. Queue' = Queue BY <1>8, <1>9, <1>11, <1>12
<1> QED BY <1>1, <1>13 DEF Still

\* So does the output routine; at its end it may drop text, never move it.
LEMMA RoutineKeepsOrder ==
  ASSUME TypeOK, Shape, TypeOK', Shape'
  PROVE  /\ RoutineStep /\ ~EndRoutine => Still
         /\ EndRoutine /\ (\E r \in Nat : r = read /\ Ordered(Queue, r)) => Ordered(Queue', read')
<1> DEFINE t == TextOf(shipped)
           m == Material(made)
           x == Material(box255.list)
           p == Material(page)
           c == Material(contribs)
<1>0. /\ box255.list \in Seq(Node) /\ page \in Seq(Node) /\ made \in Seq(Node) /\ contribs \in Seq(Node)
      /\ boxes \in [Classes -> Seq(LineNode)]
  BY DEF TypeOK
<1>1. /\ m \in Seq(Piece) /\ x \in Seq(Piece) /\ p \in Seq(Piece) /\ c \in Seq(Piece) /\ t \in Seq(Piece)
  BY MaterialOfParts
<1>2. ASSUME ShipBare PROVE Still
  <2>1. pc = "routine" /\ ~box255.void /\ ShipOut(x, LinesOf(box255.list)) BY <1>2 DEF ShipBare
  <2>2. <<>> \in Seq(LinePiece) /\ x \o <<>> = x
    <3> HIDE DEF x
    <3> QED BY <1>1, WithNothing
  <2>3. ShipOut(x \o <<>>, LinesOf(box255.list)) BY <2>1, <2>2
  <2> QED BY <2>1, <2>2, <2>3, ShippedKeepsOrder
<1>3. ASSUME ShipWhole PROVE Still
  <2>1. pc = "routine" /\ ~box255.void /\ ShipOut(x \o Stored(boxes), LinesOf(box255.list))
    BY <1>3 DEF ShipWhole, Stored
  <2>2. Stored(boxes) \in Seq(LinePiece) BY <1>0, StoredIs
  <2> QED BY <2>1, <2>2, ShippedKeepsOrder
<1>4. ASSUME LetInsertsGo PROVE Still
  BY <1>4 DEF LetInsertsGo, Still, Queue, Waiting, lists, out
<1>5. ASSUME NEW again \in BOOLEAN, Unbox(again) PROVE Still
  <2> DEFINE more == IF again THEN <<Penalty(outPenalty)>> ELSE <<>>
             box == box255.list
             pc1 == p \o c
  <2>1. /\ made' = made \o box \o more /\ box255' = NoBox
        /\ UNCHANGED <<read, contribs, page, shipped>>
        /\ ~box255.void
    BY <1>5 DEF Unbox
  <2>2. more \in Seq(Node) /\ Material(more) = <<>>
    <3>1. outPenalty \in Int BY DEF TypeOK
    <3>0. <<>> \in Seq(Node) OBVIOUS
    <3>2. Penalty(outPenalty) \in Node BY <3>0, <3>1, SpentType
    <3>3. Penalty(outPenalty).kind = "penalty" BY DEF Penalty
    <3>4. Material(<<Penalty(outPenalty)>>) = <<>> BY <3>2, <3>3, MaterialOne
    <3> QED BY <3>2, <3>4, MaterialEmpty
  <2>3. made = <<>> BY <2>1 DEF Shape
  <2> HIDE DEF more
  <2>4. made' = box \o more
    <3> HIDE DEF box
    <3>1. box \in Seq(Node) BY <1>0 DEF box
    <3>2. <<>> \o box = box BY <3>1
    <3> QED BY <2>1, <2>3, <3>2
  <2>5. Material(made') = x
    <3>1. Material(box \o more) = x \o <<>>
      <4>1. box \in Seq(Node) /\ more \in Seq(Node) BY <1>0, <2>2
      <4>2. Material(box \o more) = Material(box) \o Material(more) BY <4>1, MaterialConcat
      <4> QED BY <4>2, <2>2
    <3>2. x \o <<>> = x BY <1>1, WithNothing
    <3> QED BY <2>4, <3>1, <3>2
  <2>6. Material(made) = <<>> /\ Material(box255'.list) = <<>> BY <2>1, <2>3, MaterialEmpty DEF NoBox
  <2>7. Queue = t \o ((<<>> \o x) \o pc1) BY <2>6 DEF Queue, Waiting
  <2>8. Queue' = t \o ((x \o <<>>) \o pc1) BY <2>1, <2>5, <2>6 DEF Queue, Waiting
  <2>9. <<>> \o x = x \o <<>> BY <1>1, WithNothing
  <2> QED BY <2>1, <2>7, <2>8, <2>9 DEF Still
<1>6. ASSUME EndRoutine, NEW r \in Nat, r = read, Ordered(Queue, r) PROVE Ordered(Queue', read')
  <2>1. /\ contribs' = page \o made \o contribs
        /\ page' = <<>> /\ made' = <<>> /\ box255' = NoBox
        /\ UNCHANGED <<read, shipped>> /\ pc = "routine"
    BY <1>6 DEF EndRoutine
  <2>2. p = <<>> /\ Queue = t \o ((m \o x) \o c) BY <2>1, MaterialOfParts
  <2>3. Material(contribs') = m \o c
    <3>1. page \o made \in Seq(Node) BY <1>0
    <3>2. Material(page \o made) = p \o m BY <1>0, MaterialConcat
    <3>3. p \o m = m BY <1>1, <2>2, WithNothing
    <3> DEFINE pm == page \o made
    <3>4. pm \in Seq(Node) /\ Material(pm) = m /\ contribs' = pm \o contribs BY <2>1, <3>1, <3>2, <3>3
    <3> HIDE DEF pm
    <3>5. Material(pm \o contribs) = Material(pm) \o c BY <1>0, <3>4, MaterialConcat
    <3> QED BY <3>4, <3>5
  <2>4. Material(page') = <<>> /\ Material(made') = <<>> /\ Material(box255'.list) = <<>>
    BY <2>1, MaterialEmpty DEF NoBox
  <2>5. Queue' = t \o ((<<>> \o <<>>) \o (<<>> \o (m \o c))) BY <2>1, <2>3, <2>4 DEF Queue, Waiting
  <2> HIDE DEF t, m, x, c
  <2>6. (<<>> \o <<>>) \o (<<>> \o (m \o c)) = m \o c
    <3> DEFINE mc == m \o c
    <3>1. mc \in Seq(Piece) /\ <<>> \in Seq(Piece) BY <1>1, PiecesConcat
    <3> HIDE DEF mc
    <3>2. <<>> \o mc = mc /\ <<>> \o <<>> = <<>> BY <3>1, WithNothing
    <3> QED BY <3>2 DEF mc
  <2> DEFINE tm == t \o m
  <2>7. tm \in Seq(Piece) BY <1>1, PiecesConcat
  <2>8. Queue = tm \o (x \o c)
    <3> DEFINE xc == x \o c
    <3>1. xc \in Seq(Piece) BY <1>1, PiecesConcat
    <3>2. (m \o x) \o c = m \o xc
      <4>1. m \in Seq(Piece) /\ x \in Seq(Piece) /\ c \in Seq(Piece) BY <1>1
      <4> QED BY <4>1, PiecesAssociative
    <3> HIDE DEF xc
    <3>3. t \o (m \o xc) = (t \o m) \o xc
      <4>1. t \in Seq(Piece) /\ m \in Seq(Piece) /\ xc \in Seq(Piece) BY <1>1, <3>1
      <4> QED BY <4>1, PiecesAssociative
    <3> QED BY <2>2, <3>2, <3>3 DEF xc
  <2>9. Queue' = tm \o c
    <3>1. (t \o m) \o c = t \o (m \o c) BY <1>1, PiecesAssociative
    <3> QED BY <2>5, <2>6, <3>1
  <2> HIDE DEF tm
  <2>10. Ordered(tm \o (x \o c), r) BY <1>6, <2>8
  <2>11. Ordered(tm \o c, r) BY <1>1, <2>7, <2>10, OrderedWithout
  <2> QED BY <1>6, <2>1, <2>9, <2>11
<1> QED BY <1>2, <1>3, <1>4, <1>5, <1>6 DEF RoutineStep

\* The document adds text at the end of the queue, with the next number.
LEMMA DocumentKeepsOrder ==
  ASSUME TypeOK, Shape, TypeOK', Shape', Ordered(Queue, read)
  PROVE  /\ End \/ EjectLastPages \/ Paragraph => Still
         /\ \A x \in Items : Contribute(x) => Ordered(Queue', read')
<1>0. contribs \in Seq(Node) /\ read \in Nat BY BoundAssumption DEF TypeOK
<1>1. ASSUME End \/ Paragraph PROVE Still
  BY <1>1 DEF End, Paragraph, Still, Queue, Waiting, lists, out
<1>2. ASSUME EjectLastPages PROVE Still
  <2> DEFINE a == Box(0, 0, 0)
             b == Glue(0, 0, TRUE, 0)
             c == Penalty(Eject)
             d == Append(contribs, a)
             e == Append(d, b)
  <2>1. contribs' = contribs \o <<a, b, c>>
        /\ UNCHANGED <<read, page, made, box255, shipped>>
    BY <1>2 DEF EjectLastPages, out
  <2>2. a \in Node BY DEF Node
  <2>3. b \in Plain BY DEF Glue, Plain
  <2>4. c \in Plain
    <3>1. Eject \in Int BY DEF Eject
    <3> QED BY <3>1 DEF Penalty, Plain
  <2>5. b \in Node /\ c \in Node /\ b.kind = "glue" /\ c.kind = "penalty"
    BY <2>3, <2>4, PlainIsNode DEF Glue, Penalty
  <2>6. Material(<<a>>) = <<>> /\ Material(<<b>>) = <<>> /\ Material(<<c>>) = <<>>
    BY <2>2, <2>5, MaterialOne DEF Box
  <2>7. ASSUME NEW list \in Seq(Node), NEW n \in Node, Material(<<n>>) = <<>>
        PROVE  Append(list, n) \in Seq(Node) /\ Material(Append(list, n)) = Material(list)
    <3> DEFINE one == <<n>>
    <3>1. one \in Seq(Node) /\ Append(list, n) = list \o one /\ Append(list, n) \in Seq(Node) OBVIOUS
    <3>2. Material(one) = <<>> BY <2>7
    <3> HIDE DEF one
    <3>3. Material(list \o one) = Material(list) \o <<>> BY <3>1, <3>2, MaterialConcat
    <3>4. Material(list) \in Seq(TextPiece) BY MaterialType
    <3>5. Material(list) \o <<>> = Material(list) BY <3>4
    <3> QED BY <3>1, <3>3, <3>5
  <2>8. contribs' = Append(e, c)
    <3> HIDE DEF a, b, c
    <3> QED BY <1>0, <2>1, <2>2, <2>5
  <2> HIDE DEF a, b, c
  <2>9. d \in Seq(Node) /\ Material(d) = Material(contribs) BY <1>0, <2>2, <2>6, <2>7
  <2> HIDE DEF d
  <2>10. e \in Seq(Node) /\ Material(e) = Material(d) BY <2>5, <2>6, <2>7, <2>9
  <2> HIDE DEF e
  <2>11. Material(contribs') = Material(contribs) BY <2>5, <2>6, <2>7, <2>8, <2>9, <2>10
  <2> QED BY <2>1, <2>11 DEF Still, Queue, Waiting
<1>3. ASSUME NEW x \in Items, Contribute(x) PROVE Ordered(Queue', read')
  <2> DEFINE m == Numbered(x, read + 1)
             n == <<m>>
             more == Material(n)
             mb == Material(made) \o Material(box255.list)
             p == Material(page)
             c == Material(contribs)
             t == TextOf(shipped)
  <2>1. /\ contribs' = Append(contribs, m) /\ read' = read + 1
        /\ UNCHANGED <<page, made, box255, shipped>>
    BY <1>3 DEF Contribute, out
  <2>2. read + 1 \in Nat \ {0} BY <1>0
  <2>3. m \in Node BY <2>2, NumberedType
  <2>4. n \in Seq(Node) BY <2>3
  <2>5. more = IF m.kind \in {"box", "mark"} /\ m.id # 0 THEN n ELSE <<>>
    <3> HIDE DEF m
    <3> QED BY <2>3, MaterialOne
  <2>6. m.kind \in {"box", "mark"} => m.id = read + 1
    <3>1. CASE x.kind \in {"box", "mark"}
      <4>1. m = [x EXCEPT !.id = read + 1] BY <3>1 DEF Numbered
      <4>2. x \in Pieces({0}, {0}) BY <3>1, ItemsAssumption
      <4> QED BY <3>1, <4>1, <4>2 DEF Pieces, Plain
    <3>2. CASE x.kind = "insert"
      <4>1. x \notin Pieces({0}, {0}) BY <3>2 DEF Pieces, Plain
      <4>2. x = Insert(x.class, x.list) BY <4>1, ItemsAssumption
      <4> DEFINE h == Size(x.list)
      <4>3. x = [kind |-> "insert", class |-> x.class, list |-> x.list, height |-> h]
        BY <4>2 DEF Insert
      <4> HIDE DEF h
      <4>4. m.kind = "insert" BY <3>2, <4>3 DEF Numbered
      <4> QED BY <4>4
    <3>3. CASE x.kind \notin {"box", "mark", "insert"}
      <4>1. m = x BY <3>3 DEF Numbered
      <4> QED BY <3>3, <4>1
    <3> QED BY <3>1, <3>2, <3>3
  <2>7. more = <<>> \/ (more = <<m>> /\ m.id = read + 1) BY <2>5, <2>6
  <2>8. Material(contribs') = c \o more
    <3>1. contribs' = contribs \o n BY <2>1, <1>0, <2>4
    <3> HIDE DEF n
    <3> QED BY <3>1, <1>0, <2>4, MaterialConcat
  <2>9. mb \in Seq(Piece) /\ p \in Seq(Piece) /\ c \in Seq(Piece) /\ t \in Seq(Piece)
        /\ more \in Seq(Piece) /\ Queue \in Seq(Piece)
    <3> HIDE DEF n
    <3> QED BY <2>4, MaterialOfParts, MaterialType, PiecesConcat
  <2>10. Queue = t \o (mb \o (p \o c)) BY DEF Queue, Waiting
  <2>11. Queue' = t \o (mb \o (p \o (c \o more))) BY <2>1, <2>8 DEF Queue, Waiting
  <2> HIDE DEF t, mb, p, c, more, m
  <2>12. Queue' = Queue \o more
    <3> DEFINE q1 == p \o c
               q2 == mb \o q1
    <3>1. q1 \in Seq(Piece) BY <2>9, PiecesConcat
    <3>2. p \o (c \o more) = q1 \o more
      <4>1. p \in Seq(Piece) /\ c \in Seq(Piece) /\ more \in Seq(Piece) BY <2>9
      <4> QED BY <4>1, PiecesAssociative
    <3> HIDE DEF q1
    <3>3. q2 \in Seq(Piece) BY <2>9, <3>1, PiecesConcat
    <3>4. mb \o (q1 \o more) = q2 \o more
      <4>1. mb \in Seq(Piece) /\ q1 \in Seq(Piece) /\ more \in Seq(Piece) BY <2>9, <3>1
      <4> QED BY <4>1, PiecesAssociative
    <3> HIDE DEF q2
    <3>5. t \o (q2 \o more) = (t \o q2) \o more
      <4>1. t \in Seq(Piece) /\ q2 \in Seq(Piece) /\ more \in Seq(Piece) BY <2>9, <3>3
      <4> QED BY <4>1, PiecesAssociative
    <3> QED BY <2>10, <2>11, <3>2, <3>4, <3>5 DEF q1, q2
  <2>13. CASE more = <<>>
    <3>1. Queue' = Queue BY <2>9, <2>12, <2>13, WithNothing
    <3>2. read \in Nat /\ (read + 1) = read + 1 BY <1>0
    <3>3. Ordered(Queue, read + 1)
      <4>1. \A i \in 1 .. Len(Queue) : Queue[i].id \in 1 .. read BY DEF Ordered
      <4>2. \A i \in 1 .. Len(Queue) : Queue[i].id \in 1 .. read + 1 BY <4>1, <1>0
      <4> QED BY <4>2 DEF Ordered
    <3> QED BY <2>1, <3>1, <3>3
  <2>14. CASE more = <<m>> /\ m.id = read + 1
    <3>1. Ordered(Queue \o <<m>>, read + 1) BY <1>0, <2>9, <2>14, OrderedMore
    <3> QED BY <2>1, <2>12, <2>14, <3>1
  <2> QED BY <2>7, <2>13, <2>14
<1> QED BY <1>1, <1>2, <1>3

\* The queue is empty at the start,
LEMMA OrderInit == Init => Ordered(Queue, read)
<1> SUFFICES ASSUME Init PROVE Ordered(Queue, read)
  OBVIOUS
<1>1. shipped = <<>> /\ made = <<>> /\ page = <<>> /\ contribs = <<>> /\ box255.list = <<>>
  BY DEF Init, NoBox
<1>2. <<>> \in Seq(LinePiece) OBVIOUS
<1>3. TextOf(shipped) = <<>> BY <1>1, <1>2, TextOfLines
<1>4. Queue = <<>> \o ((<<>> \o <<>>) \o (<<>> \o <<>>)) BY <1>1, <1>3, MaterialEmpty DEF Queue, Waiting
<1>5. Queue = <<>> BY <1>4
<1> QED BY <1>5 DEF Ordered, Increasing

\* stays in order at every step,
LEMMA OrderStep == TypeOK /\ Shape /\ TypeOK' /\ Shape' /\ Ordered(Queue, read) /\ [Next]_vars
                   => Ordered(Queue', read')
<1> SUFFICES ASSUME TypeOK, Shape, TypeOK', Shape', Ordered(Queue, read), [Next]_vars
             PROVE  Ordered(Queue', read')
  OBVIOUS
<1>0. read \in Nat BY BoundAssumption DEF TypeOK
<1>1. Still => Ordered(Queue', read') BY DEF Still
<1>2. CASE BuilderStep BY <1>1, <1>2, BuilderKeepsOrder
<1>3. CASE RoutineStep BY <1>0, <1>1, <1>3, RoutineKeepsOrder
<1>4. CASE End \/ EjectLastPages \/ Paragraph BY <1>1, <1>4, DocumentKeepsOrder
<1>5. ASSUME NEW x \in Items, Contribute(x) PROVE Ordered(Queue', read')
  BY <1>5, DocumentKeepsOrder
<1>6. CASE UNCHANGED vars
  <2>1. Still BY <1>6 DEF vars, Still, Queue, Waiting, lists, out
  <2> QED BY <1>1, <2>1
<1> QED BY <1>2, <1>3, <1>4, <1>5, <1>6 DEF Next

\* and its front is what the shipped pages show.
LEMMA OrderMeans == TypeOK /\ Shape /\ Ordered(Queue, read) => TextInOrder
<1> SUFFICES ASSUME TypeOK, Shape, Ordered(Queue, read) PROVE TextInOrder
  OBVIOUS
<1>0. read \in Nat BY BoundAssumption DEF TypeOK
<1> DEFINE t == TextOf(shipped)
           w == Waiting
<1>1. t \in Seq(Piece) /\ w \in Seq(Piece) BY MaterialOfParts
<1>2. Ordered(t \o w, read) BY DEF Queue
<1> HIDE DEF t, w
<1>3. <<>> \in Seq(Piece) /\ w \o <<>> = w /\ t \o <<>> = t BY <1>1
<1>4. Ordered(t \o (w \o <<>>), read) BY <1>2, <1>3
<1>5. Ordered(t \o <<>>, read) BY <1>0, <1>1, <1>3, <1>4, OrderedWithout
<1> QED BY <1>3, <1>5 DEF Ordered, TextInOrder, t

\* Boxes and marks of the text come out in the order in which they were
\* written, for every document and every \output: what is shipped, what the
\* routine holds, \box255, the page and the contributions, one behind the
\* other, stay in order (fire_up and the output routine's end in
\* src/engine.c).
THEOREM TextComesInOrder == Spec => []TextInOrder
<1>1. Init => TypeOK /\ Shape /\ Ordered(Queue, read) BY TypeInit, OrderInit
<1>2. (TypeOK /\ Shape /\ Ordered(Queue, read)) /\ [Next]_vars => (TypeOK /\ Shape /\ Ordered(Queue, read))'
  <2>1. Ordered(Queue, read)' <=> Ordered(Queue', read') BY DEF Ordered, Increasing
  <2> QED BY <2>1, TypeStep, OrderStep
<1>3. TypeOK /\ Shape /\ Ordered(Queue, read) => TextInOrder BY OrderMeans
<1> QED BY <1>1, <1>2, <1>3, PTL DEF Spec

------------------------------------------------------------------------------
(* The marks of what is on a page. *)

\* An empty list has no marks.
LEMMA MarksEmpty == MarksOf(<<>>) = <<>>
<1>1. <<>> \in Seq({}) OBVIOUS
<1>2. MarksOf(<<>>) = Spread(MarksOn({}), <<>>) BY <1>1, MarksOfIs
<1> QED BY <1>2, SpreadEmpty

\* A list's marks are those of its material.
LEMMA MarksOfMaterial ==
  ASSUME NEW list \in Seq(Node)
  PROVE  MarksOf(Material(list)) = MarksOf(list)
<1> DEFINE g == MatOn(Node)
           h == MarksOn(TextPiece)
           f == MarksOn(Node)
<1>1. Maps(g, Node, Seq(TextPiece)) BY MatMaps
<1>2. Maps(h, TextPiece, Seq(MarkOf(TextPiece))) /\ Maps(f, Node, Seq(MarkOf(Node)))
  <2>1. <<>> \in Seq(TextPiece) OBVIOUS
  <2> QED BY <2>1, MarksOfIs
<1>3. ASSUME NEW n \in Node PROVE Spread(h, g[n]) = f[n]
  <2>1. CASE n.kind \in {"box", "mark"} /\ n.id # 0
    <3>1. g[n] = <<n>> BY <2>1 DEF MatOn
    <3>2. n \in TextPiece BY <2>1 DEF TextPiece
    <3>3. h[n] = f[n] BY <3>2 DEF MarksOn
    <3> HIDE DEF h
    <3>4. Spread(h, <<n>>) = h[n] BY <1>2, <3>2, SpreadOne
    <3> QED BY <3>1, <3>3, <3>4
  <2>2. CASE ~(n.kind \in {"box", "mark"} /\ n.id # 0)
    <3>1. g[n] = <<>> BY <2>2 DEF MatOn
    <3>2. n.kind # "mark" BY <2>2, NodeFacts
    <3>3. f[n] = <<>> BY <3>2 DEF MarksOn
    <3> QED BY <3>1, <3>3, SpreadEmpty
  <2> QED BY <2>1, <2>2
<1>4. Material(list) = Spread(g, list) BY MaterialIs
<1>5. Material(list) \in Seq(TextPiece) BY MaterialType
<1>6. MarksOf(Material(list)) = Spread(h, Material(list)) BY <1>5, MarksOfIs
<1>7. MarksOf(list) = Spread(f, list) BY MarksOfIs
<1> DEFINE S1 == MarkOf(TextPiece)
           S2 == MarkOf(Node)
<1>8. MarkOf(TextPiece) \subseteq MarkOf(Node) BY DEF MarkOf, TextPiece
<1>9. Maps(h, TextPiece, Seq(S2))
  <2>1. Maps(h, TextPiece, Seq(S1)) BY <1>2
  <2>2. S1 \subseteq S2 BY <1>8
  <2> HIDE DEF h, S1, S2
  <2>3. Seq(S1) \subseteq Seq(S2) BY <2>2
  <2> QED BY <2>1, <2>3 DEF Maps
<1>10. Maps(f, Node, Seq(S2)) BY <1>2
<1> HIDE DEF g, h, f, S1, S2
<1>11. Spread(h, Spread(g, list)) = Spread(f, list)
  <2>1. \A n \in Node : Spread(h, g[n]) = f[n] BY <1>3
  <2> QED BY <1>1, <1>9, <1>10, <2>1, SpreadTwice
<1> QED BY <1>4, <1>6, <1>7, <1>11

\* Taking the insertions out of a page takes no mark.
LEMMA MarksOfTextAlone ==
  ASSUME NEW list \in Seq(Node)
  PROVE  MarksOf(TextAlone(list)) = MarksOf(list)
<1> DEFINE g == AloneOn(Node)
           f == MarksOn(Node)
           S2 == MarkOf(Node)
<1>1. Maps(g, Node, Seq(Node)) /\ TextAlone(list) = Spread(g, list) /\ TextAlone(list) \in Seq(Node)
  BY TextAloneIs
<1>2. Maps(f, Node, Seq(S2)) BY MarksOfIs
<1>3. ASSUME NEW n \in Node PROVE Spread(f, g[n]) = f[n]
  <2>1. CASE n.kind # "insert"
    <3>1. g[n] = <<n>> BY <2>1 DEF AloneOn
    <3> HIDE DEF f, S2
    <3>2. Spread(f, <<n>>) = f[n] BY <1>2, SpreadOne
    <3> QED BY <3>1, <3>2
  <2>2. CASE n.kind = "insert"
    <3>1. g[n] = <<>> BY <2>2 DEF AloneOn
    <3>2. f[n] = <<>> BY <2>2 DEF MarksOn
    <3> QED BY <3>1, <3>2, SpreadEmpty
  <2> QED BY <2>1, <2>2
<1>4. MarksOf(TextAlone(list)) = Spread(f, TextAlone(list)) /\ MarksOf(list) = Spread(f, list)
  BY <1>1, MarksOfIs
<1> HIDE DEF g, f, S2
<1>5. \A n \in Node : Spread(f, g[n]) = f[n] BY <1>3
<1>6. Spread(f, Spread(g, list)) = Spread(f, list) BY <1>1, <1>2, <1>5, SpreadTwice
<1> QED BY <1>1, <1>4, <1>6

\* Lines of insertions carry no mark of the page.
LEMMA MarksOfLines ==
  ASSUME NEW list \in Seq(LinePiece)
  PROVE  MarksOf(list) = <<>>
<1>1. MarkOf(LinePiece) = {} BY PieceFacts DEF MarkOf
<1>2. MarksOf(list) \in Seq({}) BY <1>1, MarksOfIs
<1> QED BY <1>2

\* The marks of joined lists are those of each.
LEMMA MarksConcat ==
  \A a, b \in Seq(Piece) : /\ MarksOf(a \o b) = MarksOf(a) \o MarksOf(b)
                           /\ MarksOf(a) \in Seq(MarkOf(Piece))
<1> SUFFICES ASSUME NEW a \in Seq(Piece), NEW b \in Seq(Piece)
             PROVE  MarksOf(a \o b) = MarksOf(a) \o MarksOf(b) /\ MarksOf(a) \in Seq(MarkOf(Piece))
  OBVIOUS
<1> DEFINE f == MarksOn(Piece)
           S == MarkOf(Piece)
<1>1. a \o b \in Seq(Piece) BY PiecesConcat
<1>2. MarksOf(a) = Spread(f, a) /\ Maps(f, Piece, Seq(S)) /\ MarksOf(a) \in Seq(S) BY MarksOfIs
<1>3. MarksOf(b) = Spread(f, b) BY MarksOfIs
<1>4. MarksOf(a \o b) = Spread(f, a \o b) BY <1>1, MarksOfIs
<1> HIDE DEF f, S
<1>m. Maps(f, Piece, Seq(S)) BY <1>2
<1>5. Spread(f, a \o b) = Spread(f, a) \o Spread(f, b) BY <1>m, SpreadConcat
<1> QED BY <1>2, <1>3, <1>4, <1>5 DEF S

\* The last mark of two lists is the second's, if it has one.
LEMMA LastOfTwo ==
  ASSUME NEW S, NEW a \in Seq(S), NEW b \in Seq(S)
  PROVE  LastId(a \o b) = IF b = <<>> THEN LastId(a) ELSE Last(b).id
<1>1. CASE b = <<>>
  <2>1. a \o b = a BY <1>1
  <2> QED BY <1>1, <2>1
<1>2. CASE b # <<>>
  <2>1. Len(a) \in Nat /\ Len(b) \in Nat /\ Len(b) >= 1 /\ Len(a \o b) = Len(a) + Len(b) BY <1>2
  <2>2. (a \o b)[Len(a) + Len(b)] = b[Len(b)] BY <2>1
  <2>3. a \o b # <<>> BY <2>1
  <2> QED BY <1>2, <2>1, <2>2, <2>3 DEF LastId, Last
<1> QED BY <1>1, <1>2

\* Between pages \botmark is the last mark that was shipped; while \box255
\* has a page it is the last one up to its end.
MarksFollow ==
  putBack = "never" /\ gone = <<>> =>
     /\ marks.bot = LastId(MarksOf(shipped) \o MarksOf(box255.list))
     /\ marks.bot = 0 => marks.top = 0
     /\ MarksAreThePages

\* The marks when a page is sent off.
LEMMA FireUpMarks ==
  ASSUME TypeOK, Shape, MarksFollow, pc = "building",
         NEW k \in 0 .. Len(page), NEW part, part = SubSeq(page, 1, k),
         NEW b, FireUp(part, b)
  PROVE  MarksFollow'
<1> SUFFICES ASSUME putBack' = "never" /\ gone' = <<>>
             PROVE  /\ marks'.bot = LastId(MarksOf(shipped') \o MarksOf(box255'.list))
                    /\ marks'.bot = 0 => marks'.top = 0
                    /\ MarksAreThePages'
  BY DEF MarksFollow
<1> DEFINE packed == IF holding THEN part ELSE TextAlone(part)
           runs   == Routine /\ ~Overworked
           old    == MarksOf(shipped)
           on     == MarksOf(part)
<1>1. page \in Seq(Node) /\ shipped \in Seq(Piece) /\ gone \in Seq(Piece) /\ box255 = NoBox
  BY DEF TypeOK, Shape
<1>2. part \in Seq(Node) BY <1>1, CutInTwo
<1>3. /\ box255' = IF runs THEN [void |-> FALSE, list |-> packed, size |-> b.size] ELSE NoBox
      /\ shipped' = IF runs THEN shipped ELSE shipped \o Material(packed)
      /\ gone' = gone \o Material(box255.list) \o (IF runs THEN <<>> ELSE LinesOf(packed))
      /\ marks' = Marked(part) /\ putBack' = putBack
      /\ pc' = IF runs THEN "routine" ELSE "building"
  BY FireUpIs, Zenon
<1>4. packed \in Seq(Node) BY <1>2, TextAloneIs
<1>5. gone = <<>>
  <2> DEFINE x == Material(box255.list)
             y == IF runs THEN <<>> ELSE LinesOf(packed)
  <2>1. x \in Seq(Piece)
    <3>1. x = <<>> BY <1>1, MaterialEmpty DEF NoBox
    <3>2. <<>> \in Seq(Piece) OBVIOUS
    <3> QED BY <3>1, <3>2
  <2>2. y \in Seq(Piece)
    <3>1. <<>> \in Seq(Piece) OBVIOUS
    <3> QED BY <1>4, <3>1, LinesOfType, PiecesConcat
  <2>3. (gone \o x) \o y = <<>> BY <1>3
  <2> HIDE DEF x, y
  <2> QED BY <1>1, <2>1, <2>2, <2>3
<1>6. /\ marks.bot = LastId(old \o MarksOf(<<>>)) /\ (marks.bot = 0 => marks.top = 0)
  BY <1>1, <1>3, <1>5 DEF MarksFollow, NoBox
<1>7. old \in Seq(MarkOf(Piece)) BY <1>1, MarksConcat
<1>8. MarksOf(packed) = on BY <1>2, MarksOfTextAlone
<1>9. on \in Seq(MarkOf(Node)) BY <1>2, MarksOfIs
<1>10. \A i \in 1 .. Len(on) : on[i].id # 0
  <2>1. \A n \in MarkOf(Node) : n.id # 0 BY NodeFacts DEF MarkOf
  <2> QED BY <1>9, <2>1
<1> DEFINE S == MarkOf(Node) \cup MarkOf(Piece)
<1>11. old \in Seq(S) /\ on \in Seq(S)
  <2>1. MarkOf(Node) \subseteq S /\ MarkOf(Piece) \subseteq S OBVIOUS
  <2> HIDE DEF S, old, on
  <2> QED BY <2>1, <1>7, <1>9
<1>12. marks.bot = LastId(old)
  <2> HIDE DEF old
  <2>1. old \o <<>> = old BY <1>7
  <2> QED BY <1>6, <2>1, MarksEmpty
<1>13. marks' = [top   |-> LastId(old),
                 first |-> IF on = <<>> THEN LastId(old) ELSE Head(on).id,
                 bot   |-> IF on = <<>> THEN LastId(old) ELSE Last(on).id]
  <2> HIDE DEF old
  <2>1. (IF marks.bot # 0 THEN marks.bot ELSE marks.top) = LastId(old) BY <1>6, <1>12
  <2> QED BY <2>1, <1>3, <1>12 DEF Marked
<1> DEFINE bot == IF on = <<>> THEN LastId(old) ELSE Last(on).id
<1>14. LastId(old \o on) = bot
  <2> HIDE DEF S, old, on
  <2> QED BY <1>11, LastOfTwo
<1>15. bot = 0 => LastId(old) = 0
  <2> HIDE DEF old
  <2>1. on # <<>> => Last(on).id # 0
    <3> HIDE DEF on
    <3>1. on # <<>> => Len(on) \in 1 .. Len(on) BY <1>9
    <3> QED BY <3>1, <1>10 DEF Last
  <2> QED BY <2>1
<1>16. MarksOf(shipped') \o MarksOf(box255'.list) = old \o on
  <2>1. CASE runs
    <3>1. box255'.list = packed /\ shipped' = shipped BY <1>3, <2>1
    <3> QED BY <3>1, <1>8
  <2>2. CASE ~runs
    <3> DEFINE x == Material(packed)
    <3>1. x \in Seq(Piece) BY <1>4, MaterialType, PiecesConcat
    <3>2. MarksOf(x) = on BY <1>4, <1>8, MarksOfMaterial
    <3>3. shipped' = shipped \o x /\ box255'.list = <<>> BY <1>3, <2>2 DEF NoBox
    <3> HIDE DEF x
    <3>4. MarksOf(shipped') = old \o on BY <1>1, <3>1, <3>2, <3>3, MarksConcat
    <3> DEFINE y == old \o on
    <3>5. y \in Seq(S)
      <4> HIDE DEF S, old, on
      <4> QED BY <1>11
    <3> HIDE DEF y, S
    <3>6. y \o <<>> = y BY <3>5
    <3> QED BY <3>3, <3>4, <3>6, MarksEmpty DEF y
  <2> QED BY <2>1, <2>2
<1>17. MarksAreThePages'
  <2>1. CASE runs
    <3>1. box255'.list = packed /\ shipped' = shipped BY <1>3, <2>1
    <3>2. MarksOf(shipped') = old /\ MarksOf(box255'.list) = on BY <3>1, <1>8
    <3> HIDE DEF old, on, packed
    <3> QED BY <3>2, <1>13 DEF MarksAreThePages
  <2>2. CASE ~runs
    <3>1. pc' # "routine" BY <1>3, <2>2
    <3> QED BY <3>1 DEF MarksAreThePages
  <2> QED BY <2>1, <2>2
<1>18. marks'.bot = bot /\ marks'.top = LastId(old)
  <2> HIDE DEF old, on
  <2> QED BY <1>13
<1> HIDE DEF old, on, bot
<1> QED BY <1>14, <1>15, <1>16, <1>17, <1>18

\* Steps that ship nothing and take no page.
LEMMA MarksStay ==
  ASSUME MarksFollow, UNCHANGED <<marks, shipped, gone, putBack, box255>>,
         pc' = "routine" => pc = "routine"
  PROVE  MarksFollow'
BY DEF MarksFollow, MarksAreThePages

\* A shipped page has its marks recorded.
LEMMA ShippedMarks ==
  ASSUME TypeOK, Shape, MarksFollow, ~box255.void, NEW lines \in Seq(LinePiece), NEW lost,
         lost \in Seq(Piece), ShipOut(Material(box255.list) \o lines, lost)
  PROVE  MarksFollow'
<1> DEFINE x == Material(box255.list)
           xl == x \o lines
           old == MarksOf(shipped)
           on == MarksOf(box255.list)
<1>1. /\ shipped' = shipped \o xl /\ box255' = NoBox /\ gone' = gone \o lost
      /\ UNCHANGED <<marks, putBack>>
  BY DEF ShipOut
<1>2. shipped \in Seq(Piece) /\ gone \in Seq(Piece) BY DEF Shape
<1>3. box255.list \in Seq(Node) BY DEF TypeOK
<1>4. x \in Seq(Piece) /\ lines \in Seq(Piece) BY <1>3, MaterialType, PiecesConcat
<1>5. MarksOf(x) = on /\ MarksOf(lines) = <<>> BY <1>3, MarksOfMaterial, MarksOfLines
<1>6. MarksOf(x) \in Seq(MarkOf(Piece)) BY <1>4, MarksConcat
<1>7. xl \in Seq(Piece) /\ MarksOf(xl) = MarksOf(x) \o MarksOf(lines)
  <2> HIDE DEF x
  <2> QED BY <1>4, PiecesConcat, MarksConcat
<1>8. MarksOf(xl) = on
  <2> HIDE DEF x, on
  <2>1. MarksOf(x) \o <<>> = MarksOf(x) BY <1>6
  <2> QED BY <2>1, <1>5, <1>7
<1> HIDE DEF xl
<1>9. MarksOf(shipped') = old \o on BY <1>1, <1>2, <1>7, <1>8, MarksConcat
<1>10. MarksOf(box255'.list) = <<>> /\ box255'.void BY <1>1, MarksEmpty DEF NoBox
<1>11. (old \o on) \o <<>> = old \o on
  <2>1. old \in Seq(MarkOf(Piece)) /\ on \in Seq(MarkOf(Piece)) BY <1>2, <1>5, <1>6, MarksConcat
  <2> HIDE DEF old, on
  <2>2. old \o on \in Seq(MarkOf(Piece)) BY <2>1
  <2> QED BY <2>2
<1>12. gone' = <<>> => gone = <<>>
  <2>1. gone' = gone \o lost BY <1>1
  <2>2. Len(gone \o lost) = Len(gone) + Len(lost) /\ Len(gone) \in Nat /\ Len(lost) \in Nat BY <1>2
  <2>3. gone' = <<>> => Len(gone) = 0 BY <2>1, <2>2
  <2> QED BY <1>2, <2>3
<1>13. MarksOf(shipped') \o MarksOf(box255'.list) = old \o on BY <1>9, <1>10, <1>11
<1> HIDE DEF old, on
<1>14. MarksAreThePages' BY <1>10 DEF MarksAreThePages
<1> QED BY <1>1, <1>12, <1>13, <1>14 DEF MarksFollow, old, on

\* The marks are right at the start,
LEMMA MarksInit == Init => MarksFollow
<1> SUFFICES ASSUME Init PROVE MarksFollow
  OBVIOUS
<1>1. shipped = <<>> /\ box255.list = <<>> /\ marks.bot = 0 /\ marks.top = 0 /\ pc = "reading"
  BY DEF Init, NoBox, NoMarks
<1>2. MarksOf(shipped) \o MarksOf(box255.list) = <<>> BY <1>1, MarksEmpty
<1>3. LastId(<<>>) = 0 BY DEF LastId
<1> QED BY <1>1, <1>2, <1>3 DEF MarksFollow, MarksAreThePages

\* and every step keeps them right.
LEMMA MarksStep == TypeOK /\ Shape /\ MarksFollow /\ [Next]_vars => MarksFollow'
<1> SUFFICES ASSUME TypeOK, Shape, MarksFollow, [Next]_vars PROVE MarksFollow'
  OBVIOUS
<1>0. /\ page \in Seq(Node) /\ box255.list \in Seq(Node) /\ boxes \in [Classes -> Seq(LineNode)]
      /\ gone \in Seq(Piece) /\ shipped \in Seq(Piece)
  BY DEF TypeOK, Shape
<1>1. ASSUME NEW m, NEW g, NEW b, NEW list, Settle(m, g, b, list) PROVE MarksFollow'
  BY <1>1, MarksStay DEF Settle, cycle, out
<1>2. CASE BuilderStep
  <2>1. ASSUME Carry \/ Discard \/ Weigh PROVE MarksFollow'
    BY <2>1, <1>1 DEF Carry, Discard, Weigh
  <2>2. ASSUME PutOff \/ TakeWhole \/ TakePart PROVE MarksFollow'
    <3>1. \E record, g, cost : TakeInsert(record, g, cost) BY <2>2 DEF PutOff, TakeWhole, TakePart
    <3> QED BY <3>1, <1>1 DEF TakeInsert
  <2>3. ASSUME FirstBox PROVE MarksFollow'
    <3>1. pc = "building"
          /\ \/ \E b : FireUp(page, b)
             \/ \E m, g, b, list : Settle(m, g, b, list)
      BY <2>3 DEF FirstBox, Building
    <3>2. Len(page) \in 0 .. Len(page) /\ page = SubSeq(page, 1, Len(page)) BY <1>0
    <3> QED BY <3>1, <3>2, <1>1, FireUpMarks
  <2>4. ASSUME BreakPage PROVE MarksFollow'
    <3>1. pc = "building" /\ contribs # <<>> BY <2>4 DEF BreakPage, Building
    <3> DEFINE b == BestHere
               part == SubSeq(page, 1, b.at)
    <3>2. FireUp(part, b) BY <2>4 DEF BreakPage
    <3>3. b \in [at : 0 .. Len(page), penalty : Int, size : Int, cost : Int]
      BY <3>1, HereTypes
    <3>4. b.at \in 0 .. Len(page) BY <3>3
    <3> HIDE DEF b
    <3> QED BY <3>1, <3>2, <3>4, FireUpMarks
  <2>5. ASSUME Rest PROVE MarksFollow'
    BY <2>5, MarksStay DEF Rest, cycle, out
  <2> QED BY <1>2, <2>1, <2>2, <2>3, <2>4, <2>5 DEF BuilderStep
<1>3. CASE RoutineStep
  <2> DEFINE x == Material(box255.list)
             y == LinesOf(box255.list)
  <2>0. x \in Seq(Piece) /\ y \in Seq(Piece) BY <1>0, MaterialType, LinesOfType, PiecesConcat
  <2>1. ASSUME ShipBare PROVE MarksFollow'
    <3>1. ~box255.void /\ ShipOut(x, y) BY <2>1 DEF ShipBare
    <3>2. <<>> \in Seq(LinePiece) /\ x \o <<>> = x
      <4> HIDE DEF x
      <4> QED BY <2>0
    <3>3. ShipOut(x \o <<>>, y) BY <3>1, <3>2
    <3> QED BY <2>0, <3>1, <3>2, <3>3, ShippedMarks
  <2>2. ASSUME ShipWhole PROVE MarksFollow'
    <3>1. ~box255.void /\ ShipOut(x \o Stored(boxes), y) BY <2>2 DEF ShipWhole, Stored
    <3>2. Stored(boxes) \in Seq(LinePiece) BY <1>0, StoredIs
    <3> QED BY <2>0, <3>1, <3>2, ShippedMarks
  <2>3. ASSUME LetInsertsGo PROVE MarksFollow'
    BY <2>3, MarksStay DEF LetInsertsGo, cycle, out
  <2>4. ASSUME NEW again \in BOOLEAN, Unbox(again) PROVE MarksFollow'
    <3>1. putBack' # "never" BY <2>4 DEF Unbox
    <3> QED BY <3>1 DEF MarksFollow
  <2>5. ASSUME EndRoutine PROVE MarksFollow'
    <3>1. /\ gone' = gone \o x \o y /\ box255' = NoBox /\ pc' = "building"
          /\ UNCHANGED <<marks, shipped, putBack>>
      BY <2>5 DEF EndRoutine, cycle
    <3> SUFFICES ASSUME gone' = <<>>, putBack' = "never" PROVE MarksFollow'
      BY DEF MarksFollow
    <3> HIDE DEF x, y
    <3>2. gone = <<>> /\ x = <<>>
      <4> DEFINE gx == gone \o x
      <4>1. gx \in Seq(Piece) /\ Len(gx) = Len(gone) + Len(x) /\ Len(gone) \in Nat /\ Len(x) \in Nat
        BY <1>0, <2>0
      <4>2. gx \o y = <<>> BY <3>1
      <4> HIDE DEF gx
      <4>3. Len(gx \o y) = Len(gx) + Len(y) /\ Len(gx) \in Nat /\ Len(y) \in Nat BY <2>0, <4>1
      <4>4. Len(gx) = 0 BY <4>2, <4>3
      <4>5. Len(gone) = 0 /\ Len(x) = 0 BY <4>1, <4>4
      <4> QED BY <4>5, <1>0, <2>0
    <3>3. MarksOf(box255.list) = <<>>
      <4>1. MarksOf(x) = MarksOf(box255.list) BY <1>0, MarksOfMaterial DEF x
      <4> QED BY <4>1, <3>2, MarksEmpty
    <3>4. MarksOf(box255'.list) = <<>> BY <3>1, MarksEmpty DEF NoBox
    <3> DEFINE old == MarksOf(shipped)
    <3> QED BY <3>1, <3>2, <3>3, <3>4 DEF MarksFollow, MarksAreThePages
  <2> QED BY <1>3, <2>1, <2>2, <2>3, <2>4, <2>5 DEF RoutineStep
<1>4. CASE End \/ EjectLastPages \/ Paragraph \/ \E x \in Items : Contribute(x)
  <2>1. UNCHANGED <<marks, shipped, gone, putBack, box255>>
    BY <1>4 DEF End, EjectLastPages, Paragraph, Contribute, cycle, out
  <2>2. pc = "reading" /\ pc' # "routine"
    BY <1>4 DEF End, EjectLastPages, Paragraph, Contribute
  <2> QED BY <2>1, <2>2, MarksStay
<1>5. CASE UNCHANGED vars
  BY <1>5, MarksStay DEF vars, cycle, out
<1> QED BY <1>2, <1>3, <1>4, <1>5 DEF Next

\* While a routine runs the three marks are those of its page, for every
\* document and every \output: \topmark the last mark shipped before it, the
\* other two its own first and last (fire_up in src/engine.c).  Nothing may
\* have been put back or thrown away before: such marks have been seen.
THEOREM MarksAreRight == Spec => []MarksAreThePages
<1>1. Init => TypeOK /\ Shape /\ MarksFollow BY TypeInit, MarksInit
<1>2. (TypeOK /\ Shape /\ MarksFollow) /\ [Next]_vars => (TypeOK /\ Shape /\ MarksFollow)'
  BY TypeStep, MarksStep
<1>3. TypeOK /\ Shape /\ MarksFollow => MarksAreThePages BY DEF MarksFollow, MarksAreThePages
<1> QED BY <1>1, <1>2, <1>3, PTL DEF Spec

-------------------------------------------------------------------------------
(* Sums over a set of classes. *)

\* f gives each part of C the sum of its numbers w, with k for each, as FoldSet
\* takes it: one element is picked and the others follow.
IsSum(f, w, k, C) ==
  f = [s \in SUBSET C |-> IF s = {} THEN 0
                          ELSE f[s \ {CHOOSE x \in s : TRUE}] + w[CHOOSE x \in s : TRUE] + k]

\* The parts of C with at most n elements.
Few(C, n) == {s \in SUBSET C : Cardinality(s) <= n}

\* A set that is not empty has one fewer elements without one of them.
LEMMA OneFewer ==
  ASSUME NEW C, IsFiniteSet(C), NEW n \in Nat, NEW s \in Few(C, n + 1), NEW x \in s
  PROVE  s \ {x} \in Few(C, n)
<1>1. IsFiniteSet(s) /\ s \subseteq C /\ Cardinality(s) <= n + 1 BY FS_Subset DEF Few
<1>2. Cardinality(s \ {x}) = Cardinality(s) - 1 BY <1>1, FS_RemoveElement
<1>3. Cardinality(s) \in Nat BY <1>1, FS_CardinalityType
<1> QED BY <1>1, <1>2, <1>3 DEF Few

\* Only the empty set has no elements, and every part of a finite set is among
\* those with few enough.
LEMMA FewFacts ==
  ASSUME NEW C, IsFiniteSet(C)
  PROVE  /\ Few(C, 0) = {{}}
         /\ Cardinality(C) \in Nat /\ Few(C, Cardinality(C)) = SUBSET C
         /\ \A n \in Nat : Few(C, n) \subseteq Few(C, n + 1) /\ {} \in Few(C, n)
<1>1. ASSUME NEW s \in SUBSET C PROVE IsFiniteSet(s) /\ Cardinality(s) \in Nat
                                      /\ Cardinality(s) <= Cardinality(C)
  BY FS_Subset, FS_CardinalityType
<1>2. \A s \in SUBSET C : Cardinality(s) <= 0 <=> s = {}
  <2> TAKE s \in SUBSET C
  <2>1. IsFiniteSet(s) /\ Cardinality(s) \in Nat BY <1>1
  <2>2. Cardinality(s) = 0 <=> s = {} BY <2>1, FS_EmptySet
  <2> QED BY <2>1, <2>2
<1>3. Cardinality({}) = 0 BY FS_EmptySet
<1>4. Few(C, 0) = {{}} BY <1>2 DEF Few
<1>5. Few(C, Cardinality(C)) = SUBSET C BY <1>1 DEF Few
<1>6. \A n \in Nat : Few(C, n) \subseteq Few(C, n + 1) /\ {} \in Few(C, n)
  BY <1>1, <1>3 DEF Few
<1> QED BY <1>4, <1>5, <1>6, FS_CardinalityType

\* There is such an f.
LEMMA SumExists ==
  ASSUME NEW C, IsFiniteSet(C), NEW w, \A x \in C : w[x] \in Int, NEW k \in Int
  PROVE  \E f \in [SUBSET C -> Int] : IsSum(f, w, k, C)
<1> DEFINE Step(f, s) == IF s = {} THEN 0
                         ELSE f[s \ {CHOOSE x \in s : TRUE}] + w[CHOOSE x \in s : TRUE] + k
           Q(n) == \E f \in [Few(C, n) -> Int] : \A s \in Few(C, n) : f[s] = Step(f, s)
           T == {n \in Nat : Q(n)}
<1>1. Q(0)
  <2> DEFINE f == [s \in Few(C, 0) |-> 0]
  <2>1. f \in [Few(C, 0) -> Int] OBVIOUS
  <2>2. \A s \in Few(C, 0) : f[s] = Step(f, s) BY FewFacts
  <2> QED BY <2>1, <2>2
<1>2. ASSUME NEW n \in Nat, Q(n) PROVE Q(n + 1)
  <2>1. PICK f \in [Few(C, n) -> Int] : \A s \in Few(C, n) : f[s] = Step(f, s) BY <1>2
  <2> DEFINE g == [s \in Few(C, n + 1) |-> Step(f, s)]
  <2>2. ASSUME NEW s \in Few(C, n + 1), s # {}
        PROVE  LET x == CHOOSE x \in s : TRUE IN x \in s /\ x \in C /\ s \ {x} \in Few(C, n)
    <3> DEFINE x == CHOOSE x \in s : TRUE
    <3>1. x \in s BY <2>2
    <3> HIDE DEF x
    <3>2. x \in C BY <3>1 DEF Few
    <3>3. s \ {x} \in Few(C, n) BY <3>1, OneFewer
    <3> QED BY <3>1, <3>2, <3>3 DEF x
  <2>3. \A s \in Few(C, n + 1) : Step(f, s) \in Int
    <3> TAKE s \in Few(C, n + 1)
    <3>1. CASE s = {} BY <3>1
    <3>2. CASE s # {}
      <4> DEFINE x == CHOOSE x \in s : TRUE
      <4>1. x \in C /\ s \ {x} \in Few(C, n) BY <3>2, <2>2
      <4> HIDE DEF x
      <4>2. f[s \ {x}] \in Int /\ w[x] \in Int BY <4>1, <2>1
      <4>3. f[s \ {x}] + w[x] + k \in Int BY <4>2
      <4> QED BY <3>2, <4>3 DEF x
    <3> QED BY <3>1, <3>2
  <2>4. g \in [Few(C, n + 1) -> Int]
    <3> HIDE DEF Step
    <3> QED BY <2>3
  <2>5. \A s \in Few(C, n) : g[s] = f[s]
    <3> TAKE s \in Few(C, n)
    <3>1. s \in Few(C, n + 1) BY FewFacts
    <3>2. f[s] = Step(f, s) BY <2>1
    <3> HIDE DEF Step
    <3> QED BY <3>1, <3>2
  <2>6. ASSUME NEW s \in Few(C, n + 1) PROVE g[s] = Step(g, s)
    <3>1. g[s] = Step(f, s)
      <4> HIDE DEF Step
      <4> QED OBVIOUS
    <3>2. CASE s = {} BY <3>1, <3>2
    <3>3. CASE s # {}
      <4> DEFINE x == CHOOSE x \in s : TRUE
      <4>1. s \ {x} \in Few(C, n) BY <3>3, <2>2
      <4> HIDE DEF x, g
      <4>2. g[s \ {x}] = f[s \ {x}] BY <4>1, <2>5
      <4> QED BY <3>1, <3>3, <4>2 DEF x
    <3> QED BY <3>2, <3>3
  <2> HIDE DEF Step, g
  <2> QED BY <2>4, <2>6
<1>3. Q(Cardinality(C))
  <2> HIDE DEF Q
  <2>1. 0 \in T /\ \A n \in Nat : n \in T => n + 1 \in T BY <1>1, <1>2
  <2>2. Nat \subseteq T
    <3> HIDE DEF T
    <3> QED BY <2>1, NatInd
  <2> QED BY <2>2, FewFacts
<1>4. PICK f \in [SUBSET C -> Int] : \A s \in SUBSET C : f[s] = Step(f, s)
  <2>1. Few(C, Cardinality(C)) = SUBSET C BY FewFacts
  <2> HIDE DEF Step
  <2> QED BY <1>3, <2>1
<1>5. f = [s \in SUBSET C |-> Step(f, s)]
  <2> HIDE DEF Step
  <2> QED BY <1>4
<1> QED BY <1>5 DEF IsSum

\* Sums that can be taken apart at any of their elements.
Parts(f, w, k, C) ==
  \A s \in SUBSET C : f[s] \in Int /\ \A y \in s : f[s] = f[s \ {y}] + w[y] + k

\* So can such a sum.
LEMMA SumWithout ==
  ASSUME NEW C, IsFiniteSet(C), NEW w, \A x \in C : w[x] \in Int, NEW k \in Int,
         NEW f, IsSum(f, w, k, C)
  PROVE  Parts(f, w, k, C)
<1> DEFINE pick(t) == CHOOSE x \in t : TRUE
           IsApart(t) == f[t] \in Int /\ \A z \in t : f[t] = f[t \ {z}] + w[z] + k
           Q(n) == \A t \in Few(C, n) : IsApart(t)
           T == {n \in Nat : Q(n)}
<1>0. \A t \in SUBSET C : f[t] = IF t = {} THEN 0 ELSE f[t \ {pick(t)}] + w[pick(t)] + k
  BY DEF IsSum
<1>p. \A t : t # {} => pick(t) \in t OBVIOUS
<1> HIDE DEF pick
<1>1. Q(0)
  <2>1. f[{}] = 0 BY <1>0
  <2>2. IsApart({}) BY <2>1
  <2>3. \A t \in Few(C, 0) : t = {} BY FewFacts
  <2> HIDE DEF IsApart
  <2> QED BY <2>2, <2>3
<1>2. ASSUME NEW n \in Nat, Q(n) PROVE Q(n + 1)
  <2> SUFFICES ASSUME NEW t \in Few(C, n + 1) PROVE IsApart(t)
    OBVIOUS
  <2>1. CASE t = {}
    <3>1. f[t] = 0 BY <2>1, <1>0
    <3> QED BY <2>1, <3>1
  <2>2. CASE t # {}
    <3> DEFINE x == pick(t)
    <3>1. x \in t BY <2>2, <1>p
    <3>2. f[t] = f[t \ {x}] + w[x] + k BY <2>2, <1>0 DEF Few
    <3> HIDE DEF x
    <3>3. t \ {x} \in Few(C, n) /\ w[x] \in Int BY <3>1, OneFewer DEF Few
    <3>4. f[t \ {x}] \in Int BY <3>3, <1>2
    <3>5. f[t] \in Int BY <3>2, <3>3, <3>4
    <3>6. ASSUME NEW z \in t PROVE f[t] = f[t \ {z}] + w[z] + k
      <4>1. CASE z = x BY <4>1, <3>2
      <4>2. CASE z # x
        <5> DEFINE r == (t \ {x}) \ {z}
        <5>1. z \in t \ {x} /\ x \in t \ {z} /\ (t \ {z}) \ {x} = r BY <4>2, <3>1
        <5>2. t \ {z} \in Few(C, n) /\ w[z] \in Int BY <3>6, OneFewer DEF Few
        <5> HIDE DEF r
        <5>3. f[t \ {x}] = f[r] + w[z] + k BY <5>1, <3>3, <1>2 DEF r
        <5>4. f[t \ {z}] = f[r] + w[x] + k BY <5>1, <5>2, <1>2
        <5>5. f[r] \in Int
          <6>1. r \in Few(C, n)
            <7>1. r \subseteq t \ {x} /\ IsFiniteSet(t \ {x}) /\ t \ {x} \subseteq C
              BY <3>3, FS_Subset DEF r, Few
            <7>2. Cardinality(r) <= Cardinality(t \ {x}) /\ IsFiniteSet(r) BY <7>1, FS_Subset
            <7>3. Cardinality(r) \in Nat /\ Cardinality(t \ {x}) \in Nat /\ Cardinality(t \ {x}) <= n
              BY <7>1, <7>2, <3>3, FS_CardinalityType DEF Few
            <7> QED BY <7>1, <7>2, <7>3 DEF Few
          <6> QED BY <6>1, <1>2
        <5> QED BY <5>2, <5>3, <5>4, <5>5, <3>2, <3>3
      <4> QED BY <4>1, <4>2
    <3> QED BY <3>5, <3>6
  <2> QED BY <2>1, <2>2
<1>3. Q(Cardinality(C))
  <2> HIDE DEF Q
  <2>1. 0 \in T /\ \A n \in Nat : n \in T => n + 1 \in T BY <1>1, <1>2
  <2>2. Nat \subseteq T
    <3> HIDE DEF T
    <3> QED BY <2>1, NatInd
  <2> QED BY <2>2, FewFacts
<1>4. \A s \in SUBSET C : IsApart(s)
  <2>1. Few(C, Cardinality(C)) = SUBSET C BY FewFacts
  <2> HIDE DEF IsApart
  <2> QED BY <1>3, <2>1
<1> QED BY <1>4 DEF Parts

\* Two sums of the same numbers are the same.
LEMMA SumsAgree ==
  ASSUME NEW C, IsFiniteSet(C), NEW D, IsFiniteSet(D), NEW w, NEW v,
         \A x \in C : w[x] \in Int, \A x \in D : v[x] \in Int, NEW k \in Int,
         NEW f, IsSum(f, w, k, C), NEW g, IsSum(g, v, k, D),
         NEW s, s \subseteq C, s \subseteq D, \A x \in s : w[x] = v[x]
  PROVE  f[s] = g[s]
<1>0. IsFiniteSet(s) BY FS_Subset
<1>a. Parts(f, w, k, C) /\ Parts(g, v, k, D) BY SumWithout
<1> DEFINE Q(n) == \A t \in Few(s, n) : f[t] = g[t]
           T == {n \in Nat : Q(n)}
<1>1. Q(0)
  <2>1. f[{}] = 0 /\ g[{}] = 0 BY DEF IsSum
  <2> QED BY <2>1, <1>0, FewFacts
<1>2. ASSUME NEW n \in Nat, Q(n) PROVE Q(n + 1)
  <2> SUFFICES ASSUME NEW t \in Few(s, n + 1) PROVE f[t] = g[t]
    OBVIOUS
  <2>0. t \subseteq s BY DEF Few
  <2>1. CASE t = {}
    <3>1. f[{}] = 0 /\ g[{}] = 0 BY DEF IsSum
    <3> QED BY <2>1, <3>1
  <2>2. CASE t # {}
    <3>1. PICK y \in t : TRUE BY <2>2
    <3>2. t \ {y} \in Few(s, n) BY <1>0, OneFewer
    <3>3. f[t \ {y}] = g[t \ {y}] BY <3>2, <1>2
    <3>4. t \in SUBSET C /\ t \in SUBSET D BY <2>0
    <3>5. f[t] = f[t \ {y}] + w[y] + k BY <3>4, <1>a DEF Parts
    <3>6. g[t] = g[t \ {y}] + v[y] + k BY <3>4, <1>a DEF Parts
    <3> QED BY <3>3, <3>5, <3>6, <2>0
  <2> QED BY <2>1, <2>2
<1>3. Q(Cardinality(s))
  <2> HIDE DEF Q
  <2>1. 0 \in T /\ \A n \in Nat : n \in T => n + 1 \in T BY <1>1, <1>2
  <2>2. Nat \subseteq T
    <3> HIDE DEF T
    <3> QED BY <2>1, NatInd
  <2> QED BY <2>2, <1>0, FewFacts
<1>4. s \in Few(s, Cardinality(s)) BY <1>0, FewFacts
<1> QED BY <1>3, <1>4
-------------------------------------------------------------------------------
(* The room that insertions take. *)

ClassesOf(part) == {part[i].class : i \in InsertsAt(part)}

\* What each class needs of the page for what is in its box.
Needs(filled) == [c \in Classes |-> InsertionSize(Size(filled[c]))]

Filling == [Classes -> Seq(LineNode)]

\* A page has finitely many insertions, and their needs are integers.
LEMMA NeedsType ==
  ASSUME NEW part \in Seq(Node), NEW filled \in Filling
  PROVE  /\ ClassesOf(part) \subseteq Classes /\ IsFiniteSet(ClassesOf(part))
         /\ \A c \in Classes : Needs(filled)[c] \in Int
<1>1. ASSUME NEW i \in InsertsAt(part) PROVE part[i].class \in Classes
  <2>1. part[i] \in Node /\ part[i].kind = "insert" BY DEF InsertsAt
  <2> QED BY <2>1, NodeFacts
<1>2. ClassesOf(part) \subseteq Classes BY <1>1 DEF ClassesOf
<1>3. ASSUME NEW c \in Classes PROVE Needs(filled)[c] \in Int
  <2>1. filled[c] \in Seq(LineNode) BY DEF Filling
  <2>2. Size(filled[c]) \in Int BY <2>1, SizeType
  <2>3. InsertionSize(Size(filled[c])) \in Int BY <2>2 DEF InsertionSize
  <2> QED BY <2>3 DEF Needs
<1> QED BY <1>2, <1>3, ClassesAssumption, FS_Subset

\* fire_up's room is such a sum.
LEMMA RoomIs ==
  ASSUME NEW part \in Seq(Node), NEW filled \in Filling
  PROVE  \E f : /\ IsSum(f, Needs(filled), ClassSkip, ClassesOf(part))
                /\ RoomOf(part, filled) = f[ClassesOf(part)]
<1> DEFINE T == ClassesOf(part)
           w == Needs(filled)
           Body(f) == [s \in SUBSET T |->
                         IF s = {} THEN 0
                         ELSE f[s \ {CHOOSE x \in s : TRUE}]
                              + InsertionSize(Size(filled[CHOOSE x \in s : TRUE])) + ClassSkip]
           c == CHOOSE f : f = Body(f)
<1>1. RoomOf(part, filled) = c[T]
  BY DEF RoomOf, FoldSet, MapThenFoldSet, ClassesOf
<1>2. T \subseteq Classes /\ IsFiniteSet(T) /\ (\A x \in T : w[x] \in Int) /\ ClassSkip \in Int
  BY NeedsType, SizesAssumption
<1>3. ASSUME NEW f PROVE f = Body(f) <=> IsSum(f, w, ClassSkip, T)
  <2>1. ASSUME NEW s \in SUBSET T, s # {}
        PROVE  w[CHOOSE x \in s : TRUE] = InsertionSize(Size(filled[CHOOSE x \in s : TRUE]))
    <3> DEFINE x == CHOOSE x \in s : TRUE
    <3>1. x \in s BY <2>1
    <3> HIDE DEF x
    <3>2. x \in Classes BY <3>1, <1>2
    <3> QED BY <3>2 DEF Needs, x
  <2>2. Body(f) = [s \in SUBSET T |-> IF s = {} THEN 0
                      ELSE f[s \ {CHOOSE x \in s : TRUE}] + w[CHOOSE x \in s : TRUE] + ClassSkip]
    <3> HIDE DEF T, w
    <3> QED BY <2>1
  <2> HIDE DEF Body, T, w
  <2> QED BY <2>2 DEF IsSum
<1>4. \E f : IsSum(f, w, ClassSkip, T)
  <2> HIDE DEF T, w
  <2> QED BY <1>2, SumExists
<1>5. IsSum(c, w, ClassSkip, T)
  <2> HIDE DEF Body, T, w
  <2> QED BY <1>3, <1>4
<1> HIDE DEF c, T, w
<1> QED BY <1>1, <1>5 DEF T, w

\* What the room is depends on the classes of the page and on what they need.
LEMMA RoomFacts ==
  ASSUME NEW p \in Seq(Node), NEW filled \in Filling
  PROVE  /\ RoomOf(p, filled) \in Int
         /\ ClassesOf(p) = {} => RoomOf(p, filled) = 0
<1> DEFINE T == ClassesOf(p)
           w == Needs(filled)
<1>1. PICK f : IsSum(f, w, ClassSkip, T) /\ RoomOf(p, filled) = f[T] BY RoomIs
<1>2. IsFiniteSet(T) /\ (\A x \in T : w[x] \in Int) /\ ClassSkip \in Int
  BY NeedsType, SizesAssumption
<1> HIDE DEF T, w
<1>3. Parts(f, w, ClassSkip, T) BY <1>1, <1>2, SumWithout
<1>4. f[T] \in Int BY <1>3 DEF Parts
<1>5. f[{}] = 0 BY <1>1 DEF IsSum
<1> QED BY <1>1, <1>4, <1>5 DEF T

\* Pages of the same classes that need the same take the same room; a class
\* that needs more takes so much more.
LEMMA RoomGrows ==
  ASSUME NEW p \in Seq(Node), NEW filled \in Filling, NEW q \in Seq(Node), NEW other \in Filling,
         ClassesOf(q) = ClassesOf(p), NEW y \in ClassesOf(p),
         \A c \in ClassesOf(p) \ {y} : Needs(other)[c] = Needs(filled)[c]
  PROVE  RoomOf(q, other) = RoomOf(p, filled) + (Needs(other)[y] - Needs(filled)[y])
<1> DEFINE T == ClassesOf(p)
           w == Needs(filled)
           v == Needs(other)
<1>1. PICK f : IsSum(f, w, ClassSkip, T) /\ RoomOf(p, filled) = f[T] BY RoomIs
<1>2. PICK g : IsSum(g, v, ClassSkip, T) /\ RoomOf(q, other) = g[T] BY RoomIs
<1>3. IsFiniteSet(T) /\ (\A x \in T : w[x] \in Int) /\ (\A x \in T : v[x] \in Int) /\ ClassSkip \in Int
  BY NeedsType, SizesAssumption
<1>4. \A c \in T \ {y} : v[c] = w[c] OBVIOUS
<1> HIDE DEF T, w, v
<1>5. Parts(f, w, ClassSkip, T)
  BY <1>1, <1>3, SumWithout
<1>6. Parts(g, v, ClassSkip, T)
  BY <1>2, <1>3, SumWithout
<1>y. y \in T BY DEF T
<1>7. f[T] = f[T \ {y}] + w[y] + ClassSkip /\ f[T \ {y}] \in Int BY <1>5, <1>y DEF Parts
<1>8. g[T] = g[T \ {y}] + v[y] + ClassSkip /\ g[T \ {y}] \in Int BY <1>6, <1>y DEF Parts
<1>9. f[T \ {y}] = g[T \ {y}]
  <2> DEFINE s == T \ {y}
  <2>1. s \subseteq T /\ \A x \in s : w[x] = v[x] BY <1>4
  <2> HIDE DEF s
  <2>2. f[s] = g[s] BY <1>1, <1>2, <1>3, <2>1, SumsAgree
  <2> QED BY <2>2 DEF s
<1>10. w[y] \in Int /\ v[y] \in Int BY <1>3, <1>y
<1>11. g[T] = f[T] + (v[y] - w[y]) BY <1>3, <1>7, <1>8, <1>9, <1>10
<1> QED BY <1>1, <1>2, <1>11 DEF T, w, v

\* Pages of the same classes that need the same take the same room.
LEMMA RoomSame ==
  ASSUME NEW p \in Seq(Node), NEW filled \in Filling, NEW q \in Seq(Node), NEW other \in Filling,
         ClassesOf(q) = ClassesOf(p),
         \A c \in ClassesOf(p) : Needs(other)[c] = Needs(filled)[c]
  PROVE  RoomOf(q, other) = RoomOf(p, filled)
<1>1. CASE ClassesOf(p) = {} BY <1>1, RoomFacts
<1>2. CASE ClassesOf(p) # {}
  <2>1. PICK y : y \in ClassesOf(p) BY <1>2
  <2>2. RoomOf(q, other) = RoomOf(p, filled) + (Needs(other)[y] - Needs(filled)[y])
    BY <2>1, RoomGrows
  <2>3. Needs(filled)[y] \in Int /\ Needs(other)[y] = Needs(filled)[y] BY <2>1, NeedsType
  <2>4. RoomOf(p, filled) \in Int BY RoomFacts
  <2> QED BY <2>2, <2>3, <2>4
<1> QED BY <1>1, <1>2

\* One more class takes what it needs and its skip.
LEMMA RoomOneMore ==
  ASSUME NEW p \in Seq(Node), NEW filled \in Filling, NEW q \in Seq(Node), NEW other \in Filling,
         NEW y, y \notin ClassesOf(p), ClassesOf(q) = ClassesOf(p) \cup {y},
         \A c \in ClassesOf(p) : Needs(other)[c] = Needs(filled)[c]
  PROVE  RoomOf(q, other) = RoomOf(p, filled) + Needs(other)[y] + ClassSkip
<1> DEFINE T == ClassesOf(p)
           U == ClassesOf(q)
           w == Needs(filled)
           v == Needs(other)
<1>1. PICK f : IsSum(f, w, ClassSkip, T) /\ RoomOf(p, filled) = f[T] BY RoomIs
<1>2. PICK g : IsSum(g, v, ClassSkip, U) /\ RoomOf(q, other) = g[U] BY RoomIs
<1>3. /\ IsFiniteSet(T) /\ (\A x \in T : w[x] \in Int) /\ IsFiniteSet(U) /\ (\A x \in U : v[x] \in Int)
      /\ ClassSkip \in Int
  BY NeedsType, SizesAssumption
<1>4. T \subseteq U /\ y \in U /\ U \ {y} = T /\ \A c \in T : w[c] = v[c] OBVIOUS
<1> HIDE DEF T, U, w, v
<1>5. Parts(g, v, ClassSkip, U)
  BY <1>2, <1>3, SumWithout
<1>6. g[U] = g[T] + v[y] + ClassSkip BY <1>4, <1>5 DEF Parts
<1>7. f[T] = g[T] BY <1>1, <1>2, <1>3, <1>4, SumsAgree
<1> QED BY <1>1, <1>2, <1>6, <1>7 DEF T, U, w, v

-------------------------------------------------------------------------------
(* Sizes of lists. *)

\* Adding up one number more.
LEMMA TotalAppend ==
  ASSUME NEW s \in Seq(Int), NEW x \in Int
  PROVE  Total(Append(s, x)) = Total(s) + x
<1> DEFINE t == Append(s, x)
<1>1. t \in Seq(Int) /\ Len(t) = Len(s) + 1 /\ Len(s) \in Nat
      /\ (\A i \in 1 .. Len(s) : t[i] = s[i]) /\ t[Len(s) + 1] = x
  OBVIOUS
<1> HIDE DEF t
<1>2. PICK f \in [0 .. Len(s) -> Int] :
         /\ \A i \in 0 .. Len(s) : f[i] = IF i = 0 THEN 0 ELSE f[i-1] + s[i]
         /\ Total(s) = f[Len(s)]
  BY TotalIs
<1>3. PICK g \in [0 .. Len(t) -> Int] :
         /\ \A i \in 0 .. Len(t) : g[i] = IF i = 0 THEN 0 ELSE g[i-1] + t[i]
         /\ Total(t) = g[Len(t)]
  BY <1>1, TotalIs
<1> DEFINE Q(n) == n <= Len(s) => f[n] = g[n]
           T == {n \in Nat : Q(n)}
<1>4. Q(0)
  <2>1. 0 \in 0 .. Len(s) /\ 0 \in 0 .. Len(t) BY <1>1
  <2> QED BY <2>1, <1>2, <1>3
<1>5. ASSUME NEW n \in Nat, Q(n) PROVE Q(n + 1)
  <2> SUFFICES ASSUME n + 1 <= Len(s) PROVE f[n + 1] = g[n + 1]
    OBVIOUS
  <2> DEFINE k == n + 1
  <2>1. k \in 0 .. Len(s) /\ k \in 0 .. Len(t) /\ k # 0 /\ k - 1 = n /\ k \in 1 .. Len(s) BY <1>1
  <2> HIDE DEF k
  <2>2. f[k] = f[k - 1] + s[k] /\ g[k] = g[k - 1] + t[k] BY <2>1, <1>2, <1>3
  <2>3. f[n] = g[n] BY <1>5, <1>1
  <2>4. f[k] = g[k] BY <2>1, <2>2, <2>3, <1>1
  <2> QED BY <2>4 DEF k
<1>6. Q(Len(s))
  <2> HIDE DEF Q
  <2>1. 0 \in T /\ \A n \in Nat : n \in T => n + 1 \in T BY <1>4, <1>5
  <2>2. Nat \subseteq T
    <3> HIDE DEF T
    <3> QED BY <2>1, NatInd
  <2> QED BY <2>2, <1>1
<1>7. g[Len(t)] = g[Len(s)] + x
  <2> DEFINE k == Len(t)
  <2>1. k \in 0 .. Len(t) /\ k # 0 /\ k - 1 = Len(s) /\ t[k] = x BY <1>1
  <2> HIDE DEF k
  <2>2. g[k] = g[k - 1] + t[k] BY <2>1, <1>3
  <2> QED BY <2>1, <2>2 DEF k
<1> QED BY <1>1, <1>2, <1>3, <1>6, <1>7 DEF t

\* A list is as tall as its nodes together.
LEMMA SizeAppend ==
  ASSUME NEW list \in Seq(LineNode), NEW n \in LineNode
  PROVE  Size(Append(list, n)) = Size(list) + Extent(n)
<1> DEFINE e == [i \in DOMAIN list |-> Extent(list[i])]
           t == Append(list, n)
           h == [i \in DOMAIN t |-> Extent(t[i])]
<1>1. \A i \in 1 .. Len(list) : list[i] \in LineNode /\ Extent(list[i]) \in Int
  BY SizesOfNodes
<1>2. e \in Seq(Int) /\ Len(e) = Len(list) /\ \A i \in 1 .. Len(list) : e[i] = Extent(list[i]) BY <1>1
<1>3. Extent(n) \in Int BY SizesOfNodes
<1>4. h = Append(e, Extent(n))
  <2>1. DOMAIN t = 1 .. Len(list) + 1 /\ Len(list) \in Nat /\ t[Len(list) + 1] = n
        /\ \A i \in 1 .. Len(list) : t[i] = list[i]
    OBVIOUS
  <2> DEFINE a == Append(e, Extent(n))
  <2> HIDE DEF e, t
  <2>2. a \in Seq(Int) /\ Len(a) = Len(list) + 1 /\ DOMAIN a = 1 .. Len(list) + 1 /\ a[Len(list) + 1] = Extent(n)
        /\ \A i \in 1 .. Len(list) : a[i] = e[i]
    BY <1>2, <1>3
  <2>3. ASSUME NEW i \in 1 .. Len(list) + 1 PROVE a[i] = Extent(t[i])
    <3>1. CASE i = Len(list) + 1 BY <3>1, <2>1, <2>2
    <3>2. CASE i # Len(list) + 1
      <4>1. i \in 1 .. Len(list) BY <3>2, <2>1
      <4> QED BY <4>1, <2>1, <2>2, <1>2
    <3> QED BY <3>1, <3>2
  <2> HIDE DEF a
  <2>4. a = [i \in 1 .. Len(list) + 1 |-> a[i]] BY <2>2
  <2>5. h = [i \in 1 .. Len(list) + 1 |-> Extent(t[i])] BY <2>1
  <2> HIDE DEF h
  <2> QED BY <2>3, <2>4, <2>5 DEF a
<1> HIDE DEF e, t, h
<1>5. Total(h) = Total(e) + Extent(n) BY <1>2, <1>3, <1>4, TotalAppend
<1> QED BY <1>5 DEF Size, e, h, t

\* Nothing is of no size.
LEMMA SizeEmpty == Size(<<>>) = 0
<1>1. <<>> \in Seq(Int) OBVIOUS
<1>2. PICK f \in [0 .. Len(<<>>) -> Int] :
        /\ \A i \in 0 .. Len(<<>>) : f[i] = IF i = 0 THEN 0 ELSE f[i-1] + (<<>>)[i]
        /\ Total(<<>>) = f[Len(<<>>)]
  BY <1>1, TotalIs
<1>3. Len(<<>>) = 0 /\ 0 \in 0 .. Len(<<>>) OBVIOUS
<1>4. Total(<<>>) = 0 BY <1>2, <1>3
<1>5. [i \in DOMAIN <<>> |-> Extent((<<>>)[i])] = <<>> OBVIOUS
<1> QED BY <1>4, <1>5 DEF Size

\* Two lists are together as tall as both.
LEMMA SizeConcat ==
  ASSUME NEW a \in Seq(LineNode), NEW b \in Seq(LineNode)
  PROVE  Size(a \o b) = Size(a) + Size(b)
<1> DEFINE AddsUp(u) == Size(a \o u) = Size(a) + Size(u)
           Q(n) == \A u \in Seq(LineNode) : Len(u) = n => AddsUp(u)
           T == {n \in Nat : Q(n)}
<1>0. Size(a) \in Int /\ Size(<<>>) = 0 BY SizeType, SizeEmpty
<1>1. Q(0)
  <2> SUFFICES ASSUME NEW u \in Seq(LineNode), Len(u) = 0 PROVE AddsUp(u)
    OBVIOUS
  <2>1. u = <<>> /\ a \o u = a OBVIOUS
  <2> QED BY <2>1, <1>0
<1>2. ASSUME NEW n \in Nat, Q(n) PROVE Q(n + 1)
  <2> SUFFICES ASSUME NEW u \in Seq(LineNode), Len(u) = n + 1 PROVE AddsUp(u)
    OBVIOUS
  <2>1. PICK v \in Seq(LineNode), x \in LineNode : u = Append(v, x) /\ Len(v) = n
    BY SplitLast
  <2>2. a \o u = Append(a \o v, x) /\ a \o v \in Seq(LineNode) BY <2>1
  <2>3. AddsUp(v) BY <2>1, <1>2
  <2>4. Size(a \o u) = Size(a \o v) + Extent(x) /\ Size(u) = Size(v) + Extent(x)
    BY <2>1, <2>2, SizeAppend
  <2>5. Size(v) \in Int /\ Extent(x) \in Int BY SizeType, SizesOfNodes
  <2> QED BY <2>3, <2>4, <2>5, <1>0
<1>3. Len(b) \in Nat OBVIOUS
<1>4. Q(Len(b))
  <2> HIDE DEF Q
  <2>1. 0 \in T /\ \A n \in Nat : n \in T => n + 1 \in T BY <1>1, <1>2
  <2>2. Nat \subseteq T
    <3> HIDE DEF T
    <3> QED BY <2>1, NatInd
  <2> QED BY <2>2, <1>3
<1> QED BY <1>4

\* What a list measures is its size, whatever of it hangs below.
LEMMA MeasureIsSize ==
  ASSUME NEW list \in Seq(LineNode), NEW limit \in Int
  PROVE  Measure(list, limit).total + Measure(list, limit).depth = Size(list)
<1> DEFINE m == Measure(list, limit)
<1>1. m.total \in Int /\ m.depth \in Int
  <2>1. m \in Measures BY MeasureType
  <2> HIDE DEF m
  <2> QED BY <2>1 DEF Measures
<1>2. m.total = Size(list) - m.depth BY DEF Measure, Size
<1>3. Size(list) \in Int BY SizeType
<1> HIDE DEF m
<1>4. m.total + m.depth = Size(list) BY <1>1, <1>2, <1>3
<1> QED BY <1>4 DEF m

-------------------------------------------------------------------------------
(* What a part of the page gives its classes, by what is recorded of them.   *)

IsRecords(recs) ==
  /\ DOMAIN recs \subseteq Classes
  /\ \A c \in DOMAIN recs : recs[c] \in [held : Int, split : BOOLEAN, broken : Nat, breakAt : Nat]

\* SplitAt, Taken and Collected, for any records and any boxes: what comes out
\* of insertion i, what a class is given, and what the boxes are filled with.
CutBy(recs, part, i) ==
  LET n == part[i] IN
  IF ~(n.class \in DOMAIN recs /\ recs[n.class].split) \/ i < recs[n.class].broken THEN Len(n.list)
  ELSE IF i > recs[n.class].broken THEN 0
  ELSE Min({recs[n.class].breakAt, Len(n.list)})

CutOf(recs, part, i) == SubSeq(part[i].list, 1, CutBy(recs, part, i))

Adds(recs, part, c) ==
  [i \in DOMAIN part |-> IF i \in InsertsAt(part) /\ part[i].class = c
                         THEN CutOf(recs, part, i) ELSE <<>>]
Given(recs, part, c) == FlattenSeq(Adds(recs, part, c))

Filled(bx, recs, part) == [c \in Classes |-> bx[c] \o Given(recs, part, c)]

\* The room that the insertions of this part take.
RoomBy(bx, recs, part) == RoomOf(part, Filled(bx, recs, part))

\* An insertion is cut within its list.
LEMMA CutType ==
  ASSUME NEW recs, IsRecords(recs), NEW part \in Seq(Node), NEW i \in InsertsAt(part)
  PROVE  /\ CutBy(recs, part, i) \in 0 .. Len(part[i].list)
         /\ CutOf(recs, part, i) \in Seq(LineNode)
<1> DEFINE n == part[i]
           k == CutBy(recs, part, i)
<1>1. n \in Node /\ n.kind = "insert" /\ i \in 1 .. Len(part) BY DEF InsertsAt
<1>2. n.list \in Seq(LineNode) BY <1>1, NodeFacts
<1>3. Len(n.list) \in Nat BY <1>2
<1>4. k \in 0 .. Len(n.list)
  <2>1. CASE n.class \in DOMAIN recs /\ recs[n.class].split
    <3> DEFINE b == recs[n.class].breakAt
               l == Len(n.list)
               r == recs[n.class].broken
    <3>1. b \in Int /\ b >= 0 /\ l \in Int /\ l >= 0 BY <2>1, <1>3 DEF IsRecords
    <3>2. k \in {l, 0, Min({b, l})}
      <4> HIDE DEF k
      <4> QED BY <2>1 DEF CutBy, k
    <3> HIDE DEF b, l, k
    <3>3. Min({b, l}) \in {b, l} /\ Min({b, l}) <= l BY <3>1, MinMaxOfTwo
    <3>4. k \in 0 .. l BY <3>1, <3>2, <3>3
    <3> QED BY <3>4 DEF l, k
  <2>2. CASE ~(n.class \in DOMAIN recs /\ recs[n.class].split)
    <3>1. k = Len(n.list) BY <2>2 DEF CutBy
    <3> QED BY <3>1, <1>3
  <2> QED BY <2>1, <2>2
<1> HIDE DEF n, k
<1>5. SubSeq(n.list, 1, k) \in Seq(LineNode) BY <1>2, <1>4, CutInTwo
<1> QED BY <1>4, <1>5 DEF n, k, CutOf

\* What is given is a list of lines.
LEMMA GivenType ==
  ASSUME NEW recs, IsRecords(recs), NEW part \in Seq(Node), NEW c
  PROVE  /\ Adds(recs, part, c) \in Seq(Seq(LineNode))
         /\ Given(recs, part, c) \in Seq(LineNode)
<1> DEFINE E == Seq(LineNode)
<1>1. \A i \in InsertsAt(part) : CutOf(recs, part, i) \in E BY CutType
<1>2. <<>> \in E OBVIOUS
<1> HIDE DEF E
<1>3. Adds(recs, part, c) \in Seq(E) BY <1>1, <1>2 DEF Adds
<1> QED BY <1>3, FlattenType DEF E, Given

\* The boxes of the classes are filled with lines.
LEMMA FilledType ==
  ASSUME NEW bx \in Filling, NEW recs, IsRecords(recs), NEW part \in Seq(Node)
  PROVE  Filled(bx, recs, part) \in Filling
<1> DEFINE F(c) == bx[c] \o Given(recs, part, c)
<1>1. ASSUME NEW c \in Classes PROVE F(c) \in Seq(LineNode)
  <2> DEFINE a == bx[c]
             b == Given(recs, part, c)
  <2>1. a \in Seq(LineNode) /\ b \in Seq(LineNode) BY GivenType DEF Filling
  <2> HIDE DEF a, b
  <2>2. a \o b \in Seq(LineNode) BY <2>1
  <2> QED BY <2>2 DEF a, b
<1>2. Filled(bx, recs, part) = [c \in Classes |-> F(c)] BY DEF Filled
<1> HIDE DEF F
<1> QED BY <1>1, <1>2 DEF Filling

\* A class that has no insertion there is given nothing.
LEMMA NoneGiven ==
  ASSUME NEW recs, NEW part \in Seq(Node), NEW c, c \notin ClassesOf(part)
  PROVE  Given(recs, part, c) = <<>>
<1> DEFINE E == Seq({})
<1>1. E = {<<>>}
  <2>1. ASSUME NEW s \in Seq({}) PROVE s = <<>>
    <3>1. \A i \in 1 .. Len(s) : s[i] \in {} OBVIOUS
    <3>2. Len(s) \in Nat OBVIOUS
    <3>3. Len(s) = 0
      <4>1. SUFFICES ASSUME Len(s) # 0 PROVE FALSE OBVIOUS
      <4>2. 1 \in 1 .. Len(s) BY <4>1, <3>2
      <4> QED BY <4>2, <3>1
    <3> QED BY <3>3
  <2>2. <<>> \in Seq({}) OBVIOUS
  <2> QED BY <2>1, <2>2
<1>2. \A i \in InsertsAt(part) : part[i].class # c BY DEF ClassesOf
<1>3. Adds(recs, part, c) = [i \in DOMAIN part |-> <<>>] BY <1>2 DEF Adds
<1>e. <<>> \in E BY <1>1
<1> HIDE DEF E
<1>4. [i \in DOMAIN part |-> <<>>] \in Seq(E) BY <1>e
<1>5. FlattenSeq([i \in DOMAIN part |-> <<>>]) \in Seq({}) BY <1>4, FlattenType DEF E
<1> QED BY <1>1, <1>3, <1>5 DEF Given, E

\* One node more on the page gives its class what is taken of it.
LEMMA GivenAppend ==
  ASSUME NEW recs, IsRecords(recs), NEW part \in Seq(Node), NEW n \in Node, NEW c
  PROVE  /\ n.kind = "insert" /\ n.class = c =>
              Given(recs, Append(part, n), c)
              = Given(recs, part, c) \o CutOf(recs, Append(part, n), Len(part) + 1)
         /\ ~(n.kind = "insert" /\ n.class = c) =>
              Given(recs, Append(part, n), c) = Given(recs, part, c)
<1> DEFINE q == Append(part, n)
           l == Len(part) + 1
           x == IF n.kind = "insert" /\ n.class = c THEN CutOf(recs, q, l) ELSE <<>>
           E == Seq(LineNode)
<1>1. q \in Seq(Node) /\ Len(q) = l /\ DOMAIN q = 1 .. l /\ q[l] = n /\ Len(part) \in Nat
      /\ (\A i \in 1 .. Len(part) : q[i] = part[i])
  OBVIOUS
<1> HIDE DEF q
<1>2. InsertsAt(q) = InsertsAt(part) \cup {i \in {l} : n.kind = "insert"}
  BY <1>1 DEF InsertsAt
<1>3. \A i \in 1 .. Len(part) : CutOf(recs, q, i) = CutOf(recs, part, i)
  BY <1>1 DEF CutOf, CutBy
<1>4. x \in E
  <2>1. n.kind = "insert" => l \in InsertsAt(q) BY <1>2
  <2>2. n.kind = "insert" => CutOf(recs, q, l) \in E BY <1>1, <2>1, CutType
  <2>3. <<>> \in E OBVIOUS
  <2> HIDE DEF E
  <2> QED BY <2>2, <2>3
<1>5. Adds(recs, part, c) \in Seq(E) BY GivenType
<1>6. Adds(recs, q, c) = Append(Adds(recs, part, c), x)
  <2> DEFINE a == Adds(recs, part, c)
             d == Append(a, x)
  <2> HIDE DEF E
  <2>1. Len(a) = Len(part) /\ a \in Seq(E) BY <1>1, <1>5 DEF Adds
  <2>2. \A i \in 1 .. Len(part) : a[i] = IF i \in InsertsAt(part) /\ part[i].class = c
                                         THEN CutOf(recs, part, i) ELSE <<>>
    BY DEF Adds
  <2> HIDE DEF a
  <2>3. d \in Seq(E) /\ Len(d) = l /\ d[l] = x /\ \A i \in 1 .. Len(part) : d[i] = a[i]
    BY <1>1, <1>4, <2>1
  <2> HIDE DEF d, x
  <2>4. d = [i \in 1 .. l |-> d[i]] BY <2>3, <1>1
  <2>5. Adds(recs, q, c) = [i \in 1 .. l |-> IF i \in InsertsAt(q) /\ q[i].class = c
                                             THEN CutOf(recs, q, i) ELSE <<>>]
    BY <1>1 DEF Adds
  <2>6. ASSUME NEW i \in 1 .. l
        PROVE  d[i] = IF i \in InsertsAt(q) /\ q[i].class = c THEN CutOf(recs, q, i) ELSE <<>>
    <3>1. CASE i = l
      <4>1. i \in InsertsAt(q) <=> n.kind = "insert" BY <3>1, <1>1 DEF InsertsAt
      <4> QED BY <3>1, <4>1, <2>3, <1>1 DEF x
    <3>2. CASE i # l
      <4>1. i \in 1 .. Len(part) BY <3>2, <1>1
      <4>2. i \in InsertsAt(q) <=> i \in InsertsAt(part) BY <4>1, <1>1 DEF InsertsAt
      <4> QED BY <4>1, <4>2, <1>1, <1>3, <2>2, <2>3
    <3> QED BY <3>1, <3>2
  <2> DEFINE R(i) == IF i \in InsertsAt(q) /\ q[i].class = c THEN CutOf(recs, q, i) ELSE <<>>
  <2>7. \A i \in 1 .. l : d[i] = R(i) BY <2>6
  <2>8. Adds(recs, q, c) = [i \in 1 .. l |-> R(i)] BY <2>5
  <2> HIDE DEF R
  <2> QED BY <2>4, <2>7, <2>8 DEF d, a
<1>7. FlattenSeq(Append(Adds(recs, part, c), x)) = FlattenSeq(Adds(recs, part, c)) \o x
  BY <1>4, <1>5, FlattenAppend DEF E
<1>8. Given(recs, q, c) = Given(recs, part, c) \o x BY <1>6, <1>7 DEF Given
<1>9. Given(recs, part, c) \o <<>> = Given(recs, part, c)
  <2>1. Given(recs, part, c) \in Seq(LineNode) BY GivenType
  <2> QED BY <2>1
<1>10. /\ n.kind = "insert" /\ n.class = c => x = CutOf(recs, q, l)
       /\ ~(n.kind = "insert" /\ n.class = c) => x = <<>>
  OBVIOUS
<1> HIDE DEF x
<1> QED BY <1>8, <1>9, <1>10 DEF q, l

\* What the classes of the page are with a node more.
LEMMA ClassesAppend ==
  ASSUME NEW part \in Seq(Node), NEW n \in Node
  PROVE  /\ n.kind = "insert" => ClassesOf(Append(part, n)) = ClassesOf(part) \cup {n.class}
         /\ n.kind # "insert" => ClassesOf(Append(part, n)) = ClassesOf(part)
<1> DEFINE q == Append(part, n)
           l == Len(part) + 1
<1>1. DOMAIN q = 1 .. l /\ q[l] = n /\ Len(part) \in Nat /\ l \in 1 .. l
      /\ (\A i \in 1 .. Len(part) : q[i] = part[i]) /\ 1 .. l = 1 .. Len(part) \cup {l}
  OBVIOUS
<1> HIDE DEF q, l
<1>2. /\ \A i \in InsertsAt(part) : i \in InsertsAt(q) /\ q[i] = part[i]
      /\ \A i \in InsertsAt(q) : i = l \/ (i \in InsertsAt(part) /\ q[i] = part[i])
      /\ l \in InsertsAt(q) <=> n.kind = "insert"
  BY <1>1 DEF InsertsAt
<1>3. ClassesOf(part) = {q[i].class : i \in InsertsAt(part)} BY <1>2 DEF ClassesOf
<1>4. CASE n.kind = "insert"
  <2>1. InsertsAt(q) = InsertsAt(part) \cup {l} BY <1>2, <1>4
  <2>2. ClassesOf(q) = ClassesOf(part) \cup {q[l].class} BY <1>3, <2>1 DEF ClassesOf
  <2> QED BY <1>1, <1>4, <2>2 DEF q
<1>5. CASE n.kind # "insert"
  <2>1. InsertsAt(q) = InsertsAt(part) BY <1>2, <1>5
  <2> QED BY <1>3, <1>5, <2>1 DEF ClassesOf, q
<1> QED BY <1>4, <1>5

\* The cuts are the same by both records.
SameCuts(recs, other, part) ==
  \A i \in InsertsAt(part) : CutBy(recs, part, i) = CutBy(other, part, i)

\* Then they give the classes the same, and the room is the same.
LEMMA SameRoom ==
  ASSUME NEW bx, NEW recs, NEW other, NEW part, SameCuts(recs, other, part)
  PROVE  Filled(bx, recs, part) = Filled(bx, other, part)
         /\ RoomBy(bx, recs, part) = RoomBy(bx, other, part)
<1>1. \A c : Adds(recs, part, c) = Adds(other, part, c) BY DEF Adds, SameCuts, CutOf
<1>2. \A c : Given(recs, part, c) = Given(other, part, c) BY <1>1 DEF Given
<1> QED BY <1>2 DEF Filled, RoomBy

\* They are then the same on the front of the part.
LEMMA SameCutsInFront ==
  ASSUME NEW recs, NEW other, NEW part \in Seq(Node), SameCuts(recs, other, part),
         NEW k \in 0 .. Len(part)
  PROVE  SameCuts(recs, other, SubSeq(part, 1, k))
<1> DEFINE q == SubSeq(part, 1, k)
<1>1. Len(q) = k /\ DOMAIN q = 1 .. k /\ (\A i \in 1 .. k : q[i] = part[i]) /\ 1 .. k \subseteq 1 .. Len(part)
  OBVIOUS
<1> HIDE DEF q
<1>2. \A i \in InsertsAt(q) : i \in InsertsAt(part) /\ q[i] = part[i] BY <1>1 DEF InsertsAt
<1>3. \A r : \A i \in InsertsAt(q) : CutBy(r, q, i) = CutBy(r, part, i) BY <1>2 DEF CutBy
<1> QED BY <1>2, <1>3 DEF SameCuts, q

\* A node that is no insertion takes no room from the others.
LEMMA RoomPlain ==
  ASSUME NEW bx \in Filling, NEW recs, IsRecords(recs), NEW part \in Seq(Node),
         NEW n \in Node, n.kind # "insert"
  PROVE  RoomBy(bx, recs, Append(part, n)) = RoomBy(bx, recs, part)
<1> DEFINE q == Append(part, n)
<1>1. q \in Seq(Node) /\ ClassesOf(q) = ClassesOf(part) BY ClassesAppend
<1>2. \A c \in Classes : Given(recs, q, c) = Given(recs, part, c) BY GivenAppend
<1> HIDE DEF q
<1>3. Filled(bx, recs, q) = Filled(bx, recs, part) BY <1>2 DEF Filled
<1>4. Filled(bx, recs, part) \in Filling BY FilledType
<1>5. RoomOf(q, Filled(bx, recs, part)) = RoomOf(part, Filled(bx, recs, part))
  BY <1>1, <1>4, RoomSame
<1> QED BY <1>3, <1>5 DEF RoomBy, q

\* Joining lists of lines is associative.
LEMMA LinesAssociative ==
  \A a, b, c \in Seq(LineNode) : (a \o b) \o c = a \o (b \o c)
BY Associative

\* An insertion takes what comes out of it, and if it is the first of its class
\* what stands in the box of the class, and the skip.
LEMMA RoomTaken ==
  ASSUME NEW bx \in Filling, NEW recs, IsRecords(recs), NEW other, IsRecords(other),
         NEW part \in Seq(Node), SameCuts(recs, other, part), NEW n \in Node, n.kind = "insert"
  PROVE  LET cut == Size(CutOf(other, Append(part, n), Len(part) + 1)) IN
         /\ cut \in Int
         /\ n.class \in ClassesOf(part) =>
              RoomBy(bx, other, Append(part, n)) = RoomBy(bx, recs, part) + InsertionSize(cut)
         /\ n.class \notin ClassesOf(part) =>
              RoomBy(bx, other, Append(part, n))
              = RoomBy(bx, recs, part) + (InsertionSize(Size(bx[n.class])) + ClassSkip)
                + InsertionSize(cut)
<1> DEFINE q == Append(part, n)
           l == Len(part) + 1
           x == CutOf(other, q, l)
           c == n.class
           old == Filled(bx, recs, part)
           new == Filled(bx, other, q)
<1>1. q \in Seq(Node) /\ l \in InsertsAt(q) BY DEF InsertsAt
<1>2. x \in Seq(LineNode) BY <1>1, CutType
<1>3. c \in Classes BY NodeFacts
<1>4. ClassesOf(q) = ClassesOf(part) \cup {c} BY ClassesAppend
<1>5. old = Filled(bx, other, part) /\ RoomBy(bx, recs, part) = RoomOf(part, old)
  BY SameRoom DEF RoomBy
<1>6. old \in Filling /\ new \in Filling BY <1>1, FilledType
<1>g. /\ Given(other, q, c) = Given(other, part, c) \o x
      /\ \A d \in Classes \ {c} : Given(other, q, d) = Given(other, part, d)
  BY GivenAppend
<1>t. Given(other, part, c) \in Seq(LineNode) /\ bx[c] \in Seq(LineNode) BY <1>3, GivenType DEF Filling
<1>s. c \notin ClassesOf(part) => Given(other, part, c) = <<>> BY NoneGiven
<1>r. RoomBy(bx, other, q) = RoomOf(q, new) BY DEF RoomBy
<1> HIDE DEF q, l, x
<1>7. new[c] = old[c] \o x /\ old[c] \in Seq(LineNode)
  <2> DEFINE a == bx[c]
             b == Given(other, part, c)
  <2>1. new[c] = a \o (b \o x) /\ old[c] = a \o b BY <1>3, <1>5, <1>g DEF Filled
  <2> HIDE DEF a, b
  <2>2. a \in Seq(LineNode) /\ b \in Seq(LineNode) BY <1>t DEF a, b
  <2>3. (a \o b) \o x = a \o (b \o x) BY <1>2, <2>2, LinesAssociative
  <2>4. a \o b \in Seq(LineNode) BY <2>2
  <2> HIDE DEF new, old
  <2> QED BY <2>1, <2>3, <2>4
<1>8. \A d \in Classes \ {c} : new[d] = old[d] BY <1>5, <1>g DEF Filled
<1>9. c \notin ClassesOf(part) => old[c] = bx[c]
  <2>1. c \notin ClassesOf(part) => old[c] = bx[c] \o <<>> BY <1>3, <1>5, <1>s DEF Filled
  <2>2. bx[c] \o <<>> = bx[c] BY <1>t
  <2> QED BY <2>1, <2>2
<1> HIDE DEF new, old, c
<1>10. Size(new[c]) = Size(old[c]) + Size(x) /\ Size(old[c]) \in Int /\ Size(x) \in Int
  BY <1>2, <1>7, SizeConcat, SizeType
<1> DEFINE IS(s) == InsertionSize(s)
<1>11. Needs(new)[c] = Needs(old)[c] + InsertionSize(Size(x))
       /\ Needs(old)[c] = InsertionSize(Size(old[c])) /\ Needs(old)[c] \in Int
       /\ InsertionSize(Size(x)) \in Int
  <2>1. Needs(new)[c] = InsertionSize(Size(new[c])) /\ Needs(old)[c] = InsertionSize(Size(old[c]))
    BY <1>3 DEF Needs
  <2> DEFINE s == Size(old[c])
             t == Size(x)
             u == Size(new[c])
  <2>2. s \in Int /\ t \in Int /\ u = s + t BY <1>10
  <2> HIDE DEF s, t, u
  <2>3. InsertionSize(u) = InsertionSize(s) + InsertionSize(t) /\ InsertionSize(s) \in Int
        /\ InsertionSize(t) \in Int
    BY <2>2 DEF InsertionSize
  <2> QED BY <2>1, <2>3 DEF s, t, u
<1>12. \A d \in Classes \ {c} : Needs(new)[d] = Needs(old)[d] BY <1>8 DEF Needs
<1>13. ClassesOf(part) \subseteq Classes BY <1>6, NeedsType
<1>14. RoomOf(part, old) \in Int BY <1>6, RoomFacts
<1>15. CASE c \in ClassesOf(part)
  <2>1. ClassesOf(q) = ClassesOf(part) BY <1>4, <1>15
  <2>2. \A d \in ClassesOf(part) \ {c} : Needs(new)[d] = Needs(old)[d] BY <1>12, <1>13
  <2>3. RoomOf(q, new) = RoomOf(part, old) + (Needs(new)[c] - Needs(old)[c])
    BY <1>1, <1>6, <1>15, <2>1, <2>2, RoomGrows
  <2>4. RoomOf(q, new) = RoomOf(part, old) + InsertionSize(Size(x))
    BY <2>3, <1>11, <1>14
  <2> QED BY <2>4, <1>5, <1>10, <1>15, <1>r DEF q, l, x, c
<1>16. CASE c \notin ClassesOf(part)
  <2>2. \A d \in ClassesOf(part) : Needs(new)[d] = Needs(old)[d] BY <1>12, <1>13, <1>16
  <2>3. RoomOf(q, new) = RoomOf(part, old) + Needs(new)[c] + ClassSkip
    BY <1>1, <1>4, <1>6, <1>16, <2>2, RoomOneMore
  <2>4. Needs(old)[c] = InsertionSize(Size(bx[c])) BY <1>9, <1>11, <1>16
  <2>5. ClassSkip \in Int BY SizesAssumption
  <2>6. RoomOf(q, new) = RoomOf(part, old) + (InsertionSize(Size(bx[c])) + ClassSkip)
                         + InsertionSize(Size(x))
    BY <2>3, <2>4, <2>5, <1>11, <1>14
  <2> QED BY <2>6, <1>5, <1>10, <1>16, <1>r DEF q, l, x, c
<1> QED BY <1>15, <1>16

-------------------------------------------------------------------------------
(* Insertions are as tall as they say. *)

TrueNode == {n \in Node : n.kind = "insert" => n.height = Size(n.list)}

\* They are nodes; a node that is no insertion is one of them, and so is an
\* insertion made from its lines.
LEMMA TrueNodeFacts ==
  /\ TrueNode \subseteq Node /\ Seq(TrueNode) \subseteq Seq(Node)
  /\ \A n \in Node : n.kind # "insert" => n \in TrueNode
  /\ \A c \in Classes, list \in Seq(LineNode) : Insert(c, list) \in TrueNode
<1>1. TrueNode \subseteq Node BY DEF TrueNode
<1>2. \A n \in Node : n.kind # "insert" => n \in TrueNode BY DEF TrueNode
<1>3. ASSUME NEW c \in Classes, NEW list \in Seq(LineNode) PROVE Insert(c, list) \in TrueNode
  <2>1. Insert(c, list) \in Node BY InsertIsNode DEF InsertNode
  <2>2. Insert(c, list).height = Size(list) /\ Insert(c, list).list = list BY DEF Insert
  <2> HIDE DEF Insert
  <2> QED BY <2>1, <2>2 DEF TrueNode
<1> QED BY <1>1, <1>2, <1>3

\* An item keeps its size when it gets its number.
LEMMA NumberedTrue ==
  ASSUME NEW x \in Items, NEW k \in Nat \ {0}
  PROVE  Numbered(x, k) \in TrueNode
<1>1. Numbered(x, k) \in Node BY NumberedType
<1>2. CASE x \in Pieces({0}, {0})
  <2>1. Numbered(x, k).kind # "insert"
    <3>1. x.kind # "insert" BY <1>2 DEF Pieces, Plain
    <3>2. CASE x.kind \in {"box", "mark"}
      <4>1. Numbered(x, k) = [x EXCEPT !.id = k] BY <3>2, ZenonT(40) DEF Numbered
      <4>2. [x EXCEPT !.id = k].kind = x.kind BY <1>2, <3>2 DEF Pieces, Plain
      <4> QED BY <3>1, <4>1, <4>2
    <3>3. CASE x.kind \notin {"box", "mark"} BY <3>1, <3>3 DEF Numbered
    <3> QED BY <3>2, <3>3
  <2> QED BY <1>1, <2>1, TrueNodeFacts
<1>3. CASE /\ x.kind = "insert" /\ x.class \in Classes
           /\ x.list \in Seq(Pieces({0}, {0})) /\ x = Insert(x.class, x.list)
  <2> DEFINE N == Pieces({0}, {0})
             y(j) == IF x.list[j].kind \in {"box", "mark"}
                     THEN [x.list[j] EXCEPT !.id = k, !.line = j] ELSE x.list[j]
             l == [j \in DOMAIN x.list |-> y(j)]
  <2>1. Numbered(x, k) = [x EXCEPT !.list = l] BY <1>3 DEF Numbered
  <2>2. DOMAIN x.list = 1 .. Len(x.list) /\ Len(x.list) \in Nat BY <1>3
  <2>3. ASSUME NEW j \in 1 .. Len(x.list) PROVE Extent(y(j)) = Extent(x.list[j])
    <3>1. x.list[j] \in N BY <1>3
    <3> DEFINE n == x.list[j]
    <3> HIDE DEF n
    <3>2. CASE n.kind \in {"box", "mark"}
      <4>1. y(j) = [n EXCEPT !.id = k, !.line = j] BY <3>2 DEF n
      <4>2. [n EXCEPT !.id = k, !.line = j].kind = n.kind
            /\ (n.kind = "box" => /\ [n EXCEPT !.id = k, !.line = j].height = n.height
                                  /\ [n EXCEPT !.id = k, !.line = j].depth = n.depth)
        BY <3>1, <3>2 DEF n, Pieces, Plain
      <4> HIDE DEF y
      <4> QED BY <3>2, <4>1, <4>2 DEF Extent, n
    <3>3. CASE n.kind \notin {"box", "mark"} BY <3>3 DEF n
    <3> QED BY <3>2, <3>3
  <2>4. Size(l) = Size(x.list)
    <3>1. DOMAIN l = DOMAIN x.list OBVIOUS
    <3> HIDE DEF y
    <3>2. \A j \in DOMAIN x.list : l[j] = y(j) OBVIOUS
    <3> HIDE DEF l
    <3>3. \A j \in DOMAIN x.list : Extent(l[j]) = Extent(x.list[j]) BY <2>2, <2>3, <3>2
    <3>4. [i \in DOMAIN l |-> Extent(l[i])] = [i \in DOMAIN x.list |-> Extent(x.list[i])]
      BY <3>1, <3>3
    <3> QED BY <3>4 DEF Size
  <2> HIDE DEF l
  <2> DEFINE h == Size(x.list)
  <2> HIDE DEF h
  <2>5. x = [kind |-> "insert", class |-> x.class, list |-> x.list, height |-> h]
    BY <1>3 DEF Insert, h
  <2>6. Numbered(x, k) = [kind |-> "insert", class |-> x.class, list |-> l, height |-> h]
    BY <2>1, <2>5
  <2>7. Numbered(x, k).height = h /\ Numbered(x, k).list = l BY <2>6
  <2> QED BY <1>1, <2>4, <2>7 DEF TrueNode, h
<1> QED BY <1>2, <1>3, ItemsAssumption

\* What is held over says how tall it is.
LEMMA UnplacedTrue ==
  ASSUME TypeOK, NEW part \in Seq(TrueNode)
  PROVE  Unplaced(part) \in Seq(TrueNode)
<1>0. part \in Seq(Node) BY TrueNodeFacts
<1>1. ASSUME NEW i \in InsertsAt(part) PROVE HeldOver(part, i) \in Seq(TrueNode)
  <2> DEFINE n == part[i]
             rest == Pruned(SubSeq(n.list, SplitAt(part, i) + 1, Len(n.list)))
  <2>1. n \in TrueNode /\ n \in Node /\ n.kind = "insert" BY <1>0 DEF InsertsAt
  <2>2. n.class \in Classes /\ n.list \in Seq(LineNode) BY <2>1, NodeFacts
  <2>3. SplitAt(part, i) \in 0 .. Len(n.list) BY <1>0, SplitAtType
  <2>4. SubSeq(n.list, SplitAt(part, i) + 1, Len(n.list)) \in Seq(LineNode)
    BY <2>2, <2>3, CutInTwo
  <2>5. rest \in Seq(LineNode) BY <2>4, MaterialPruned
  <2>6. HeldOver(part, i) \in {<<>>, <<n>>, <<Insert(n.class, rest)>>} BY DEF HeldOver
  <2> HIDE DEF n, rest
  <2> DEFINE m == Insert(n.class, rest)
  <2>7. m \in TrueNode BY <2>2, <2>5, TrueNodeFacts
  <2>8. HeldOver(part, i) \in {<<>>, <<n>>, <<m>>} BY <2>6
  <2> HIDE DEF m
  <2>9. <<>> \in Seq(TrueNode) /\ <<n>> \in Seq(TrueNode) /\ <<m>> \in Seq(TrueNode)
    BY <2>1, <2>7
  <2> QED BY <2>8, <2>9
<1> DEFINE E == Seq(TrueNode)
           p == [i \in DOMAIN part |-> IF i \in InsertsAt(part) THEN HeldOver(part, i) ELSE <<>>]
<1>2. <<>> \in E OBVIOUS
<1>3. \A i \in InsertsAt(part) : HeldOver(part, i) \in E BY <1>1
<1> HIDE DEF E
<1>4. p \in Seq(E) BY <1>2, <1>3
<1> HIDE DEF p
<1>5. FlattenSeq(p) \in Seq(TrueNode) BY <1>4, FlattenType DEF E
<1> QED BY <1>5 DEF Unplaced, p

\* So does the page without its insertions, which has none.
LEMMA TextAloneTrue ==
  ASSUME NEW part \in Seq(Node)
  PROVE  TextAlone(part) \in Seq(TrueNode)
<1>1. TextAlone(part) = Spread(AloneOn(Node), part) BY TextAloneIs
<1>2. ASSUME NEW n \in Node PROVE (IF n.kind # "insert" THEN <<n>> ELSE <<>>) \in Seq(TrueNode)
  <2>1. n.kind # "insert" => n \in TrueNode BY TrueNodeFacts
  <2> QED BY <2>1
<1>3. Maps(AloneOn(Node), Node, Seq(TrueNode)) BY <1>2 DEF Maps, AloneOn
<1> QED BY <1>1, <1>3, SpreadType

\* And what fire_up gives back.
LEMMA SpentTrue ==
  ASSUME NEW list \in Seq(TrueNode), NEW p \in Int
  PROVE  Spent(list, p) \in Seq(TrueNode) /\ Penalty(p) \in TrueNode
<1>1. \A q \in Int : Penalty(q) \in TrueNode
  <2> TAKE q \in Int
  <2>1. Penalty(q) \in Plain /\ Penalty(q).kind = "penalty" BY DEF Penalty, Plain
  <2> QED BY <2>1, PlainIsNode, TrueNodeFacts
<1>2. CASE list # <<>> /\ Head(list) = Penalty(p)
  <2> DEFINE n == Penalty(InfinitePenalty)
  <2>1. n \in TrueNode BY <1>1 DEF InfinitePenalty
  <2>2. Spent(list, p) = <<n>> \o Tail(list) BY <1>2 DEF Spent
  <2>3. Tail(list) \in Seq(TrueNode) BY <1>2
  <2> HIDE DEF n
  <2>4. <<n>> \o Tail(list) \in Seq(TrueNode) BY <2>1, <2>3
  <2> QED BY <2>2, <2>4, <1>1
<1>3. CASE ~(list # <<>> /\ Head(list) = Penalty(p))
  <2>1. Spent(list, p) = list BY <1>3 DEF Spent
  <2> QED BY <2>1, <1>1
<1> QED BY <1>2, <1>3

-------------------------------------------------------------------------------
(* What the page has room for. *)

\* A break costs no more than one that is out of the question.
LEMMA CostBound ==
  ASSUME TypeOK, NEW m \in Measures, NEW g \in Int, NEW p \in Int, p < InfinitePenalty
  PROVE  PageCost(m, g, p) <= Awful
<1> DEFINE b == Badness(m, g)
<1>1. b \in Int BY BadnessType
<1> HIDE DEF b
<1>2. insertPenalties \in Int BY DEF TypeOK
<1>3. insertPenalties < InfinitePenalty => BreakCost(b, p, insertPenalties) <= Awful
  BY <1>1, <1>2 DEF BreakCost, Awful, InfinitePenalty, InfiniteBadness, Deplorable
<1>4. PageCost(m, g, p) = IF insertPenalties >= InfinitePenalty THEN Awful
                          ELSE BreakCost(b, p, insertPenalties)
  BY DEF PageCost, b
<1> QED BY <1>2, <1>3, <1>4 DEF Awful, InfinitePenalty

\* The records of the page are records.
LEMMA RecordsAre ==
  ASSUME TypeOK
  PROVE  IsRecords(inserts) /\ boxes \in Filling /\ page \in Seq(Node)
BY DEF TypeOK, IsRecords, Filling

\* All insertions, wherever they wait, are as tall as they say.
Measured ==
  /\ contribs \in Seq(TrueNode) /\ page \in Seq(TrueNode) /\ made \in Seq(TrueNode)
  /\ box255.list \in Seq(TrueNode)

\* Nothing is settled of a page before its first box or insertion.
Settled ==
  /\ pc = "routine" => ~frozen
  /\ ~frozen => ~hasBox /\ inserts = <<>>
  /\ ~hasBox => best.cost >= Awful

\* The goal is what the insertions on the page leave of \vsize, and the best
\* break goes with what those before it leave.
Accounted ==
  pc # "routine" /\ ~sent.strays =>
     /\ DOMAIN inserts = ClassesOf(page)
     /\ frozen => goal = VSize - RoomBy(boxes, inserts, page)
     /\ best.cost < Awful =>
          best.size = VSize - RoomBy(boxes, inserts, SubSeq(page, 1, best.at))

Fitted == Measured /\ Settled /\ Accounted /\ PageFitsUnlessLeft

\* A part of the page has no room taken if it has no insertions.
LEMMA NoRoom ==
  ASSUME NEW bx \in Filling, NEW recs, IsRecords(recs), NEW part \in Seq(Node), ClassesOf(part) = {}
  PROVE  RoomBy(bx, recs, part) = 0
BY FilledType, RoomFacts DEF RoomBy

\* The room taken is an integer.
LEMMA RoomType ==
  ASSUME NEW bx \in Filling, NEW recs, IsRecords(recs), NEW part \in Seq(Node)
  PROVE  RoomBy(bx, recs, part) \in Int
BY FilledType, RoomFacts DEF RoomBy

\* Where the page starts from is what its insertions leave of \vsize, whether
\* anything is settled yet or not.
LEMMA StartGoalIs ==
  ASSUME TypeOK, Fitted, pc # "routine", ~sent.strays
  PROVE  StartGoal = VSize - RoomBy(boxes, inserts, page)
<1>0. IsRecords(inserts) /\ boxes \in Filling /\ page \in Seq(Node) BY RecordsAre
<1>1. CASE frozen BY <1>1 DEF StartGoal, Fitted, Accounted
<1>2. CASE ~frozen
  <2>1. ClassesOf(page) = {} BY <1>2 DEF Fitted, Settled, Accounted
  <2>2. RoomBy(boxes, inserts, page) = 0 BY <1>0, <2>1, NoRoom
  <2>3. StartGoal = VSize /\ VSize \in Int BY <1>2, SizesAssumption DEF StartGoal
  <2> QED BY <2>2, <2>3
<1> QED BY <1>1, <1>2

\* A break of the page that goes with what the insertions before it leave.
BreakFits(b) ==
  /\ b \in [at : 0 .. Len(page), penalty : Int, size : Int, cost : Int]
  /\ ~sent.strays => b.size = VSize - RoomBy(boxes, inserts, SubSeq(page, 1, b.at))

\* The best break, with the one that is weighed now.
LEMMA BetterFits ==
  ASSUME TypeOK, Fitted, pc # "routine", NEW cost \in Int, cost <= Awful, NEW p \in Int, NEW g \in Int,
         ~sent.strays => g = VSize - RoomBy(boxes, inserts, page)
  PROVE  BreakFits(Better(cost, p, g))
<1> DEFINE b == Better(cost, p, g)
<1>1. b \in [at : 0 .. Len(page), penalty : Int, size : Int, cost : Int] BY BetterType
<1>2. page \in Seq(Node) BY DEF TypeOK
<1>3. CASE cost > best.cost
  <2>1. b = best BY <1>3 DEF Better
  <2>2. best.cost < Awful
    <3>1. best \in [at : 0 .. Len(page), penalty : Int, size : Int, cost : Int] BY DEF TypeOK
    <3>2. best.cost \in Int /\ Awful \in Int BY <3>1 DEF Awful
    <3> QED BY <3>2, <1>3
  <2> HIDE DEF b
  <2> QED BY <1>1, <2>1, <2>2 DEF Fitted, Accounted, BreakFits, b
<1>4. CASE ~(cost > best.cost)
  <2>1. b.at = Len(page) /\ b.size = g BY <1>4 DEF Better
  <2>2. SubSeq(page, 1, Len(page)) = page BY <1>2
  <2> HIDE DEF b
  <2> QED BY <1>1, <2>1, <2>2 DEF BreakFits, b
<1> QED BY <1>3, <1>4

\* The break at the first contribution, if there may be one.
LEMMA HereFits ==
  ASSUME TypeOK, Fitted, pc = "building", hasBox, contribs # <<>>, MayBreak
  PROVE  BreakFits(BestHere)
<1>1. Next1 \in Node BY HeadTail DEF Next1
<1>2. Next1.kind = "penalty" => Next1.penalty \in Int /\ Next1.penalty < InfinitePenalty
  <2>1. Next1.kind = "penalty" => Next1.penalty \in Int BY <1>1, NodeFacts
  <2>2. Next1.kind = "penalty" => Next1.penalty < InfinitePenalty BY DEF MayBreak, Legal
  <2> QED BY <2>1, <2>2
<1>3. PenaltyOf(Next1) \in Int /\ PenaltyOf(Next1) < InfinitePenalty
  BY <1>2 DEF PenaltyOf, InfinitePenalty
<1>4. dims \in Measures /\ goal \in Int /\ pc # "routine" BY DEF TypeOK
<1>5. CostHere \in Int /\ CostHere <= Awful BY <1>3, <1>4, PageCostType, CostBound DEF CostHere
<1> DEFINE p == IF Next1.kind = "penalty" THEN Next1.penalty ELSE InfinitePenalty
<1>6. p \in Int BY <1>2 DEF InfinitePenalty
<1>7. BestHere = Better(CostHere, p, goal) BY DEF BestHere
<1>8. ~sent.strays => goal = VSize - RoomBy(boxes, inserts, page)
  BY DEF Fitted, Settled, Accounted
<1> HIDE DEF p
<1> QED BY <1>4, <1>5, <1>6, <1>7, <1>8, BetterFits

-------------------------------------------------------------------------------
(* A page is sent off. *)

\* fire_up fills the boxes of the classes by what is recorded of them.
LEMMA CollectedIsFilled ==
  ASSUME NEW part
  PROVE  Collected(part) = Filled(boxes, inserts, part)
<1>1. \A i : SplitAt(part, i) = CutBy(inserts, part, i) BY DEF SplitAt, CutBy, IsSplit
<1>2. \A i : Taken(part, i) = CutOf(inserts, part, i) BY <1>1 DEF Taken, CutOf
<1>3. \A c : [i \in DOMAIN part |-> IF i \in InsertsAt(part) /\ part[i].class = c
                                    THEN Taken(part, i) ELSE <<>>] = Adds(inserts, part, c)
  BY <1>2 DEF Adds
<1> QED BY <1>3 DEF Collected, Filled, Given

\* What is said of a page that was sent off.
LEMMA FireUpSends ==
  ASSUME NEW part, NEW b, FireUp(part, b)
  PROVE  LET left   == IF holding THEN <<>> ELSE Unplaced(part)
             filled == IF holding THEN boxes ELSE Collected(part)
         IN  sent' = [weighed |-> ~holding, onto |-> sent.strays, used |-> b.size + RoomOf(part, filled),
                      strays |-> ~(Routine /\ ~Overworked) /\ left # <<>>]
<1> DEFINE packed == IF holding THEN part ELSE TextAlone(part)
           left   == IF holding THEN <<>> ELSE Unplaced(part)
           filled == IF holding THEN boxes ELSE Collected(part)
           Effect(l, f) ==
             sent' = [weighed |-> ~holding, onto |-> sent.strays, used |-> b.size + RoomOf(part, f),
                      strays |-> ~(Routine /\ ~Overworked) /\ l # <<>>]
<1>1. \E p \in {packed}, l \in {left}, f \in {filled} : Effect(l, f)
  BY ZenonT(40) DEF FireUp
<1>2. Effect(left, filled)
  <2> HIDE DEF packed, left, filled, Effect
  <2> QED BY <1>1
<1> QED BY <1>2, Zenon

\* The page that goes off is what \vsize has room for, and nothing is settled
\* of the next one.
LEMMA FireUpFits ==
  ASSUME TypeOK, Shape, Fitted, pc = "building",
         NEW k \in 0 .. Len(page), NEW part, part = SubSeq(page, 1, k),
         NEW b, b.penalty \in Int, b.size \in Int,
         ~sent.strays => b.size = VSize - RoomBy(boxes, inserts, part),
         FireUp(part, b)
  PROVE  Fitted'
<1> DEFINE packed == IF holding THEN part ELSE TextAlone(part)
           left   == IF holding THEN <<>> ELSE Unplaced(part)
           filled == IF holding THEN boxes ELSE Collected(part)
           runs   == Routine /\ ~Overworked
           after  == SubSeq(page, Len(part) + 1, Len(page))
           returned == after \o contribs
           room   == RoomOf(part, filled)
<1>0. page \in Seq(TrueNode) /\ contribs \in Seq(TrueNode) BY DEF Fitted, Measured
<1>1. part \in Seq(TrueNode) /\ part \in Seq(Node) /\ after \in Seq(TrueNode)
  <2>1. Len(part) = k BY <1>0, CutInTwo
  <2> QED BY <2>1, <1>0, CutInTwo, TrueNodeFacts
<1> HIDE DEF after
<1>2. returned \in Seq(TrueNode) BY <1>0, <1>1
<1>3. packed \in Seq(TrueNode) BY <1>1, TextAloneTrue
<1>4. left \in Seq(TrueNode)
  <2>1. <<>> \in Seq(TrueNode) OBVIOUS
  <2> QED BY <2>1, <1>1, UnplacedTrue
<1>5. ~holding => filled = Filled(boxes, inserts, part) BY CollectedIsFilled
<1>6. /\ contribs' = Spent(returned, b.penalty) /\ page' = left
      /\ hasBox' = FALSE /\ frozen' = FALSE
      /\ best' = NoBest /\ inserts' = <<>>
      /\ pc' = IF runs THEN "routine" ELSE "building"
      /\ box255' = IF runs THEN [void |-> FALSE, list |-> packed, size |-> b.size] ELSE NoBox
      /\ made' = <<>>
  BY FireUpIs, Zenon DEF after
<1>7. sent' = [weighed |-> ~holding, onto |-> sent.strays, used |-> b.size + room,
               strays |-> ~runs /\ left # <<>>]
  BY FireUpSends, Zenon
<1> HIDE DEF packed, left, runs, returned, filled, room
<1>8. Measured'
  <2>1. contribs' \in Seq(TrueNode) BY <1>2, <1>6, SpentTrue
  <2>2. box255'.list \in Seq(TrueNode) BY <1>3, <1>6 DEF NoBox
  <2>3. made' \in Seq(TrueNode) BY <1>6
  <2> QED BY <2>1, <2>2, <2>3, <1>4, <1>6 DEF Measured
<1>9. Settled'
  <2>1. best'.cost = Awful /\ Awful >= Awful BY <1>6 DEF NoBest, Awful
  <2> QED BY <2>1, <1>6 DEF Settled
<1>10. Accounted'
  <2> SUFFICES ASSUME pc' # "routine", ~sent'.strays PROVE Accounted'
    BY DEF Accounted
  <2>1. ~runs BY <1>6
  <2>2. left = <<>> BY <2>1, <1>7
  <2>3. ClassesOf(page') = {} BY <2>2, <1>6 DEF ClassesOf, InsertsAt
  <2>4. DOMAIN inserts' = {} BY <1>6
  <2>5. ~(best'.cost < Awful) BY <1>6 DEF NoBest, Awful
  <2> QED BY <2>3, <2>4, <2>5, <1>6 DEF Accounted
<1>11. PageFitsUnlessLeft'
  <2> SUFFICES ASSUME ~sent'.onto, sent'.weighed PROVE sent'.used = VSize
    BY DEF PageFitsUnlessLeft, PageFits
  <2>1. sent'.onto = sent.strays /\ sent'.weighed = ~holding /\ sent'.used = b.size + room BY <1>7
  <2>2. ~sent.strays /\ ~holding BY <2>1
  <2>3. room = RoomBy(boxes, inserts, part) BY <2>2, <1>5 DEF room, RoomBy
  <2>4. b.size = VSize - room BY <2>2, <2>3
  <2>5. room \in Int BY <2>3, <1>1, RecordsAre, RoomType
  <2>6. VSize \in Int BY SizesAssumption
  <2> QED BY <2>1, <2>4, <2>5, <2>6
<1> QED BY <1>8, <1>9, <1>10, <1>11 DEF Fitted

-------------------------------------------------------------------------------
(* A contribution joins the page. *)

\* What was in front of a break still is when the page grows.
LEMMA FrontStays ==
  ASSUME NEW old \in Seq(Node), NEW list, Extends(list, old), NEW k \in 0 .. Len(old)
  PROVE  SubSeq(list, 1, k) = SubSeq(old, 1, k)
<1>1. list \in Seq(Node) /\ k \in 0 .. Len(list) BY DEF Extends
<1>2. /\ SubSeq(list, 1, k) \in Seq(Node) /\ Len(SubSeq(list, 1, k)) = k
      /\ \A i \in 1 .. k : SubSeq(list, 1, k)[i] = list[i]
  BY <1>1, CutInTwo
<1>3. /\ SubSeq(old, 1, k) \in Seq(Node) /\ Len(SubSeq(old, 1, k)) = k
      /\ \A i \in 1 .. k : SubSeq(old, 1, k)[i] = old[i]
  BY CutInTwo
<1>4. \A i \in 1 .. k : list[i] = old[i] BY DEF Extends
<1> DEFINE a == SubSeq(list, 1, k)
           b == SubSeq(old, 1, k)
<1> HIDE DEF a, b
<1>5. a = b BY <1>2, <1>3, <1>4, SeqEqual DEF a, b
<1> QED BY <1>5 DEF a, b

\* When a contribution is settled, and the new page is accounted for.
LEMMA SettleFits ==
  ASSUME Fitted, pc = "building", contribs # <<>>,
         NEW m, NEW g, NEW b, NEW list \in Seq(TrueNode), Settle(m, g, b, list),
         ~frozen' => ~hasBox' /\ inserts' = <<>>,
         ~hasBox' => b.cost >= Awful,
         ~sent.strays =>
            /\ DOMAIN inserts' = ClassesOf(list)
            /\ frozen' => g = VSize - RoomBy(boxes, inserts', list)
            /\ b.cost < Awful => b.size = VSize - RoomBy(boxes, inserts', SubSeq(list, 1, b.at))
  PROVE  Fitted'
<1>1. /\ page' = list /\ contribs' = Tail(contribs) /\ goal' = g /\ best' = b
      /\ UNCHANGED <<pc, made, box255, boxes, sent>>
  BY DEF Settle, out
<1>2. contribs \in Seq(TrueNode) BY DEF Fitted, Measured
<1>3. contribs' \in Seq(TrueNode) BY <1>1, <1>2
<1>4. Measured' BY <1>1, <1>3 DEF Fitted, Measured
<1>5. Settled' BY <1>1 DEF Settled
<1>6. Accounted'
  <2> SUFFICES ASSUME ~sent'.strays PROVE Accounted'
    BY DEF Accounted
  <2>1. ~sent.strays BY <1>1
  <2> QED BY <2>1, <1>1 DEF Accounted
<1>7. PageFitsUnlessLeft' BY <1>1 DEF Fitted, PageFitsUnlessLeft, PageFits
<1> QED BY <1>4, <1>5, <1>6, <1>7 DEF Fitted

\* The same, if the room that insertions take is what it was.
LEMMA SettlePlainFits ==
  ASSUME TypeOK, Fitted, pc = "building", contribs # <<>>,
         NEW m, NEW g, NEW b, b.at \in 0 .. Len(page),
         NEW list \in Seq(TrueNode), Extends(list, page), Settle(m, g, b, list),
         inserts' = inserts,
         ~frozen' => ~frozen /\ ~hasBox',
         ~hasBox' => b.cost >= Awful,
         ClassesOf(list) = ClassesOf(page),
         RoomBy(boxes, inserts, list) = RoomBy(boxes, inserts, page),
         ~sent.strays =>
            /\ frozen' => g = VSize - RoomBy(boxes, inserts, page)
            /\ b.cost < Awful => b.size = VSize - RoomBy(boxes, inserts, SubSeq(page, 1, b.at))
  PROVE  Fitted'
<1>1. page \in Seq(Node) BY DEF TypeOK
<1>2. SubSeq(list, 1, b.at) = SubSeq(page, 1, b.at) BY <1>1, FrontStays
<1>3. ~frozen' => ~hasBox' /\ inserts' = <<>> BY DEF Fitted, Settled
<1>4. ~sent.strays => DOMAIN inserts' = ClassesOf(list) BY DEF Fitted, Accounted
<1> QED BY <1>2, <1>3, <1>4, SettleFits

\* A node that is no insertion leaves the room that insertions take what it is.
LEMMA PlainOnPage ==
  ASSUME TypeOK, NEW n \in TrueNode, n.kind # "insert", NEW part \in Seq(TrueNode)
  PROVE  /\ Append(part, n) \in Seq(TrueNode)
         /\ ClassesOf(Append(part, n)) = ClassesOf(part)
         /\ RoomBy(boxes, inserts, Append(part, n)) = RoomBy(boxes, inserts, part)
<1>1. IsRecords(inserts) /\ boxes \in Filling BY RecordsAre
<1>2. n \in Node /\ part \in Seq(Node) BY TrueNodeFacts
<1>3. Append(part, n) \in Seq(TrueNode) OBVIOUS
<1> QED BY <1>1, <1>2, <1>3, ClassesAppend, RoomPlain

\* The first contribution is as tall as it says, if it is an insertion.
LEMMA HeadTrue ==
  ASSUME Fitted, contribs # <<>>
  PROVE  Head(contribs) \in TrueNode
<1>1. contribs \in Seq(TrueNode) BY DEF Fitted, Measured
<1> HIDE DEF Fitted
<1> QED BY <1>1, SMTT(40)

\* The page keeps its room when a box, a mark or what may be thrown away joins it,
\* and when it is sent off.
LEMMA PlainStepsFit ==
  ASSUME TypeOK, Shape, Fitted
  PROVE  /\ Carry => Fitted'
         /\ Discard => Fitted'
         /\ FirstBox => Fitted'
         /\ Weigh => Fitted'
         /\ BreakPage => Fitted'
<1>0. /\ page \in Seq(TrueNode) /\ page \in Seq(Node) /\ TopSkip \in Int
      /\ best \in [at : 0 .. Len(page), penalty : Int, size : Int, cost : Int]
      /\ goal \in Int
  BY SizesAssumption DEF TypeOK, Fitted, Measured
<1>t. /\ ~frozen => ~hasBox
      /\ ~hasBox => best.cost >= Awful
      /\ pc = "building" /\ ~sent.strays =>
           /\ frozen => goal = VSize - RoomBy(boxes, inserts, page)
           /\ best.cost < Awful =>
                best.size = VSize - RoomBy(boxes, inserts, SubSeq(page, 1, best.at))
  BY DEF Fitted, Settled, Accounted
<1>1. ASSUME Carry PROVE Fitted'
  <2> DEFINE n == Head(contribs)
             list == Append(page, n)
  <2>1. pc = "building" /\ contribs # <<>> /\ n.kind = "mark" BY <1>1 DEF Carry, Building
  <2>2. n \in TrueNode /\ n \in Node BY <2>1, HeadTrue, TrueNodeFacts
  <2>3. Extends(list, page) BY <1>0, <2>2, ExtendsByOne
  <2>4. Settle(dims, goal, best, list) /\ UNCHANGED <<hasBox, frozen, inserts>>
    BY <1>1 DEF Carry
  <2>5. n.kind # "insert" BY <2>1
  <2> HIDE DEF n
  <2>6. /\ list \in Seq(TrueNode) /\ ClassesOf(list) = ClassesOf(page)
        /\ RoomBy(boxes, inserts, list) = RoomBy(boxes, inserts, page)
    BY <1>0, <2>2, <2>5, PlainOnPage
  <2> HIDE DEF list
  <2> QED BY <1>0, <1>t, <2>1, <2>3, <2>4, <2>6, SettlePlainFits
<1>2. ASSUME Discard PROVE Fitted'
  <2>1. pc = "building" /\ contribs # <<>> BY <1>2 DEF Discard, Building
  <2>2. Extends(page, page) BY <1>0 DEF Extends
  <2>3. Settle(dims, goal, best, page) /\ UNCHANGED <<hasBox, frozen, inserts>>
    BY <1>2 DEF Discard
  <2> QED BY <1>0, <1>t, <2>1, <2>2, <2>3, SettlePlainFits
<1>3. ASSUME FirstBox PROVE Fitted'
  <2> DEFINE n     == Head(contribs)
             glue  == SkipTo(TopSkip, n)
             legal == Legal(page, glue, <<n>>)
             cost  == PageCost(StartDims, StartGoal, 0)
             b     == IF legal THEN Better(cost, InfinitePenalty, StartGoal) ELSE best
             m     == Grown(Grown([StartDims EXCEPT !.total = 0], glue, MaxDepth), n, MaxDepth)
             list  == page \o <<glue, n>>
             fires == legal /\ cost = Awful
  <2>1. pc = "building" /\ contribs # <<>> /\ n.kind = "box" /\ ~hasBox
    BY <1>3 DEF FirstBox, Building
  <2>2. n \in TrueNode /\ n \in Node BY <2>1, HeadTrue, TrueNodeFacts
  <2>3. StartDims \in Measures /\ StartGoal \in Int BY StartTypes
  <2>4. glue \in TrueNode /\ glue \in Node /\ glue.kind # "insert"
    <3>1. glue \in Plain BY <1>0, <2>1, <2>2, SkipIsPlain
    <3> HIDE DEF glue
    <3>2. glue.kind # "insert" BY <3>1 DEF Plain
    <3> QED BY <3>1, <3>2, PlainIsNode, TrueNodeFacts
  <2>5. cost \in Int /\ cost <= Awful
    <3>1. 0 \in Int /\ 0 < InfinitePenalty BY DEF InfinitePenalty
    <3> QED BY <3>1, <2>3, PageCostType, CostBound
  <2>6. ~sent.strays => StartGoal = VSize - RoomBy(boxes, inserts, page)
    BY <2>1, StartGoalIs
  <2>7. /\ fires => FireUp(page, b)
        /\ ~fires => Settle(m, StartGoal, b, list) /\ hasBox' = TRUE /\ frozen' = TRUE
                     /\ inserts' = inserts
    BY <1>3 DEF FirstBox
  <2>8. InfinitePenalty \in Int /\ Awful \in Int BY DEF InfinitePenalty, Awful
  <2>l. list = Append(Append(page, glue), n)
    <3> HIDE DEF glue, n
    <3> QED BY <1>0, <2>2, <2>4
  <2> HIDE DEF cost, legal, glue, n
  <2>9. CASE fires
    <3>1. b = Better(cost, InfinitePenalty, StartGoal) /\ cost = Awful BY <2>9
    <3>2. ~(cost > best.cost) BY <3>1, <2>1, <2>5, <1>0, <1>t
    <3>3. b = [at |-> Len(page), penalty |-> InfinitePenalty, size |-> StartGoal, cost |-> cost]
      BY <3>1, <3>2 DEF Better
    <3>4. Len(page) \in 0 .. Len(page) /\ page = SubSeq(page, 1, Len(page)) BY <1>0
    <3>5. FireUp(page, b) BY <2>7, <2>9
    <3> HIDE DEF b, fires
    <3>6. b.penalty \in Int /\ b.size \in Int /\ b.size = StartGoal BY <3>3, <2>3, <2>8
    <3> QED BY <2>1, <2>6, <3>4, <3>5, <3>6, FireUpFits
  <2>10. CASE ~fires
    <3>1. Settle(m, StartGoal, b, list) /\ hasBox' = TRUE /\ frozen' = TRUE /\ inserts' = inserts
      BY <2>7, <2>10
    <3> DEFINE x == Better(cost, InfinitePenalty, StartGoal)
    <3>0. pc # "routine" BY <2>1
    <3>2. /\ x \in [at : 0 .. Len(page), penalty : Int, size : Int, cost : Int]
          /\ ~sent.strays => x.size = VSize - RoomBy(boxes, inserts, SubSeq(page, 1, x.at))
      <4>1. BreakFits(x) BY <3>0, <2>3, <2>5, <2>6, <2>8, BetterFits
      <4> HIDE DEF x
      <4> QED BY <4>1 DEF BreakFits
    <3>3. b \in {x, best} OBVIOUS
    <3> DEFINE first == Append(page, glue)
    <3>4. /\ first \in Seq(TrueNode) /\ ClassesOf(first) = ClassesOf(page)
          /\ RoomBy(boxes, inserts, first) = RoomBy(boxes, inserts, page)
      BY <1>0, <2>4, PlainOnPage
    <3>5. Extends(list, page)
      BY <1>0, <2>2, <2>4 DEF Extends
    <3> HIDE DEF first, list, b, x
    <3>6. list = Append(first, n) BY <2>l DEF first
    <3>7. n.kind # "insert" BY <2>1
    <3>8. /\ list \in Seq(TrueNode) /\ ClassesOf(list) = ClassesOf(page)
          /\ RoomBy(boxes, inserts, list) = RoomBy(boxes, inserts, page)
      BY <2>2, <3>4, <3>6, <3>7, PlainOnPage
    <3>9. /\ b.at \in 0 .. Len(page)
          /\ ~sent.strays /\ b.cost < Awful =>
                b.size = VSize - RoomBy(boxes, inserts, SubSeq(page, 1, b.at))
      BY <2>1, <3>2, <3>3, <1>0, <1>t
    <3> HIDE DEF m
    <3> QED BY <2>1, <2>6, <3>1, <3>5, <3>8, <3>9, SettlePlainFits
  <2> QED BY <2>9, <2>10
<1>4. ASSUME Weigh PROVE Fitted'
  <2> DEFINE b == IF MayBreak THEN BestHere ELSE best
             list == Append(page, Next1)
             m == Grown(dims, Next1, MaxDepth)
  <2>1. pc = "building" /\ contribs # <<>> /\ hasBox /\ Next1.kind # "insert"
    BY <1>4 DEF Weigh, Building, Next1, Discardable
  <2>2. Next1 \in TrueNode /\ Next1 \in Node BY <2>1, HeadTrue, TrueNodeFacts DEF Next1
  <2>3. /\ MayBreak => BestHere \in [at : 0 .. Len(page), penalty : Int, size : Int, cost : Int]
        /\ MayBreak /\ ~sent.strays =>
              BestHere.size = VSize - RoomBy(boxes, inserts, SubSeq(page, 1, BestHere.at))
    BY <2>1, HereFits DEF BreakFits
  <2>4. Settle(m, goal, b, list) /\ UNCHANGED <<hasBox, frozen, inserts>>
    BY <1>4 DEF Weigh
  <2>5. Extends(list, page) BY <1>0, <2>2, ExtendsByOne
  <2>6. /\ list \in Seq(TrueNode) /\ ClassesOf(list) = ClassesOf(page)
        /\ RoomBy(boxes, inserts, list) = RoomBy(boxes, inserts, page)
    BY <1>0, <2>1, <2>2, PlainOnPage
  <2>7. (MayBreak /\ b = BestHere) \/ (~MayBreak /\ b = best) OBVIOUS
  <2> HIDE DEF b, list, m
  <2>8. /\ b.at \in 0 .. Len(page)
        /\ ~sent.strays /\ b.cost < Awful =>
              b.size = VSize - RoomBy(boxes, inserts, SubSeq(page, 1, b.at))
    <3>1. CASE MayBreak /\ b = BestHere BY <3>1, <2>3
    <3>2. CASE ~MayBreak /\ b = best BY <3>2, <2>1, <1>0, <1>t
    <3> QED BY <3>1, <3>2, <2>7
  <2>9. hasBox' /\ frozen' /\ frozen BY <2>1, <2>4, <1>t
  <2> QED BY <1>t, <2>1, <2>4, <2>5, <2>6, <2>8, <2>9, SettlePlainFits
<1>5. ASSUME BreakPage PROVE Fitted'
  <2>1. pc = "building" /\ contribs # <<>> /\ hasBox /\ MayBreak
    BY <1>5 DEF BreakPage, Building
  <2> DEFINE b == BestHere
             part == SubSeq(page, 1, b.at)
  <2>2. FireUp(part, b) BY <1>5 DEF BreakPage
  <2>3. /\ b \in [at : 0 .. Len(page), penalty : Int, size : Int, cost : Int]
        /\ ~sent.strays => b.size = VSize - RoomBy(boxes, inserts, part)
    BY <2>1, HereFits DEF BreakFits
  <2>4. b.at \in 0 .. Len(page) /\ b.penalty \in Int /\ b.size \in Int BY <2>3
  <2> HIDE DEF b
  <2> QED BY <2>1, <2>2, <2>3, <2>4, FireUpFits
<1> QED BY <1>1, <1>2, <1>3, <1>4, <1>5

\* The records once a class has a new one.
With(c, record) == [d \in DOMAIN inserts \cup {c} |-> IF d = c THEN record ELSE inserts[d]]

\* They are records.
LEMMA WithIs ==
  ASSUME TypeOK, NEW c \in Classes, NEW record,
         record \in [held : Int, split : BOOLEAN, broken : Nat, breakAt : Nat]
  PROVE  /\ IsRecords(With(c, record)) /\ DOMAIN With(c, record) = DOMAIN inserts \cup {c}
         /\ With(c, record)[c] = record
         /\ \A d \in DOMAIN inserts \ {c} : With(c, record)[d] = inserts[d]
<1>1. IsRecords(inserts) BY RecordsAre
<1>2. /\ DOMAIN With(c, record) = DOMAIN inserts \cup {c}
      /\ With(c, record)[c] = record
      /\ \A d \in DOMAIN inserts \ {c} : With(c, record)[d] = inserts[d]
  BY DEF With
<1> QED BY <1>1, <1>2 DEF IsRecords

\* A record that is the old one, or that of a class that is not split by anything
\* on the page yet, cuts what stands on the page as before.
LEMMA CutsStay ==
  ASSUME TypeOK, NEW c \in Classes, NEW record,
         record \in [held : Int, split : BOOLEAN, broken : Nat, breakAt : Nat],
         \/ c \in DOMAIN inserts /\ record = inserts[c]
         \/ /\ c \in DOMAIN inserts => ~inserts[c].split
            /\ record.split => record.broken = Len(page) + 1
  PROVE  SameCuts(inserts, With(c, record), page)
<1> DEFINE new == With(c, record)
<1>1. /\ DOMAIN new = DOMAIN inserts \cup {c} /\ new[c] = record
      /\ \A d \in DOMAIN inserts \ {c} : new[d] = inserts[d]
  BY DEF With
<1> HIDE DEF new
<1>2. page \in Seq(Node) BY DEF TypeOK
<1> SUFFICES ASSUME NEW i \in InsertsAt(page) PROVE CutBy(inserts, page, i) = CutBy(new, page, i)
  BY DEF SameCuts, new
<1>3. i \in 1 .. Len(page) /\ i < Len(page) + 1 BY <1>2 DEF InsertsAt
<1> DEFINE n == page[i]
<1> HIDE DEF n
<1>4. CASE n.class # c \/ (c \in DOMAIN inserts /\ record = inserts[c])
  <2>1. /\ n.class \in DOMAIN inserts <=> n.class \in DOMAIN new
        /\ n.class \in DOMAIN inserts => inserts[n.class] = new[n.class]
    BY <1>1, <1>4
  <2> QED BY <2>1 DEF CutBy, n
<1>5. CASE /\ n.class = c
           /\ c \in DOMAIN inserts => ~inserts[c].split
           /\ record.split => record.broken = Len(page) + 1
  <2>1. CutBy(inserts, page, i) = Len(n.list) BY <1>5 DEF CutBy, n
  <2>2. CutBy(new, page, i) = Len(n.list)
    BY <1>1, <1>3, <1>5 DEF CutBy, n
  <2> QED BY <2>1, <2>2
<1> QED BY <1>4, <1>5

\* What the page has room for, once an insertion is taken of which this comes out.
LEMMA TakeInsertFits ==
  ASSUME TypeOK, Shape, Fitted, Building({"insert"}), NEW record, NEW g, NEW cost,
         TakeInsert(record, g, cost),
         Recorded(record, Next1.class, Append(page, Next1)),
         SameCuts(inserts, With(Next1.class, record), page),
         g = GoalWith(Next1.class)
             - InsertionSize(Size(CutOf(With(Next1.class, record), Append(page, Next1), Len(page) + 1)))
  PROVE  Fitted'
<1> DEFINE n == Next1
           c == n.class
           new == With(c, record)
           list == Append(page, n)
           cut == Size(CutOf(new, list, Len(page) + 1))
<1>1. pc = "building" /\ contribs # <<>> /\ n.kind = "insert" BY DEF Building, Next1
<1>2. n \in TrueNode /\ n \in Node BY <1>1, HeadTrue, TrueNodeFacts DEF Next1
<1>3. c \in Classes BY <1>1, <1>2, NodeFacts
<1>4. page \in Seq(TrueNode) /\ page \in Seq(Node) BY DEF TypeOK, Fitted, Measured
<1>5. list \in Seq(TrueNode) /\ Extends(list, page) BY <1>2, <1>4, ExtendsByOne
<1>6. IsRecords(inserts) /\ boxes \in Filling BY RecordsAre
<1>7. IsRecords(new) /\ DOMAIN new = DOMAIN inserts \cup {c} BY <1>3, WithIs DEF Recorded
<1>8. /\ frozen' = TRUE /\ inserts' = new /\ hasBox' = hasBox
      /\ Settle(StartDims, g, best, list)
  BY DEF TakeInsert, With
<1>9. SameCuts(inserts, new, page) OBVIOUS
<1>10. g = GoalWith(c) - InsertionSize(cut) OBVIOUS
<1>11. ClassesOf(list) = ClassesOf(page) \cup {c} BY <1>1, <1>2, <1>4, ClassesAppend
<1>12. /\ cut \in Int
       /\ c \in ClassesOf(page) =>
            RoomBy(boxes, new, list) = RoomBy(boxes, inserts, page) + InsertionSize(cut)
       /\ c \notin ClassesOf(page) =>
            RoomBy(boxes, new, list)
            = RoomBy(boxes, inserts, page) + (InsertionSize(Size(boxes[c])) + ClassSkip)
              + InsertionSize(cut)
  BY <1>1, <1>2, <1>4, <1>6, <1>7, <1>9, RoomTaken
<1>13. /\ RoomBy(boxes, inserts, page) \in Int
       /\ InsertionSize(cut) \in Int /\ InsertionSize(Size(boxes[c])) \in Int
       /\ ClassSkip \in Int /\ VSize \in Int
  <2>1. Size(boxes[c]) \in Int BY <1>3, SizeType DEF TypeOK
  <2>2. \A s \in Int : InsertionSize(s) \in Int BY DEF InsertionSize
  <2>3. RoomBy(boxes, inserts, page) \in Int BY <1>4, <1>6, RoomType
  <2> QED BY <2>1, <2>2, <2>3, <1>12, SizesAssumption
<1> HIDE DEF cut, list, new, c, n
<1>14. ASSUME ~sent.strays PROVE g = VSize - RoomBy(boxes, new, list)
  <2>1. DOMAIN inserts = ClassesOf(page) BY <1>1, <1>14 DEF Fitted, Accounted
  <2>2. CASE c \in DOMAIN inserts
    <3>1. frozen
      <4>1. inserts # <<>> BY <2>2
      <4> QED BY <4>1 DEF Fitted, Settled
    <3>2. goal = VSize - RoomBy(boxes, inserts, page)
      BY <3>1, <1>1, <1>14 DEF Fitted, Accounted
    <3>3. GoalWith(c) = goal BY <2>2 DEF GoalWith
    <3>4. RoomBy(boxes, new, list) = RoomBy(boxes, inserts, page) + InsertionSize(cut)
      BY <2>1, <2>2, <1>12
    <3> QED BY <3>2, <3>3, <3>4, <1>10, <1>13
  <2>3. CASE c \notin DOMAIN inserts
    <3>1. StartGoal = VSize - RoomBy(boxes, inserts, page) BY <1>1, <1>14, StartGoalIs
    <3>2. GoalWith(c) = StartGoal - (InsertionSize(Size(boxes[c])) + ClassSkip)
      BY <2>3 DEF GoalWith
    <3>3. RoomBy(boxes, new, list)
          = RoomBy(boxes, inserts, page) + (InsertionSize(Size(boxes[c])) + ClassSkip)
            + InsertionSize(cut)
      BY <2>1, <2>3, <1>12
    <3> QED BY <3>1, <3>2, <3>3, <1>10, <1>13
  <2> QED BY <2>2, <2>3
<1>15. best.at \in 0 .. Len(page) BY DEF TypeOK
<1> DEFINE front == SubSeq(page, 1, best.at)
<1>16. SubSeq(list, 1, best.at) = front BY <1>4, <1>5, <1>15, FrontStays
<1>17. RoomBy(boxes, new, front) = RoomBy(boxes, inserts, front)
  <2>1. SameCuts(inserts, new, front) BY <1>4, <1>9, <1>15, SameCutsInFront
  <2> HIDE DEF front
  <2> QED BY <2>1, SameRoom
<1>18. ASSUME ~sent.strays, best.cost < Awful
       PROVE  best.size = VSize - RoomBy(boxes, new, SubSeq(list, 1, best.at))
  <2>1. best.size = VSize - RoomBy(boxes, inserts, front) BY <1>1, <1>18 DEF Fitted, Accounted
  <2> QED BY <2>1, <1>16, <1>17
<1>19. ~hasBox' => best.cost >= Awful BY <1>8 DEF Fitted, Settled
<1>20. ~sent.strays => DOMAIN inserts' = ClassesOf(list)
  BY <1>1, <1>7, <1>8, <1>11 DEF Fitted, Accounted
<1> HIDE DEF front
<1> QED BY <1>1, <1>5, <1>8, <1>14, <1>18, <1>19, <1>20, SettleFits

\* The page keeps its room when an insertion is put off, taken, or split: what
\* of it comes out is what the goal was reduced by.
LEMMA InsertStepsFit ==
  ASSUME TypeOK, Shape, Fitted
  PROVE  /\ PutOff => Fitted'
         /\ TakeWhole => Fitted'
         /\ TakePart => Fitted'
<1> SUFFICES ASSUME Building({"insert"}), PutOff \/ TakeWhole \/ TakePart
             PROVE  Fitted'
  BY DEF PutOff, TakeWhole, TakePart
<1> DEFINE n == Next1
           c == n.class
           r == RecordOf(c)
           g == GoalWith(c)
           list == Append(page, n)
           l == Len(page) + 1
<1>1. contribs # <<>> /\ n.kind = "insert" BY DEF Building, Next1
<1>2. n \in TrueNode /\ n \in Node BY <1>1, HeadTrue, TrueNodeFacts DEF Next1
<1>3. c \in Classes /\ n.list \in Seq(LineNode) /\ n.height = Size(n.list)
  BY <1>1, <1>2, NodeFacts DEF TrueNode
<1>4. page \in Seq(Node) BY DEF TypeOK
<1>5. Recorded(r, c, page) /\ g \in Int BY <1>3, RecordOfType
<1>6. Extends(list, page) BY <1>2, <1>4, ExtendsByOne
<1>7. Recorded(r, c, list) BY <1>4, <1>5, <1>6, StillRecorded
<1>8. l \in DOMAIN list /\ list[l] = n /\ l \in Nat /\ Len(n.list) \in Nat BY <1>3, <1>4
<1>9. c \in DOMAIN inserts => r = inserts[c] BY DEF RecordOf
<1>10. c \notin DOMAIN inserts => ~r.split BY DEF RecordOf
\* What of the insertion comes out, by the record of its class.
<1>11. ASSUME NEW record, record \in [held : Int, split : BOOLEAN, broken : Nat, breakAt : Nat]
       PROVE  /\ CutOf(With(c, record), list, l) = SubSeq(n.list, 1, CutBy(With(c, record), list, l))
              /\ ~record.split => CutBy(With(c, record), list, l) = Len(n.list)
              /\ record.split /\ record.broken < l => CutBy(With(c, record), list, l) = 0
              /\ record.split /\ record.broken = l =>
                    CutBy(With(c, record), list, l) = Min({record.breakAt, Len(n.list)})
  <2> DEFINE new == With(c, record)
  <2>1. c \in DOMAIN new /\ new[c] = record BY DEF With
  <2> HIDE DEF new, c
  <2>2. list[l].class = c /\ list[l].list = n.list BY <1>8 DEF c
  <2> HIDE DEF list
  <2>3. /\ CutOf(new, list, l) = SubSeq(n.list, 1, CutBy(new, list, l))
        /\ ~record.split => CutBy(new, list, l) = Len(n.list)
    BY <2>1, <2>2 DEF CutOf, CutBy
  <2>4. ASSUME record.split, record.broken < l PROVE CutBy(new, list, l) = 0
    <3>1. ~(l < record.broken) /\ l > record.broken
      <4>1. record.broken \in Nat BY <1>11
      <4>2. l \in Nat BY <1>8
      <4> HIDE DEF l
      <4> QED BY <4>1, <4>2, <2>4
    <3> HIDE DEF l
    <3> QED BY <3>1, <2>1, <2>2, <2>4 DEF CutBy
  <2>5. ASSUME record.split, record.broken = l
        PROVE  CutBy(new, list, l) = Min({record.breakAt, Len(n.list)})
    <3>1. ~(l < record.broken) /\ ~(l > record.broken)
      <4>1. l \in Nat BY <1>8
      <4> HIDE DEF l
      <4> QED BY <4>1, <2>5
    <3> HIDE DEF l
    <3> QED BY <3>1, <2>1, <2>2, <2>5 DEF CutBy
  <2> QED BY <2>3, <2>4, <2>5 DEF new
<1>p. /\ PutOff => r.split /\ TakeInsert(r, g, FloatCost)
      /\ TakeWhole => ~r.split /\ TakeInsert([r EXCEPT !.held = @ + n.height], g - InsertionSize(n.height), 0)
      /\ TakePart => ~r.split
      /\ TakePart => \E room : \E v \in VerticalBreak(Places(n.list, SplitMaxDepth), room) :
            TakeInsert([held |-> r.held + (v.above.total + v.above.depth), split |-> TRUE,
                        broken |-> Len(page) + 1, breakAt |-> v.at],
                       g - InsertionSize(v.above.total + v.above.depth), v.penalty)
  BY DEF PutOff, TakeWhole, TakePart
<1> HIDE DEF r, g, n, list, c, l
<1>12. CASE PutOff
  <2>1. r.split /\ TakeInsert(r, g, FloatCost) BY <1>12, <1>p
  <2>2. r \in [held : Int, split : BOOLEAN, broken : Nat, breakAt : Nat] BY <1>5 DEF Recorded
  <2>3. r.broken < l
    <3>1. r.broken \in 1 .. Len(page) BY <1>4, <1>5, <2>1 DEF Recorded
    <3> QED BY <3>1, <1>4 DEF l
  <2>4. c \in DOMAIN inserts /\ r = inserts[c] BY <1>9, <1>10, <2>1
  <2>5. SameCuts(inserts, With(c, r), page) BY <1>3, <2>2, <2>4, CutsStay
  <2> DEFINE cut == CutOf(With(c, r), list, l)
  <2>6. Size(cut) = 0
    <3>1. cut = SubSeq(n.list, 1, 0) BY <1>11, <2>1, <2>2, <2>3
    <3>2. SubSeq(n.list, 1, 0) = <<>> BY <1>3
    <3> QED BY <3>1, <3>2, SizeEmpty
  <2> HIDE DEF cut
  <2>7. g = g - InsertionSize(Size(cut))
    <3>1. InsertionSize(0) = 0 BY DEF InsertionSize
    <3> QED BY <3>1, <2>6, <1>5
  <2> QED BY <1>7, <2>1, <2>5, <2>7, TakeInsertFits, Zenon DEF cut, g, c, n, list, l
<1>13. CASE TakeWhole
  <2> DEFINE record == [r EXCEPT !.held = @ + n.height]
  <2>1. ~r.split /\ TakeInsert(record, g - InsertionSize(n.height), 0) BY <1>13, <1>p
  <2>2. /\ record \in [held : Int, split : BOOLEAN, broken : Nat, breakAt : Nat]
        /\ ~record.split
    <3>1. n.height \in Int BY <1>3, SizeType
    <3> QED BY <3>1, <1>5, <2>1 DEF Recorded
  <2> HIDE DEF record
  <2>3. Recorded(record, c, list) BY <2>2 DEF Recorded
  <2>4. SameCuts(inserts, With(c, record), page) BY <1>3, <1>9, <2>1, <2>2, CutsStay
  <2> DEFINE cut == CutOf(With(c, record), list, l)
  <2>5. Size(cut) = n.height
    <3>1. cut = SubSeq(n.list, 1, Len(n.list)) BY <1>11, <2>2
    <3>2. SubSeq(n.list, 1, Len(n.list)) = n.list BY <1>3
    <3> QED BY <3>1, <3>2, <1>3
  <2> HIDE DEF cut
  <2>6. TakeInsert(record, g - InsertionSize(Size(cut)), 0) BY <2>1, <2>5
  <2> QED BY <2>3, <2>4, <2>6, TakeInsertFits, Zenon DEF cut, g, c, n, list, l
<1>14. CASE TakePart
  <2>1. ~r.split BY <1>14, <1>p
  <2>2. PICK room : \E v \in VerticalBreak(Places(n.list, SplitMaxDepth), room) :
            TakeInsert([held |-> r.held + (v.above.total + v.above.depth), split |-> TRUE,
                        broken |-> Len(page) + 1, breakAt |-> v.at],
                       g - InsertionSize(v.above.total + v.above.depth), v.penalty)
    BY <1>14, <1>p
  <2>3. PICK v \in VerticalBreak(Places(n.list, SplitMaxDepth), room) :
            TakeInsert([held |-> r.held + (v.above.total + v.above.depth), split |-> TRUE,
                        broken |-> Len(page) + 1, breakAt |-> v.at],
                       g - InsertionSize(v.above.total + v.above.depth), v.penalty)
    BY <2>2
  <2>4. v \in Places(n.list, SplitMaxDepth) BY <2>3 DEF VerticalBreak
  <2>5. v.at \in 0 .. Len(n.list) BY <2>4, <1>3, SizesAssumption, PlacesType
  <2>6. v.above = Measure(SubSeq(n.list, 1, v.at), SplitMaxDepth) BY <2>4 DEF Places
  <2> DEFINE front == SubSeq(n.list, 1, v.at)
  <2>7. front \in Seq(LineNode) BY <2>5, <1>3, CutInTwo
  <2>8. v.above.total + v.above.depth = Size(front) /\ Size(front) \in Int
    <3> HIDE DEF front
    <3> QED BY <2>6, <2>7, SizesAssumption, MeasureIsSize, SizeType DEF front
  <2> DEFINE reached == v.above.total + v.above.depth
             record == [held |-> r.held + reached, split |-> TRUE, broken |-> l, breakAt |-> v.at]
  <2>9. TakeInsert(record, g - InsertionSize(reached), v.penalty) BY <2>3 DEF l
  <2>10. reached = Size(front) /\ reached \in Int BY <2>8
  <2> HIDE DEF reached, front
  <2>11. r.held \in Int /\ v.at \in Nat BY <1>5, <1>8, <2>5 DEF Recorded
  <2>12. /\ record \in [held : Int, split : BOOLEAN, broken : Nat, breakAt : Nat]
         /\ record.split /\ record.broken = l /\ record.breakAt = v.at
    BY <1>8, <2>10, <2>11
  <2> HIDE DEF record
  <2>13. Recorded(record, c, list) BY <1>1, <1>8, <2>12 DEF Recorded, c
  <2>14. SameCuts(inserts, With(c, record), page) BY <1>3, <1>9, <2>1, <2>12, CutsStay DEF l
  <2> DEFINE cut == CutOf(With(c, record), list, l)
  <2>15. cut = front
    <3>1. Min({v.at, Len(n.list)}) = v.at
      <4> DEFINE a == v.at
                 b == Len(n.list)
      <4>1. a \in Int /\ b \in Int /\ a <= b BY <1>8, <2>5
      <4> HIDE DEF a, b
      <4>2. Min({a, b}) \in {a, b} /\ Min({a, b}) <= a BY <4>1, MinMaxOfTwo
      <4>3. Min({a, b}) = a BY <4>1, <4>2
      <4> QED BY <4>3 DEF a, b
    <3>2. cut = SubSeq(n.list, 1, Min({v.at, Len(n.list)})) BY <1>11, <2>12
    <3> QED BY <3>1, <3>2 DEF front
  <2> HIDE DEF cut
  <2>16. TakeInsert(record, g - InsertionSize(Size(cut)), v.penalty) BY <2>9, <2>10, <2>15
  <2> QED BY <2>13, <2>14, <2>16, TakeInsertFits, Zenon DEF cut, g, c, n, list, l
<1> QED BY <1>12, <1>13, <1>14

-------------------------------------------------------------------------------
(* The other steps. *)

\* What the document contributes is as tall as it says.
LEMMA DocumentStepsFit ==
  ASSUME TypeOK, Shape, Fitted
  PROVE  /\ \A x \in Items : Contribute(x) => Fitted'
         /\ Paragraph => Fitted'
         /\ End => Fitted'
         /\ EjectLastPages => Fitted'
         /\ Rest => Fitted'
<1>0. contribs \in Seq(TrueNode) BY DEF Fitted, Measured
<1>1. ASSUME pc # "routine", pc' # "routine", contribs' \in Seq(TrueNode),
             UNCHANGED <<page, made, hasBox, frozen, goal, best, inserts, box255, boxes, sent>>
      PROVE  Fitted'
  <2>1. Measured' BY <1>1 DEF Fitted, Measured
  <2>2. Settled' BY <1>1 DEF Fitted, Settled
  <2>3. Accounted' BY <1>1 DEF Fitted, Accounted
  <2>4. PageFitsUnlessLeft' BY <1>1 DEF Fitted, PageFitsUnlessLeft, PageFits
  <2> QED BY <2>1, <2>2, <2>3, <2>4 DEF Fitted
<1>2. ASSUME NEW x \in Items, Contribute(x) PROVE Fitted'
  <2> DEFINE n == Numbered(x, read + 1)
  <2>1. /\ pc = "reading" /\ pc' \in {"building", "reading"}
        /\ contribs' = Append(contribs, n)
        /\ UNCHANGED <<page, made, hasBox, frozen, goal, best, inserts, box255, boxes, sent>>
    BY <1>2 DEF Contribute, weighs, out
  <2>2. read + 1 \in Nat \ {0} BY DEF TypeOK
  <2>3. n \in TrueNode BY <2>2, NumberedTrue
  <2> HIDE DEF n
  <2>4. contribs' \in Seq(TrueNode) BY <1>0, <2>1, <2>3
  <2>5. pc # "routine" /\ pc' # "routine" BY <2>1
  <2> QED BY <1>1, <2>1, <2>4, <2>5
<1>3. ASSUME Paragraph \/ End \/ Rest PROVE Fitted'
  <2>1. /\ pc # "routine" /\ pc' # "routine" /\ contribs' = contribs
        /\ UNCHANGED <<page, made, hasBox, frozen, goal, best, inserts, box255, boxes, sent>>
    BY <1>3 DEF Paragraph, End, Rest, lists, weighs, out
  <2> QED BY <1>0, <1>1, <2>1
<1>4. ASSUME EjectLastPages PROVE Fitted'
  <2> DEFINE a == Box(0, 0, 0)
             b == Glue(0, 0, TRUE, 0)
             c == Penalty(Eject)
  <2>1. a \in Node /\ a.kind # "insert" BY DEF Node, Box
  <2>2. b \in Node /\ b.kind # "insert"
    <3>1. b \in Plain /\ b.kind = "glue" BY DEF Glue, Plain
    <3> QED BY <3>1, PlainIsNode
  <2>3. c \in Node /\ c.kind # "insert"
    <3>1. Eject \in Int BY DEF Eject
    <3>2. c \in Plain /\ c.kind = "penalty" BY <3>1 DEF Penalty, Plain
    <3> QED BY <3>2, PlainIsNode
  <2>4. /\ contribs' = contribs \o <<a, b, c>> /\ pc = "reading" /\ pc' = "building"
        /\ UNCHANGED <<page, made, hasBox, frozen, goal, best, inserts, box255, boxes, sent>>
    BY <1>4 DEF EjectLastPages, weighs, out
  <2> HIDE DEF a, b, c
  <2>5. a \in TrueNode /\ b \in TrueNode /\ c \in TrueNode BY <2>1, <2>2, <2>3, TrueNodeFacts
  <2>6. contribs' \in Seq(TrueNode) BY <1>0, <2>4, <2>5
  <2>7. pc # "routine" /\ pc' # "routine" BY <2>4
  <2> QED BY <1>1, <2>4, <2>6, <2>7
<1> QED BY <1>2, <1>3, <1>4

\* Nothing is settled while the routine runs, nor when it ends.
LEMMA RoutineStepsFit ==
  ASSUME TypeOK, Shape, Fitted
  PROVE  RoutineStep => Fitted'
<1>0. /\ contribs \in Seq(TrueNode) /\ page \in Seq(TrueNode) /\ made \in Seq(TrueNode)
      /\ box255.list \in Seq(TrueNode) /\ <<>> \in Seq(TrueNode)
  BY DEF Fitted, Measured
<1>1. ASSUME pc = "routine", pc' = "routine",
             made' \in Seq(TrueNode), box255'.list \in Seq(TrueNode),
             UNCHANGED <<contribs, page, hasBox, frozen, best, inserts, sent>>
      PROVE  Fitted'
  <2>1. Measured' BY <1>0, <1>1 DEF Measured
  <2>2. Settled' BY <1>1 DEF Fitted, Settled
  <2>3. Accounted' BY <1>1 DEF Accounted
  <2>4. PageFitsUnlessLeft' BY <1>1 DEF Fitted, PageFitsUnlessLeft, PageFits
  <2> QED BY <2>1, <2>2, <2>3, <2>4 DEF Fitted
<1>2. ASSUME ShipBare \/ ShipWhole PROVE Fitted'
  <2>1. /\ pc = "routine" /\ box255' = NoBox
        /\ UNCHANGED <<pc, contribs, page, made, hasBox, frozen, best, inserts, sent>>
    BY <1>2 DEF ShipBare, ShipWhole, ShipOut, lists, weighs
  <2>2. box255'.list \in Seq(TrueNode) BY <2>1, <1>0 DEF NoBox
  <2> QED BY <1>0, <1>1, <2>1, <2>2
<1>3. ASSUME LetInsertsGo PROVE Fitted'
  <2>1. /\ pc = "routine"
        /\ UNCHANGED <<pc, contribs, page, made, hasBox, frozen, best, inserts, sent, box255>>
    BY <1>3 DEF LetInsertsGo, lists, weighs, out
  <2> QED BY <1>0, <1>1, <2>1
<1>4. ASSUME NEW again \in BOOLEAN, Unbox(again) PROVE Fitted'
  <2> DEFINE more == IF again THEN <<Penalty(outPenalty)>> ELSE <<>>
  <2>1. /\ pc = "routine" /\ made' = made \o box255.list \o more /\ box255' = NoBox
        /\ UNCHANGED <<pc, contribs, page, hasBox, frozen, best, inserts, sent>>
    BY <1>4 DEF Unbox, weighs
  <2>2. more \in Seq(TrueNode)
    <3>1. outPenalty \in Int BY DEF TypeOK
    <3>2. Penalty(outPenalty) \in TrueNode BY <1>0, <3>1, SpentTrue
    <3> QED BY <3>2
  <2> HIDE DEF more
  <2>3. made' \in Seq(TrueNode) BY <1>0, <2>1, <2>2
  <2>4. box255'.list \in Seq(TrueNode) BY <2>1, <1>0 DEF NoBox
  <2> QED BY <1>1, <2>1, <2>3, <2>4
<1>5. ASSUME EndRoutine PROVE Fitted'
  <2>1. /\ pc = "routine" /\ contribs' = page \o made \o contribs
        /\ page' = <<>> /\ made' = <<>> /\ box255' = NoBox /\ pc' = "building"
        /\ UNCHANGED <<hasBox, frozen, best, inserts, sent>>
    BY <1>5 DEF EndRoutine
  <2>2. inserts = <<>> /\ best = NoBest BY <2>1 DEF Shape
  <2>3. contribs' \in Seq(TrueNode) BY <1>0, <2>1
  <2>4. Measured' BY <1>0, <2>1, <2>3 DEF Measured, NoBox
  <2>5. ~frozen BY <2>1 DEF Fitted, Settled
  <2>6. Settled' BY <2>1 DEF Fitted, Settled
  <2>7. Accounted'
    <3>1. DOMAIN inserts' = {} BY <2>1, <2>2
    <3>2. ClassesOf(page') = {} BY <2>1 DEF ClassesOf, InsertsAt
    <3>3. ~(best'.cost < Awful) BY <2>1, <2>2 DEF NoBest, Awful
    <3>4. ~frozen' BY <2>1, <2>5
    <3> QED BY <3>1, <3>2, <3>3, <3>4 DEF Accounted
  <2>8. PageFitsUnlessLeft' BY <2>1 DEF Fitted, PageFitsUnlessLeft, PageFits
  <2> QED BY <2>4, <2>6, <2>7, <2>8 DEF Fitted
<1> QED BY <1>2, <1>3, <1>4, <1>5 DEF RoutineStep

\* The pages fit at the start,
LEMMA FitInit == Init => Fitted
<1> SUFFICES ASSUME Init PROVE Fitted
  OBVIOUS
<1>1. Measured BY DEF Init, Measured, NoBox
<1>2. best.cost = Awful /\ ~(Awful < Awful) /\ Awful >= Awful BY DEF Init, NoBest, Awful
<1>3. Settled BY <1>2 DEF Init, Settled
<1>4. DOMAIN inserts = {} BY DEF Init
<1>5. ClassesOf(page) = {} BY DEF Init, ClassesOf, InsertsAt
<1>6. Accounted BY <1>2, <1>4, <1>5 DEF Init, Accounted
<1>7. PageFitsUnlessLeft BY DEF Init, NoneSent, PageFitsUnlessLeft, PageFits
<1> QED BY <1>1, <1>3, <1>6, <1>7 DEF Fitted

\* and every step keeps that.
LEMMA FitStep == TypeOK /\ Shape /\ Fitted /\ [Next]_vars => Fitted'
<1> SUFFICES ASSUME TypeOK, Shape, Fitted, [Next]_vars PROVE Fitted'
  OBVIOUS
<1>1. CASE BuilderStep
  BY <1>1, PlainStepsFit, InsertStepsFit, DocumentStepsFit DEF BuilderStep
<1>2. CASE RoutineStep BY <1>2, RoutineStepsFit
<1>3. CASE End \/ EjectLastPages \/ Paragraph \/ \E x \in Items : Contribute(x)
  BY <1>3, DocumentStepsFit
<1>4. CASE UNCHANGED vars
  <2>1. UNCHANGED <<pc, contribs, page, made, hasBox, frozen, goal, best, inserts, box255, boxes, sent>>
    BY <1>4 DEF vars, lists, weighs, out
  <2>2. Measured' BY <2>1 DEF Fitted, Measured
  <2>3. Settled' BY <2>1 DEF Fitted, Settled
  <2>4. Accounted' BY <2>1 DEF Fitted, Accounted
  <2>5. PageFitsUnlessLeft' BY <2>1 DEF Fitted, PageFitsUnlessLeft, PageFits
  <2> QED BY <2>2, <2>3, <2>4, <2>5 DEF Fitted
<1> QED BY <1>1, <1>2, <1>3, <1>4 DEF Next

\* A page on which no insertions were left by the one before is, with the
\* insertions gathered for it, exactly what \vsize has room for, whatever the
\* items, the sizes, the limits and the classes are: what fire_up gathers is
\* what the insertions on the page reduced \pagegoal by, and what each class
\* held in its box before (start_insertion and fire_up of src/engine.c).
THEOREM PagesFit == Spec => []PageFitsUnlessLeft
<1>1. Init => TypeOK /\ Shape /\ Fitted BY TypeInit, FitInit
<1>2. TypeOK /\ Shape /\ Fitted /\ [Next]_vars => (TypeOK /\ Shape /\ Fitted)'
  BY TypeStep, FitStep
<1>3. TypeOK /\ Shape /\ Fitted => PageFitsUnlessLeft BY DEF Fitted
<1> QED BY <1>1, <1>2, <1>3, PTL DEF Spec
===============================================================================
