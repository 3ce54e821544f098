--------------------------- MODULE MCLineBreaking ---------------------------
(* Instances of the line breaker for TLC. *)
EXTENDS LineBreaking

Plain == [hsize |-> 10, hangIndent |-> 0, hangAfter |-> 1, parshape |-> <<>>,
          looseness |-> 0, prevGraf |-> 0, pretolerance |-> 100,
          tolerance |-> 1000, emergency |-> 0,
          leftskip |-> [width |-> 0, stretch |-> 0, fil |-> 0, shrink |-> 0],
          rightskip |-> [width |-> 0, stretch |-> 0, fil |-> 0, shrink |-> 0],
          zero |-> [width |-> 0, stretch |-> 0, fil |-> 0, shrink |-> 0],
          parfillskip |-> Glue(0, 1, TRUE, 0),
          linePenalty |-> 10, adjDemerits |-> 10000,
          doubleHyphenDemerits |-> 10000, finalHyphenDemerits |-> 5000,
          hyphenPenalty |-> 50, exHyphenPenalty |-> 50, hyphenWidth |-> 1,
          interlinePenalty |-> 0, clubPenalty |-> 150, widowPenalty |-> 150,
          brokenPenalty |-> 100]

Shapes ==
    { Plain,
      [Plain EXCEPT !.hangIndent = 4, !.hangAfter = 1, !.pretolerance = 10000],
      [Plain EXCEPT !.hangIndent = -3, !.hangAfter = -2, !.prevGraf = 1],
      [Plain EXCEPT !.parshape = << <<0, 10>>, <<2, 7>>, <<1, 12>> >>,
                    !.pretolerance = 10000],
      [Plain EXCEPT !.looseness = 1],
      [Plain EXCEPT !.looseness = -1, !.emergency = 3],
      [Plain EXCEPT !.pretolerance = -1, !.emergency = 4, !.tolerance = 200],
      [Plain EXCEPT !.rightskip.stretch = 2, !.leftskip.width = 1] }

Space == Glue(1, 1, FALSE, 1)

Gaps == { <<Space>>, <<Disc(<<1>>, <<>>, 0)>>, <<Disc(<<1>>, <<1>>, 1), Box(2)>>,
          <<Penalty(50), Space>>, <<Space, Penalty(Eject)>>,
          <<Math(FALSE), Space, Math(TRUE), Space>>,
          <<Kern(1, TRUE), Space>>, <<Migrant(1), Glue(1, 3, FALSE, 0)>> }

Words == { Box(3), Word(5, 2) }

\* Words between which a line may end anywhere, and so on a line of any number.
Elastic == Glue(1, 3, FALSE, 1)
Loosely == { FlattenSeq([i \in 1 .. 6 |-> <<Box(w[i]), Elastic>>]) :
                w \in { v \in [1 .. 6 -> {2, 4}] : v[3] = 2 /\ v[6] = 4 } }

Texts == Loosely \cup
    { <<w1>> \o g1 \o <<w2>> \o g2 \o <<w3>> \o <<Space>> \o <<w4>> :
        w1 \in Words, w2 \in Words, w3 \in {Box(4)}, w4 \in {Box(3)},
        g1 \in Gaps, g2 \in Gaps }
=============================================================================
