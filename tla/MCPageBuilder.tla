---------------------------- MODULE MCPageBuilder ----------------------------
(* Instances of the page builder for TLC. *)
EXTENDS PageBuilder

Line    == Box(0, 1, 0)
Between == Glue(0, 0, FALSE, 0)
Feet    == {"foot"}

\* Lines, the glue between them, forced breaks, marks and insertions of two
\* lines that may be split.
Prose ==
    { Box(0, 1, 0), Glue(1, 1, FALSE, 0), Penalty(-InfinitePenalty), Mark(0),
      Insert("foot", <<Line, Between, Line>>) }
=============================================================================
