------------------------------- MODULE MCWords -------------------------------
(* Instances of word setting and hyphenation for TLC. *)
EXTENDS Words

Lig0(c)   == [kind |-> "lig", char |-> c, keepLeft |-> FALSE, keepRight |-> FALSE,
              advance |-> 0]
KernStep  == [kind |-> "kern", width |-> 1]

\* A font that only kerns; one with ligatures, of the hyphen too, and a
\* character beyond the right end; one that puts a character of its own
\* between two letters; one without a hyphen.
Kerning   == [step |-> (<<"a", "b">> :> KernStep) @@ (<<"b", "-">> :> KernStep),
              bchar |-> None, leftProgram |-> FALSE, lacks |-> {},
              upper |-> ("A" :> "a")]
Joining   == [Kerning EXCEPT
                !.step = (<<"a", "b">> :> Lig0("ab")) @@ (<<"b", "c">> :> Lig0("bc"))
                         @@ (<<"c", "-">> :> Lig0("c-"))
                         @@ (<<"a", "#">> :> KernStep) @@ (<<"-", "-">> :> Lig0("--"))
                         @@ (<<"c", "#">> :> Lig0("c#")),
                !.bchar = "#"]
Inserting == [Kerning EXCEPT
                !.step = (<<"a", "b">> :> [Lig0("o") EXCEPT !.keepLeft = TRUE,
                                           !.keepRight = TRUE, !.advance = 2])
                         @@ (<<"b", "c">> :> [Lig0("y") EXCEPT !.keepLeft = TRUE,
                                              !.keepRight = TRUE, !.advance = 1])
                         @@ (<<"y", "c">> :> KernStep)]
Hyphenless == [Kerning EXCEPT !.lacks = {Hyphen}, !.step = (<<"a", "c">> :> KernStep)]

\* One with a program for the left end of a word.
Beginning == [Kerning EXCEPT
                !.step = (<<Edge, "c">> :> KernStep)
                         @@ (<<Edge, "a">> :> [Lig0("o") EXCEPT !.keepRight = TRUE])
                         @@ (<<Edge, "A">> :> [Lig0("B") EXCEPT !.keepLeft = TRUE])
                         @@ (<<"a", "b">> :> [Lig0("y") EXCEPT !.keepLeft = TRUE,
                                              !.keepRight = TRUE, !.advance = 2]),
                !.leftProgram = TRUE]

\* One that puts a character between any two letters, and begins a line's b
\* as none other.
Between == [Kerning EXCEPT
              !.step = [pair \in {"a", "b", "c"} \X {"a", "b", "c"} |->
                          [Lig0("y") EXCEPT !.keepLeft = TRUE, !.keepRight = TRUE,
                                            !.advance = 2]]
                       @@ (<<Edge, "b">> :> [Lig0("B") EXCEPT !.keepLeft = TRUE]),
              !.leftProgram = TRUE]

\* One that makes a character of its own of a letter behind another: where a
\* line begins with that letter it stands for itself.
Bending   == [Kerning EXCEPT
                !.step = (<<"b", "c">> :> [Lig0("y") EXCEPT !.keepLeft = TRUE,
                                           !.advance = 1])]

FontSet == {Kerning, Joining, Inserting, Beginning, Between, Hyphenless}

P(l, letters, values) == [language |-> l, letters |-> letters, values |-> values]
PatternSet == { P("x", <<"a", "b">>, <<0, 1, 0>>), P("x", <<"b", "c">>, <<1, 1, 0>>),
                P("x", <<".", "a", "b">>, <<0, 0, 2, 1>>), P("y", <<"b">>, <<1, 0>>) }
BendingFont == {Bending}

ExceptionSet == { [language |-> "x", letters |-> <<"a", "b", "c">>, breaks |-> {2}] }

Documents == { <<Space, "a", "b", "c">>, <<Space, "A", "b", "c", "a", "b">>,
               <<"a", Space, "a", "b", "-", "b", "c", Space, "b", "c", "a">>,
               <<Space, "(", "a", NoBoundary, "b", "c", ")">>,
               <<Space, "y", "b", "a", "b", "x", Space, "c", "b", "a", "c">>,
               <<MathOn, Space, "a", "b", "c", MathOff, Space, "b", "c", "b">>,
               <<Space, "c", "c", "b", "c", "-", "-", Space, "a", "b", "b", "c">> }
=============================================================================
