----------------------------- MODULE MCExpansion -----------------------------
(* Small documents for Expansion, and what each of their pieces means.     *)
EXTENDS Expansion

\* What a piece writes, in main and in a body; what it does to the
\* conditionals; and the errors it has coming.
Piece(text, open, faults) == [text |-> text, open |-> open, faults |-> faults]
Says(text) == Piece(text, <<>>, 0)
Opens(text, truths) == Piece(text, truths, 0)

Pieces ==
  [a |-> Says(<<"a">>), m |-> Says(<<"m">>), o |-> Says(<<"o">>),
   else |-> Says(<<"else">>), or |-> Says(<<"or">>), fi |-> Says(<<"fi">>),
   iftrue |-> Opens(<<"iftrue">>, <<1>>), iffalse |-> Opens(<<"iffalse">>, <<0>>),
   unless |-> Opens(<<"unless", " ", "ifodd", "1", " ">>, <<0>>),
   case0 |-> Opens(<<"ifcase", "0", " ">>, <<10>>), case1 |-> Opens(<<"ifcase", "1", " ">>, <<11>>),
   caseUnder |-> Opens(<<"ifcase", "-", "1">>, <<19>>),
   num |-> Opens(<<"ifnum", "1", "=", "number", "1", " ", " ">>, <<1>>),
   numLoose |-> Opens(<<"ifnum", "1", "<", "0">>, <<0>>),
   oddLoose |-> Opens(<<"ifodd", "1">>, <<1>>),
   numInner |-> Opens(<<"ifnum", "iftrue", "1", "<", "0", " ">>, <<0, 1>>),
   numWhole |-> Opens(<<"ifnum", "iftrue", "1", "else", "2", "fi", "=", "1", " ">>, <<1>>),
   numBare |-> Piece(<<"ifnum", "a">>, <<1>>, 3),
   if |-> Opens(<<"if", "a", "m">>, <<0>>),
   ifHeld |-> Opens(<<"if", "noexpand", "m", "relax">>, <<1>>),
   ifx |-> Opens(<<"ifx", "m", "known">>, <<1>>), ifxNot |-> Opens(<<"ifx", "m", "p">>, <<0>>),
   ifxHeld |-> Opens(<<"expandafter", "ifx", "noexpand", "m", "m">>, <<0>>),
   ifcsname |-> Opens(<<"ifcsname", "b", "endcsname">>, <<1>>),
   ifdefined |-> Opens(<<"ifdefined", "m">>, <<1>>),
   inName |-> Says(<<"csname", "ifincsname", "a", "else", "b", "fi", "endcsname">>),
   name |-> Says(<<"csname", "a", "endcsname">>),
   after |-> Says(<<"expandafter", "a">>),
   held |-> Says(<<"noexpand", "m">>), p |-> Says(<<"p">>),
   asItIs |-> Says(<<"unexpanded", "{", "m", "}">>),
   the |-> Says(<<"the", "t">>), theNot |-> Piece(<<"the", "m">>, <<>>, 1),
   freed |-> Says(<<"expanded", "{", "noexpand", "m", "}">>),
   kept |-> Says(<<"expanded", "{", "p", "}">>),
   inside |-> Says(<<"expanded", "{", "number", "iftrue", "1", "fi", " ", "}">>),
   unknown |-> Piece(<<"never">>, <<>>, 1)]

AllTexts == [p \in DOMAIN Pieces |-> Pieces[p].text]
Registers == [t |-> <<"m">>]

Written(p) == p \in {"a", "m", "o", "numBare", "after", "p", "asItIs", "the", "theNot", "freed", "kept", "inside"}
Loose == {"numLoose", "oddLoose", "caseUnder"}

\* A second \else past a case's text stops the reading.
TwoElses(s) == \E i, j, k \in DOMAIN s : i < j /\ j < k /\ s[i] = "or" /\ s[j] = "else" /\ s[k] = "else"
\* \csname that asks where it is is read, not passed over.
AsksFirst(s) == \A i \in DOMAIN s : s[i] = "inName" => i = 1
\* What ends a number is expanded, \outer or not.
Reaches(s) == \E i, j \in DOMAIN s : i < j /\ s[i] \in Loose /\ s[j] = "o"
Sequences(S, n) == {s \in BoundedSeq(S, n) : ~Reaches(s)}
Into(where, S) == {[into |-> where, pieces |-> s] : s \in S}

Branches == {"a", "else", "or", "fi", "iftrue", "iffalse", "case1", "numLoose"}
Bodily == {"a", "m", "p", "held", "asItIs", "the", "freed", "kept", "after", "name", "inside",
           "iffalse", "else", "fi"}

AllDocuments ==
  Into("main", Sequences(Branches, 4))
    \cup Into("main", {s \in Sequences(DOMAIN Pieces, 2) : AsksFirst(s)})
    \cup Into("main", {<<p>> \o s : p \in DOMAIN Pieces \ Loose, s \in Sequences({"a", "else", "o", "fi"}, 3)})
    \cup Into("edef", Sequences(Bodily, 3) \cup Sequences({"a", "p", "after", "iffalse", "else", "fi", "o"}, 3))
AskingDocuments == Into("main", {<<"iffalse", "inName", "a", "else", "a", "fi">>})

-----------------------------------------------------------------------------
(* What a document says, read without the engine: which of its pieces are  *)
(* in the branches its conditionals choose.                                *)

\* Of an open conditional: the branch read is a chosen one; one has been;
\* its \else is past; the cases still to pass, of an \ifcase.
Branch(chosen, been, else, case, left) ==
  [chosen |-> chosen, been |-> been, else |-> else, case |-> case, left |-> left]
Live(open) == \A i \in DOMAIN open : open[i].chosen
OpenedBy(open, how) ==
  IF ~Live(open) THEN Append(open, Branch(FALSE, TRUE, TRUE, FALSE, 0))
  ELSE IF how < 10 THEN Append(open, Branch(how = 1, how = 1, FALSE, FALSE, 0))
  ELSE Append(open, Branch(how = 10, how = 10, FALSE, TRUE, how - 10))
UntilLive(open) == CHOOSE s \in {SubSeq(open, 1, n) : n \in 0..Len(open)} :
                     Live(s) /\ (s # open => ~open[Len(s) + 1].chosen)

ReadBranch(w, p) ==
  LET open == w.open  now == Last(w.open)  outer == Live(Front(w.open)) IN
  CASE open = <<>> -> [w EXCEPT !.extra = @ + 1]
    [] open # <<>> /\ p = "fi" -> [w EXCEPT !.open = Front(@)]
    [] open # <<>> /\ p = "else" /\ ~outer -> w
    [] open # <<>> /\ p = "else" /\ outer /\ now.else -> IF now.chosen THEN [w EXCEPT !.extra = @ + 1] ELSE w
    [] open # <<>> /\ p = "else" /\ outer /\ ~now.else ->
         [w EXCEPT !.open[Len(open)] = [now EXCEPT !.chosen = ~now.been, !.been = TRUE, !.else = TRUE]]
    [] open # <<>> /\ p = "or" /\ (~outer \/ ~now.chosen) /\ ~(outer /\ now.case /\ ~now.been) -> w
    [] open # <<>> /\ p = "or" /\ outer /\ now.chosen /\ (~now.case \/ now.else) -> [w EXCEPT !.extra = @ + 1]
    [] open # <<>> /\ p = "or" /\ outer /\ now.chosen /\ now.case /\ ~now.else ->
         [w EXCEPT !.open[Len(open)].chosen = FALSE]
    [] open # <<>> /\ p = "or" /\ outer /\ ~now.chosen /\ now.case /\ ~now.been ->
         [w EXCEPT !.open[Len(open)] = [now EXCEPT !.left = @ - 1, !.chosen = now.left = 1, !.been = now.left = 1]]

ReadPiece(w, i) ==
  LET p == document.pieces[i] IN
  CASE p \in {"else", "or", "fi"} -> ReadBranch(w, p)
    [] p = "o" -> [w EXCEPT !.open = UntilLive(@), !.said = Append(@, i),
                            !.extra = @ + Len(w.open) - Len(UntilLive(w.open))]
    [] p \notin {"else", "or", "fi", "o"} ->
         [open |-> FoldLeft(OpenedBy, w.open, Pieces[p].open),
          said |-> IF Live(w.open) /\ (Written(p) \/ document.into = "edef") THEN Append(w.said, i) ELSE w.said,
          extra |-> w.extra + (IF Live(w.open) THEN Pieces[p].faults ELSE 0)]

Said == FoldLeft(ReadPiece, [open |-> <<>>, said |-> <<>>, extra |-> 0],
                 [i \in 1..Len(document.pieces) |-> i])

\* What is written is what stands in the chosen branches, each piece once
\* and in order, whatever is read to find out which they are: a number that
\* is not ended, a conditional within a test, a \fi forgotten.  Only what
\* is stray is reported, and what is left open stops the reading, as a
\* second \else past a case does.
\* (src/src/engine.c:52335-52712.)
TextAsChosen ==
  (document.into = "main" /\ status # "reading") =>
    LET said == Said IN
    /\ status = "ended" => /\ out = said.said /\ said.open = <<>>
                           /\ Range(document.pieces) \cap Loose = {} => reported = said.extra
    /\ status = "fatal" => \/ said.open # <<>> \/ Last(document.pieces) = "after"
                           \/ TwoElses(document.pieces)

-----------------------------------------------------------------------------
(* What a body keeps of a piece.                                           *)

KeptOf(p, expandedOnce) ==
  CASE p = "a" -> <<"a">>
    [] p = "o" -> <<"b">>
    [] p = "after" -> <<"a">>
    [] p = "m" -> <<"b">>
    [] p = "the" -> IF expandedOnce THEN <<"b">> ELSE Registers["t"]
    [] p \in {"p", "kept"} -> <<"p">>
    [] p \in {"held", "asItIs"} -> <<"m">>
    [] p = "freed" -> <<"b">>
    [] p = "name" -> <<"fresh">>
    [] p = "inside" -> <<"1">>
    [] OTHER -> <<>>

\* A body keeps what was to be kept of it and nothing else: a protected
\* macro, what \noexpand or \unexpanded held, and what \the gives to the
\* body itself, but not what it gives to \expandafter, nor what \expanded
\* has held before; and an \outer macro in a branch that is read ends it,
\* with a space.  (src/src/engine.c:10707, 11511, 11759, 13300, 13401.)
TextAsHeld ==
  (document.into = "edef" /\ status = "ended") =>
    LET pieces == document.pieces
        said == Said.said
        once(i) == i > 1 /\ pieces[i - 1] = "after" /\ i - 1 \in Range(said)
        ends == {j \in DOMAIN said : pieces[said[j]] = "o" /\ ~once(said[j])}
        whole == FlattenSeq([j \in 1..(IF ends = {} THEN Len(said) ELSE Min(ends) - 1) |->
                               KeptOf(pieces[said[j]], once(said[j]))])
    IN
    [i \in DOMAIN stored |-> stored[i].cs] = IF ends = {} THEN whole ELSE Append(whole, " ")
=============================================================================
