------------------------------ MODULE MCMacros -------------------------------
(* Definitions and calls, small.  A document defines \m and calls it once; *)
(* what the call should come to is said of the text as a whole.            *)
EXTENDS Macros

-----------------------------------------------------------------------------
(* Documents. *)

\* Parameter texts, and how each is written; the last are written wrongly,
\* and are read as what stands beside them.
Texts ==
  {[as |-> <<>>, written |-> <<>>],
   [as |-> <<"#1">>, written |-> <<"#", "1">>],
   [as |-> <<"#1", "#2">>, written |-> <<"#", "1", "#", "2">>],
   [as |-> <<"#1", ";">>, written |-> <<"#", "1", ";">>],
   [as |-> <<";", "#1">>, written |-> <<";", "#", "1">>],
   [as |-> <<"#1", ";", "#2">>, written |-> <<"#", "1", ";", "#", "2">>],
   [as |-> <<"#1", "a", ";">>, written |-> <<"#", "1", "a", ";">>],
   [as |-> <<"#1", "a", "a", ";", "#2">>, written |-> <<"#", "1", "a", "a", ";", "#", "2">>],
   [as |-> <<"#1", "{">>, written |-> <<"#", "1", "#">>],
   [as |-> <<"#1", "par">>, written |-> <<"#", "1", "par">>],
   [as |-> <<"#1", "par", "#2">>, written |-> <<"#", "1", "par", "#", "2">>],
   [as |-> <<"#1", "a", "par", ";">>, written |-> <<"#", "1", "a", "par", ";">>],
   [as |-> <<"a", "#1", ";", "#2">>, written |-> <<"a", "#", "1", ";", "#", "2">>],
   [as |-> <<"x", "#1", "x">>, written |-> <<"x", "#", "1", "x">>]}
Miswritten ==
  {[as |-> <<"#1", "2">>, written |-> <<"#", "2">>],
   [as |-> <<"#1", "#2">>, written |-> <<"#", "#", "2">>],
   [as |-> <<"#1", "#2">>, written |-> <<"#", "1", "#", "2", "#", "3">>]}

CountOf(text) == Len(SelectSeq(text, IsParameter))
\* Every argument is asked for twice.
BodyOf(count) ==
  <<"b">> \o SubSeq(ParameterNames, 1, count) \o <<"b">> \o SubSeq(ParameterNames, 1, count)
Written(body) ==
  FlattenSeq([i \in DOMAIN body |->
    IF IsParameter(body[i]) THEN <<"#", Digit[NumberOf(body[i])]>> ELSE <<body[i]>>])

Definition(text, body) ==
  <<"def", "m">> \o text.written \o <<"{">> \o Written(body) \o <<"}">>

Balanced(tokens) ==
  /\ \A i \in DOMAIN tokens : DepthAfter(0, SubSeq(tokens, 1, i)) >= 0
  /\ DepthAfter(0, tokens) = 0
\* What a list may hold of it: no brace without its fellow, and nothing
\* that became \outer since.
InList(tokens) == Balanced(tokens) /\ "o" \notin Range(tokens)

Call(d, frames) ==
  [long |-> d.long, text |-> d.text, body |-> d.body, before |-> d.before, call |-> d.call,
   bounded |-> Boundary \in Range(frames),
   frames |-> SelectSeq(frames, LAMBDA f : f.kind # "list" \/ f.tokens # <<>>)]

\* All of it in a file; the definition and the first part of what is called
\* upon in a list; or all of it above the boundary of an entry.
Filed(d) == {Call(d, <<File(d.written \o <<"m">> \o d.call)>>)}
Split(d) ==
  {Call(d, <<List(d.written \o <<"m">> \o SubSeq(d.call, 1, n)), File(SubSeq(d.call, n + 1, Len(d.call)))>>)
     : n \in {k \in 0..Len(d.call) : InList(SubSeq(d.call, 1, k))}}
Entry(d) ==
  IF InList(d.call) THEN {Call(d, <<List(d.written \o <<"m">>), List(d.call), Boundary, File(<<"z">>)>>)} ELSE {}

Defined(text, call, may) ==
  LET body == BodyOf(CountOf(text.as))
      brace == IF text.as # <<>> /\ Last(text.as) = "{" THEN <<"{">> ELSE <<>>
  IN
  [long |-> may, text |-> text.as, body |-> body \o brace, before |-> <<>>, call |-> call,
   written |-> Definition(text, Written(body))]

Tuples(tokens, most) == UNION {[1..n -> tokens] : n \in 0..most}
Called == Tuples({"a", ";", "{", "}", "par"}, 3) \cup Tuples({"a", ";", "{", "}", "par", " ", "o", "x!"}, 2)
Deeper == [1..5 -> {"a", ";", "{", "}"}] \cup {<<"a", "a">> \o t : t \in [1..3 -> {"a", ";", "{", "}"}]}

Turning ==
  {<<"{", "a", "par", "}">>, <<"{", "a", "x!", "}", ";">>, <<"a", "x!", "x", ";">>, <<"{", "{", "a", "}", "o", "}">>,
   <<"{", "{", "a", "}", "}", ";">>, <<"{", "{", "x!", "}", "}", ";">>, <<"a", "a", "x!", ";", "x!">>}

\* Definitions that are not written as they should be, and what is made of
\* them.
Odd(text, written, body, before) ==
  [long |-> TRUE, text |-> text, body |-> body, before |-> before, call |-> <<"a", "2", "{", "x", "}">>,
   written |-> <<"def", "m">> \o written]
Odds ==
  {Odd(<<"#1">>, <<"#", "1", "{", "b", "#", "2", "}">>, <<"b", "#", "2">>, <<>>),
   Odd(<<"#1">>, <<"#", "1", "{", "#", "#", "#", "1", "{", "b", "}", "}">>, <<"#", "#1", "{", "b", "}">>, <<>>),
   Odd(<<"#1">>, <<"#", "1", "{", "b", "o", "b", "}">>, <<"b">>, <<"o", "b", "}">>),
   Odd(<<"#1">>, <<"#", "1", "}">>, <<>>, <<>>),
   Odd(<<"#1", "{">>, <<"#", "1", "#", "{", "#", "1", "b", "}">>, <<"#1", "b", "{">>, <<>>),
   Odd(<<>>, <<"{", "}">>, <<>>, <<>>),
   [Odd(<<>>, <<"{", "a", "}">>, <<>>, <<>>) EXCEPT !.written = <<"def", " ", "a", "{", "a", "}">>]}

MCDocuments ==
  UNION {Filed(d) \cup Entry(d) :
    d \in {Defined(text, call, may) : text \in Texts, call \in Called, may \in BOOLEAN}}
  \cup UNION {Split(d) : d \in {Defined(text, call, FALSE) : text \in {t \in Texts : t.as \in {<<"#1", ";">>, <<"#1", "a", "a", ";", "#2">>}}, call \in Deeper}}
  \cup UNION {Split(d) \cup Entry(d) : d \in {Defined(text, call, may) : text \in Texts, call \in Turning, may \in BOOLEAN}}
  \cup UNION {Filed(d) : d \in {Defined(text, call, FALSE) : text \in Miswritten, call \in {<<"a", "2", "a">>}} \cup Odds}

-----------------------------------------------------------------------------
(* What a call comes to.                                                   *)

Follows(s, delimiter, j) ==
  /\ j >= Len(delimiter)
  /\ \A i \in DOMAIN delimiter : Unmarked(s[j - Len(delimiter) + i]) = Unmarked(delimiter[i])
Within(s, j) == DepthAfter(0, SubSeq(s, 1, j))
From(s, k) == SubSeq(s, k, Len(s))

Gave(argument, rest) == [argument |-> <<argument>>, rest |-> rest, status |-> "reading"]
Left(rest) == [argument |-> <<>>, rest |-> rest, status |-> "ended"]
Nothing(bounded) == [argument |-> <<>>, rest |-> <<>>, status |-> IF bounded THEN "ended" ELSE "fatal"]
Stops(s, j) == Left(From(s, j))
\* A brace that closes nothing has a \par put in front, and is read on so.
Paragraph(s, j) == <<"par">> \o From(s, j)
\* The shortest text with its braces in pairs before the delimiter.
RECURSIVE Delimited(_, _, _, _)
Delimited(s, delimiter, may, bounded) ==
  LET ends == {j \in DOMAIN s : Within(s, j - 1) = 0 /\ Follows(s, delimiter, j)}
      stops == {j \in DOMAIN s :
                  \/ s[j] = "o" \/ Within(s, j) < 0
                  \/ /\ s[j] = "par" /\ ~may
                     /\ ~\E n \in DOMAIN delimiter :
                           Within(s, j - 1) = 0 /\ Follows(s, SubSeq(delimiter, 1, n), j)}
      first == Min(ends \cup stops)
      all == SubSeq(s, 1, first - Len(delimiter))
      inner == SubSeq(all, 2, Len(all) - 1)
  IN  IF ends \cup stops = {} THEN Nothing(bounded)
      ELSE IF first \in ends
      THEN Gave(IF all = <<"{">> \o inner \o <<"}">> /\ Balanced(inner) THEN inner ELSE all,
                From(s, first + 1))
      ELSE IF s[first] = "}" THEN Delimited(Paragraph(s, first), delimiter, FALSE, bounded)
      ELSE Stops(s, first)

\* The next token that is no space, or the group that begins with it.
Undelimited(spaced, may, bounded) ==
  LET s == SelectInSeq(spaced, LAMBDA t : t # " ")
      here == From(spaced, s)
      ends == {j \in DOMAIN here : Within(here, j) = 0}
      stops == {j \in DOMAIN here : here[j] = "o" \/ (here[j] = "par" /\ ~may)}
      first == Min(ends \cup stops)
  IN  IF s = 0 THEN Nothing(bounded)
      ELSE IF here[1] = "}" THEN Left(Paragraph(here, 1))
      ELSE IF ends \cup stops = {} THEN Nothing(FALSE)
      ELSE IF first \in stops THEN Stops(here, first)
      ELSE Gave(IF first = 1 THEN <<here[1]>> ELSE SubSeq(here, 2, first - 1), From(here, first + 1))

\* The parameters with what stands behind each of them.
Marks(text) == {i \in DOMAIN text : IsParameter(text[i])}
Before(text) == SubSeq(text, 1, Min(Marks(text) \cup {Len(text) + 1}) - 1)
Behind(text, n) ==
  LET at == CHOOSE i \in DOMAIN text : text[i] = ParameterNames[n]
  IN  SubSeq(text, at + 1, Min({i \in Marks(text) : i > at} \cup {Len(text) + 1}) - 1)

RECURSIVE Gathered(_, _, _, _)
Gathered(d, n, got, s) ==
  IF n > CountOf(d.text)
  THEN [rest |-> FlattenSeq([i \in DOMAIN d.body |->
          IF IsParameter(d.body[i]) THEN got[NumberOf(d.body[i])] ELSE <<d.body[i]>>]) \o s,
        status |-> "ended"]
  ELSE LET next == IF Behind(d.text, n) = <<>> THEN Undelimited(s, d.long, d.bounded)
                   ELSE Delimited(s, Behind(d.text, n), d.long, d.bounded)
       IN  IF next.argument = <<>> THEN next ELSE Gathered(d, n + 1, got \o next.argument, next.rest)

\* What stands before the first parameter is to be met token by token.
Outcome(d) ==
  LET want == Before(d.text)
      wrong == {i \in DOMAIN want : i > Len(d.call) \/ Unmarked(d.call[i]) # Unmarked(want[i])}
      at == Min(wrong)
  IN  IF wrong = {} THEN Gathered(d, 1, <<>>, From(d.call, Len(want) + 1))
      ELSE IF at > Len(d.call) THEN Left(<<>>)
      ELSE IF d.call[at] = "o" THEN Left(<<"par">> \o From(d.call, at))
      ELSE Left(From(d.call, at + 1))

-----------------------------------------------------------------------------
\* What a call comes to is what the shortest balanced arguments say, and
\* where there are none the text goes on at the token that showed it.  (This
\* is what the main loop gets after instantiate_macro.)
CallsAsWritten ==
  status # "reading" =>
    LET meant == Outcome(document) IN
    /\ status = meant.status
    /\ status = "ended" => out = document.before \o [i \in DOMAIN meant.rest |-> Unmarked(meant.rest[i])]

\* The room the definition's counts ask for is what the text takes.
RoomIsRight ==
  Reads("match") /\ scan.want = <<>> /\ scan.n > macro.count => Room = Len(Substituted)
=============================================================================
