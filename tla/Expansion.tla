------------------------------ MODULE Expansion ------------------------------
(***************************************************************************)
(* Reading with expansion (src/engine.c): the expander, the conditionals   *)
(* and the text they skip, the scanners of numbers and names that read     *)
(* through it, and what holds a token back from it.                        *)
(*                                                                         *)
(* The C calls one another: a number is scanned by reading tokens, which   *)
(* expands a conditional, whose test scans a number.  Here the calls under *)
(* way are a stack, the last of them the one that runs; the input stack of *)
(* the code is the one sequence it stands for.                             *)
(***************************************************************************)
EXTENDS Integers, Sequences, SequencesExt

CONSTANTS Documents,   \* what may be read: [into, pieces]
          Texts,       \* the pieces, and the names each is written with
          Lists        \* what the token registers hold

VARIABLES document,
          input,       \* the tokens still to read
          conds,       \* the conditionals open
          calls,       \* the calls under way
          negate,      \* \unless was read
          out,         \* what the main loop got
          stored,      \* the body of \z, once defined
          made,        \* \csname made the name \fresh
          reported,    \* errors
          status

vars == <<document, input, conds, calls, negate, out, stored, made, reported, status>>

-----------------------------------------------------------------------------
(* Tokens: a name, the piece of the document it is from, and a mark.       *)
(* "held" is \noexpand's, "once" that of what was put in to be taken as it *)
(* stands.                                                                 *)

Digits == {"0", "1", "2"}
DigitOf(cs) == CASE cs = "0" -> 0 [] cs = "1" -> 1 [] cs = "2" -> 2
Relations == {"<", "="}
Characters == {"a", "b", "-", " ", "{", "}"} \cup Digits \cup Relations

T(cs, at) == [cs |-> cs, at |-> at, mark |-> "none"]
Texted(names, at) == [i \in 1..Len(names) |-> T(names[i], at)]
Plain(t) == [t EXCEPT !.mark = "none"]
IsName(t) == t.cs \notin Characters

Bodies == [m |-> <<"b">>, p |-> <<"b">>, o |-> <<"b">>, known |-> <<"b">>]
Protected == {"p"}
Outer == {"o"}
Macros == DOMAIN Bodies \cup {"z"}
BodyOf(t) == IF t.cs = "z" THEN stored ELSE Texted(Bodies[t.cs], t.at)

StartsConditional(cs) ==
  cs \in {"iftrue", "iffalse", "ifnum", "ifodd", "ifcase", "if", "ifx", "ifcsname", "ifdefined"}

Conditional(cs) == StartsConditional(cs) \/ cs = "ifincsname"
EndsBranch(cs) == cs \in {"else", "or", "fi"}

Undefined(cs) == cs = "never" \/ (cs = "fresh" /\ ~made)
Expandable(cs) ==
  \/ Conditional(cs) \/ EndsBranch(cs) \/ cs \in Macros \/ Undefined(cs)
  \/ cs \in {"expandafter", "noexpand", "unless", "csname", "expanded", "unexpanded", "the", "number"}

-----------------------------------------------------------------------------
(* Calls.                                                                  *)

Top == Last(calls)
Calls(do) == calls # <<>> /\ Top.do = do
Asks == Top.do \in {"main", "edef", "expanded", "name", "first", "digits", "relation", "operand", "subject", "brace"}

\* What an \edef or \expanded gathers keeps its protected macros; a number
\* or a name being scanned inside it does not.
Inhibited ==
  LET said == SelectSeq(calls, LAMBDA c : c.do \notin {"relation", "operand", "subject", "ifnum", "ifodd",
                                                      "ifcase", "ifcsname", "csname", "number", "after",
                                                      "once", "unless"})
  IN  Last(said).do \in {"edef", "expanded"}

\* The text an \edef gathers asks for a \the itself: nothing is between.
Gathers(under) == Last(under).do = "edef"
InName == \E i \in DOMAIN calls : calls[i].do = "name"

\* Mutant of Skip: what the test itself opened is taken for closed.
SkipFlat(target, toElse, open) ==
  [do |-> "skip", target |-> target, toElse |-> toElse, depth |-> 0, nested |-> 0]
Skip(target, toElse, open) ==
  [do |-> "skip", target |-> target, toElse |-> toElse, depth |-> 0, nested |-> open - target]
CaseSkip(target, left, open) ==
  [do |-> "case", target |-> target, left |-> left, depth |-> 0, nested |-> open - target]
RestSkip(target, open) ==
  [do |-> "rest", target |-> target, depth |-> 0, nested |-> open - target]
Integer(sign) == [do |-> "first", sign |-> sign]

-----------------------------------------------------------------------------
Init ==
  /\ document \in Documents
  /\ input = LET body == FlattenSeq([i \in 1..Len(document.pieces) |-> Texted(Texts[document.pieces[i]], i)])
             IN  IF document.into = "main" THEN body
                 ELSE Texted(<<"edef", "z", "{">>, 0) \o body \o Texted(<<"}", "z">>, 0)
  /\ conds = <<>> /\ calls = <<[do |-> "main"]>> /\ negate = FALSE
  /\ out = <<>> /\ stored = <<>> /\ made = FALSE /\ reported = 0 /\ status = "reading"

Fatal == /\ status' = "fatal"
         /\ UNCHANGED <<document, input, conds, calls, negate, out, stored, made, reported>>

Runs == status = "reading"
Aside == UNCHANGED <<document, status>>

-----------------------------------------------------------------------------
(* Conditionals.                                                           *)

Opened(case) == [evaluated |-> FALSE, else |-> FALSE, case |-> case, negate |-> negate]

\* The test came out: its conditional is `at', which need not be the last.
Judge(open, under, at, truth) ==
  /\ conds' = [open EXCEPT ![at].evaluated = TRUE]
  /\ calls' = IF truth # open[at].negate THEN under ELSE Append(under, Skip(at, TRUE, Len(open)))

\* \iftrue and its like are settled as they are read; the others scan.
Open(t, rest, under) ==
  LET at == Len(conds) + 1
      open == Append(conds, Opened(t.cs = "ifcase"))
  IN
  /\ input' = rest /\ negate' = FALSE
  /\ \/ /\ t.cs \in {"iftrue", "iffalse", "ifincsname"}
        /\ Judge(open, under, at, t.cs = "iftrue" \/ (t.cs = "ifincsname" /\ InName))
     \/ /\ t.cs \in {"ifnum", "ifodd", "ifcase"}
        /\ conds' = open
        /\ calls' = under \o << [do |-> t.cs, at |-> at], Integer(1) >>
     \/ /\ t.cs = "if"
        /\ conds' = open
        /\ calls' = Append(under, [do |-> "operand", at |-> at, left |-> <<>>])
     \/ /\ t.cs = "ifcsname"
        /\ conds' = open
        /\ calls' = under \o << [do |-> "ifcsname", at |-> at], [do |-> "name", name |-> <<>>] >>
  /\ UNCHANGED <<out, stored, made, reported>>

\* A token held back is itself where its meaning cannot be expanded, and
\* like no other where it can; macros are the same where their bodies and
\* their flags are, and all that is undefined is the same.
SameMeaning(l, r) ==
  /\ \A t \in {l, r} : t.mark = "held" => ~Expandable(t.cs)
  /\ \/ l.cs = r.cs
     \/ {l.cs, r.cs} \subseteq {"relax", "fresh"} /\ made
     \/ Undefined(l.cs) /\ Undefined(r.cs)
     \/ /\ {l.cs, r.cs} \subseteq DOMAIN Bodies
        /\ Bodies[l.cs] = Bodies[r.cs]
        /\ (l.cs \in Protected <=> r.cs \in Protected) /\ (l.cs \in Outer <=> r.cs \in Outer)

\* \ifx and \ifdefined read their tokens as they stand.
OpenPlainly(t, rest, under) ==
  LET at == Len(conds) + 1
      open == Append(conds, Opened(FALSE))
      taken == IF t.cs = "ifx" THEN 2 ELSE 1
  IN
  /\ t.cs \in {"ifx", "ifdefined"} /\ Len(rest) >= taken
  /\ input' = SubSeq(rest, taken + 1, Len(rest)) /\ negate' = FALSE
  /\ Judge(open, under, at, IF t.cs = "ifx" THEN SameMeaning(rest[1], rest[2])
                            ELSE IsName(rest[1]) /\ ~Undefined(rest[1].cs))
  /\ UNCHANGED <<out, stored, made, reported>>

\* \fi and \else met while a test is scanned end what is being scanned.
TestPending == conds # <<>> /\ ~Last(conds).evaluated

\* \else, \or and \fi: in a test, a \relax goes in front.
EndBranch(t, rest, under) ==
  /\ \/ /\ TestPending
        /\ input' = <<T("relax", t.at), t>> \o rest
        /\ calls' = under /\ UNCHANGED <<conds, reported>>
     \/ /\ ~TestPending /\ input' = rest
        /\ \/ /\ \/ conds = <<>>
                 \/ t.cs # "fi" /\ conds # <<>> /\ Last(conds).else
                 \/ t.cs = "or" /\ conds # <<>> /\ ~Last(conds).case
              /\ reported' = reported + 1 /\ calls' = under /\ UNCHANGED conds
           \/ /\ t.cs = "fi" /\ conds # <<>>
              /\ conds' = Front(conds) /\ calls' = under /\ UNCHANGED reported
           \/ /\ t.cs = "else" /\ conds # <<>> /\ ~Last(conds).else
              /\ conds' = [conds EXCEPT ![Len(conds)].else = TRUE]
              /\ calls' = Append(under, Skip(Len(conds), FALSE, Len(conds)))
              /\ UNCHANGED reported
           \/ /\ t.cs = "or" /\ conds # <<>> /\ Last(conds).case /\ ~Last(conds).else
              /\ calls' = Append(under, RestSkip(Len(conds), Len(conds)))
              /\ UNCHANGED <<conds, reported>>
  /\ UNCHANGED <<negate, out, stored, made>>

-----------------------------------------------------------------------------
(* Text passed over: nothing is expanded, and only names are looked at.  A *)
(* conditional opened by the test itself may still be open, and its \fi    *)
(* comes first.                                                            *)

Skipping == Calls("skip") \/ Calls("case") \/ Calls("rest")
Skipped(t) == IF t.mark = "held" THEN " " ELSE t.cs

PassOver ==
  /\ Runs /\ Skipping /\ input # <<>>
  /\ LET cs == Skipped(Head(input)) IN
     /\ cs \notin Outer \cup {"else", "or", "fi"}
     /\ calls' = IF StartsConditional(cs) THEN [calls EXCEPT ![Len(calls)].depth = @ + 1] ELSE calls
  /\ input' = Tail(input)
  /\ UNCHANGED <<conds, negate, out, stored, made, reported>> /\ Aside

\* An \outer macro: the \fi was forgotten.  One is put in front.
Forgotten ==
  /\ Runs /\ Skipping /\ input # <<>> /\ Skipped(Head(input)) \in Outer
  /\ input' = <<T("fi", Head(input).at)>> \o input /\ reported' = reported + 1
  /\ UNCHANGED <<conds, calls, negate, out, stored, made>> /\ Aside

PassFi ==
  /\ Runs /\ Skipping /\ input # <<>> /\ Skipped(Head(input)) = "fi"
  /\ \/ /\ Top.depth > 0
        /\ calls' = [calls EXCEPT ![Len(calls)].depth = @ - 1] /\ UNCHANGED conds
     \/ /\ Top.depth = 0 /\ Top.nested > 0
        /\ calls' = [calls EXCEPT ![Len(calls)].nested = @ - 1] /\ conds' = Front(conds)
     \/ /\ Top.depth = 0 /\ Top.nested = 0
        /\ calls' = Front(calls) /\ conds' = SubSeq(conds, 1, Top.target - 1)
  /\ input' = Tail(input)
  /\ UNCHANGED <<negate, out, stored, made, reported>> /\ Aside

\* The \else of the conditional itself, at its level.
PassElse ==
  /\ Runs /\ Skipping /\ input # <<>> /\ Skipped(Head(input)) = "else"
  /\ \/ /\ Calls("skip") /\ Top.depth = 0 /\ Top.nested > 0
        /\ conds' = [conds EXCEPT ![Len(conds)].else = TRUE] /\ UNCHANGED calls
     \/ /\ Calls("skip") /\ Top.depth = 0 /\ Top.nested = 0 /\ Top.toElse
        /\ conds' = [conds EXCEPT ![Top.target].else = TRUE] /\ calls' = Front(calls)
     \/ /\ Calls("case") /\ Top.depth = 0 /\ Top.nested = 0
        /\ conds' = [conds EXCEPT ![Top.target].else = TRUE] /\ calls' = Front(calls)
     \/ /\ Calls("rest") /\ Top.depth = 0 /\ Top.nested = 0 /\ ~conds[Top.target].else
        /\ conds' = [conds EXCEPT ![Top.target].else = TRUE] /\ UNCHANGED calls
     \/ /\ \/ Top.depth > 0
           \/ Top.nested > 0 /\ ~Calls("skip")
           \/ Calls("skip") /\ Top.nested = 0 /\ ~Top.toElse
        /\ UNCHANGED <<conds, calls>>
  /\ input' = Tail(input)
  /\ UNCHANGED <<negate, out, stored, made, reported>> /\ Aside

\* The rest of an \ifcase has one \else.
SecondElse ==
  /\ Runs /\ Calls("rest") /\ input # <<>> /\ Skipped(Head(input)) = "else"
  /\ Top.depth = 0 /\ Top.nested = 0 /\ conds[Top.target].else
  /\ Fatal

PassOr ==
  /\ Runs /\ Skipping /\ input # <<>> /\ Skipped(Head(input)) = "or"
  /\ calls' = IF Calls("case") /\ Top.depth = 0 /\ Top.nested = 0 /\ Top.left > 0
              THEN IF Top.left = 1 THEN Front(calls) ELSE [calls EXCEPT ![Len(calls)].left = @ - 1]
              ELSE calls
  /\ input' = Tail(input)
  /\ UNCHANGED <<conds, negate, out, stored, made, reported>> /\ Aside

-----------------------------------------------------------------------------
(* Expanding a token: what stands for it goes in front of the rest.        *)

Marked(names, at, mark) == [i \in 1..Len(names) |-> [T(names[i], at) EXCEPT !.mark = mark]]

Needs(t) == CASE t.cs \in {"ifx", "expandafter"} -> 2
              [] t.cs \in {"ifdefined", "unless", "noexpand"} -> 1
              [] OTHER -> 0

\* \unless looks past the spaces, and takes a conditional other than \ifcase.
PastSpaces(rest) == SelectInSeq(rest, LAMBDA t : t.cs # " " \/ t.mark # "none")
Negatable(rest) ==
  LET at == PastSpaces(rest) IN
  at # 0 /\ rest[at].mark # "held" /\ StartsConditional(rest[at].cs) /\ rest[at].cs # "ifcase"

Expand(t, rest, under) ==
  \/ Conditional(t.cs) /\ (Open(t, rest, under) \/ OpenPlainly(t, rest, under))
  \/ EndsBranch(t.cs) /\ EndBranch(t, rest, under)
  \/ /\ Undefined(t.cs)
     /\ input' = rest /\ reported' = reported + 1 /\ calls' = under
     /\ UNCHANGED <<conds, negate, out, stored, made>>
  \/ /\ t.cs \in Macros
     /\ input' = BodyOf(t) \o rest /\ calls' = under
     /\ UNCHANGED <<conds, negate, out, stored, made, reported>>
  \/ /\ t.cs = "unless" /\ Negatable(rest)
     /\ negate' = TRUE /\ input' = SubSeq(rest, PastSpaces(rest) + 1, Len(rest))
     /\ calls' = Append(under, [do |-> "once", token |-> rest[PastSpaces(rest)]])
     /\ UNCHANGED <<conds, out, stored, made, reported>>
  \/ /\ t.cs = "csname"
     /\ input' = rest
     /\ calls' = under \o << [do |-> "csname", at |-> t.at], [do |-> "name", name |-> <<>>] >>
     /\ UNCHANGED <<conds, negate, out, stored, made, reported>>
  \/ /\ t.cs \in {"expanded", "unexpanded"}
     /\ input' = rest /\ calls' = Append(under, [do |-> "brace", of |-> t.cs])
     /\ UNCHANGED <<conds, negate, out, stored, made, reported>>
  \/ /\ t.cs = "the"
     /\ input' = rest
     /\ calls' = Append(under, [do |-> "subject", mark |-> IF Gathers(under) THEN "once" ELSE "none"])
     /\ UNCHANGED <<conds, negate, out, stored, made, reported>>
  \/ /\ t.cs = "number"
     /\ input' = rest
     /\ calls' = under \o << [do |-> "number", at |-> t.at], Integer(1) >>
     /\ UNCHANGED <<conds, negate, out, stored, made, reported>>
  \/ /\ t.cs = "expandafter"
     /\ input' = SubSeq(rest, 3, Len(rest))
     /\ calls' = under \o << [do |-> "after", held |-> rest[1]], [do |-> "once", token |-> rest[2]] >>
     /\ UNCHANGED <<conds, negate, out, stored, made, reported>>

\* Too little is left to read.
Starved(t, rest) == \/ Len(rest) < Needs(t)
                    \/ t.cs = "unless" /\ ~Negatable(rest)
ExpandOrStop(t, rest, under) ==
  \/ ~Starved(t, rest) /\ Expand(t, rest, under) /\ Aside
  \/ Starved(t, rest) /\ Fatal

\* One token expanded once: what cannot be expanded goes back as it is, and
\* \noexpand leaves its mark on what follows it.
ExpandOnce ==
  /\ Runs /\ Calls("once")
  /\ \E t \in {IF Top.token.mark = "once" THEN Plain(Top.token) ELSE Top.token} :
       \/ /\ \/ t.mark = "held" \/ ~Expandable(t.cs)
             \/ t.cs \in Protected /\ Inhibited
          /\ input' = <<t>> \o input /\ calls' = Front(calls)
          /\ UNCHANGED <<conds, negate, out, stored, made, reported>> /\ Aside
       \/ /\ t.mark # "held" /\ t.cs = "noexpand" /\ input # <<>>
          /\ input' = <<IF IsName(Head(input)) /\ Head(input).mark = "none"
                        THEN [Head(input) EXCEPT !.mark = "held"] ELSE Head(input)>> \o Tail(input)
          /\ calls' = Front(calls)
          /\ UNCHANGED <<conds, negate, out, stored, made, reported>> /\ Aside
       \/ /\ t.mark # "held" /\ Expandable(t.cs) /\ (t.cs = "noexpand" => input = <<>>)
          /\ ~(t.cs \in Protected /\ Inhibited)
          /\ ExpandOrStop(t, input, Front(calls))

\* \expandafter puts back what it held; a name \noexpand had held is spent.
PutBack ==
  /\ Runs /\ Calls("after")
  /\ input' = <<IF Top.held.mark = "held" THEN Plain(Top.held) ELSE Top.held>> \o input
  /\ calls' = Front(calls)
  /\ UNCHANGED <<conds, negate, out, stored, made, reported>> /\ Aside

-----------------------------------------------------------------------------
(* What each of those that asked for a token does with it.  `how' says     *)
(* what the reader said of it: "plain", "held", or "again" for a name that *)
(* is to be read once more where it is obeyed.                             *)

Settled == Front(calls)
Again(t, rest) == /\ input' = <<t>> \o rest
                  /\ UNCHANGED <<conds, calls, negate, out, stored, made, reported>>
ReadsAgain(t, how) == how = "again" /\ IsName(t) /\ ~Inhibited

ToMain(t, how, rest) ==
  /\ Calls("main")
  /\ \/ how = "again" /\ IsName(t) /\ Again(t, rest)
     \/ /\ ~IsName(t) /\ t.cs # "}"
        /\ input' = rest /\ out' = IF t.cs = " " THEN out ELSE Append(out, t.at)
        /\ UNCHANGED <<conds, calls, negate, stored, made, reported>>
     \/ /\ t.cs = "}"
        /\ input' = rest /\ reported' = reported + 1
        /\ UNCHANGED <<conds, calls, negate, out, stored, made>>
     \/ /\ IsName(t) /\ how # "again" /\ (how = "held" \/ t.cs \notin {"edef", "endcsname"})
        /\ input' = rest
        /\ UNCHANGED <<conds, calls, negate, out, stored, made, reported>>
     \/ /\ how = "plain" /\ t.cs = "endcsname"
        /\ input' = rest /\ reported' = reported + 1
        /\ UNCHANGED <<conds, calls, negate, out, stored, made>>
     \/ /\ how = "plain" /\ t.cs = "edef"
        /\ input' = SubSeq(rest, 3, Len(rest))
        /\ calls' = Append(calls, [do |-> "edef", depth |-> 1, text |-> <<>>])
        /\ UNCHANGED <<conds, negate, out, stored, made, reported>>

Nesting(t) == CASE t.cs = "{" -> 1 [] t.cs = "}" -> -1 [] OTHER -> 0

\* A body or an \expanded text, up to the brace that closes it.
ToText(t, rest) ==
  /\ Calls("edef") \/ Calls("expanded")
  /\ \/ /\ Top.depth + Nesting(t) > 0
        /\ calls' = Append(Settled, [Top EXCEPT !.depth = @ + Nesting(t), !.text = Append(@, t)])
        /\ input' = rest /\ UNCHANGED stored
     \/ /\ Top.depth + Nesting(t) = 0 /\ calls' = Settled
        /\ \/ Top.do = "edef" /\ stored' = Top.text /\ input' = rest
           \/ Top.do = "expanded" /\ input' = Top.text \o rest /\ UNCHANGED stored
  /\ UNCHANGED <<conds, negate, out, made, reported>>

Closing(rest) ==
  LET depth(i) == 1 + FoldLeft(LAMBDA n, t : n + Nesting(t), 0, SubSeq(rest, 1, i))
  IN  {i \in 1..Len(rest) : depth(i) = 0 /\ \A j \in 1..(i - 1) : depth(j) > 0}

ToBrace(t, how, rest) ==
  /\ Calls("brace")
  /\ \/ ReadsAgain(t, how) /\ Again(t, rest) /\ Aside
     \/ /\ t.cs = " " /\ input' = rest
        /\ UNCHANGED <<conds, calls, negate, out, stored, made, reported>> /\ Aside
     \/ /\ t.cs = "{" /\ Top.of = "expanded"
        /\ input' = rest
        /\ calls' = Append(Settled, [do |-> "expanded", depth |-> 1, text |-> <<>>])
        /\ UNCHANGED <<conds, negate, out, stored, made, reported>> /\ Aside
     \/ /\ t.cs = "{" /\ Top.of = "unexpanded"
        /\ \E i \in Closing(rest) :
             input' = [j \in 1..(i - 1) |-> [rest[j] EXCEPT !.mark = "once"]] \o SubSeq(rest, i + 1, Len(rest))
        /\ calls' = Settled
        /\ UNCHANGED <<conds, negate, out, stored, made, reported>> /\ Aside
     \/ /\ ~ReadsAgain(t, how)
        /\ t.cs \notin {" ", "{"} \/ (t.cs = "{" /\ Top.of = "unexpanded" /\ Closing(rest) = {})
        /\ Fatal

Named(name) == IF name = <<"a">> THEN "fresh" ELSE "known"

\* The name is whole: \csname gives an unknown one the meaning of \relax.
ToName(t, how, rest) ==
  /\ Calls("name")
  /\ \/ how = "again" /\ IsName(t) /\ Again(t, rest) /\ Aside
     \/ /\ ~IsName(t)
        /\ input' = rest /\ calls' = [calls EXCEPT ![Len(calls)].name = Append(@, t.cs)]
        /\ UNCHANGED <<conds, negate, out, stored, made, reported>> /\ Aside
     \/ /\ how # "again" /\ t.cs = "endcsname"
        /\ LET asked == Last(Settled) IN
           \/ /\ asked.do = "csname"
              /\ input' = <<T(Named(Top.name), asked.at)>> \o rest
              /\ made' = (made \/ Undefined(Named(Top.name)))
              /\ calls' = Front(Settled) /\ UNCHANGED conds
           \/ /\ asked.do = "ifcsname"
              /\ input' = rest /\ UNCHANGED made
              /\ Judge(conds, Front(Settled), asked.at, ~Undefined(Named(Top.name)))
        /\ UNCHANGED <<negate, out, stored, reported>> /\ Aside
     \/ how # "again" /\ IsName(t) /\ t.cs # "endcsname" /\ Fatal

\* The number goes to whoever scanned it; `found' counts what was missing.
Number(value, found, left) ==
  LET asked == Last(Settled)  under == Front(Settled) IN
  /\ \/ /\ asked.do = "ifodd" /\ input' = left
        /\ Judge(conds, under, asked.at, value % 2 = 1)
     \/ /\ asked.do = "ifcase" /\ input' = left
        /\ conds' = [conds EXCEPT ![asked.at].evaluated = TRUE]
        /\ calls' = IF value = 0 THEN under ELSE Append(under, CaseSkip(asked.at, value, Len(conds)))
     \/ /\ asked.do = "number" /\ input' = Texted(<<ToString(value)>>, asked.at) \o left
        /\ calls' = under /\ UNCHANGED conds
     \/ /\ asked.do = "ifnum" /\ input' = left /\ "left" \notin DOMAIN asked
        /\ calls' = Append(under, [do |-> "relation", at |-> asked.at, left |-> value])
        /\ UNCHANGED conds
     \/ /\ asked.do = "ifnum" /\ input' = left /\ "left" \in DOMAIN asked
        /\ Judge(conds, under, asked.at, IF asked.relation = "<" THEN asked.left < value ELSE asked.left = value)
  /\ reported' = reported + found
  /\ UNCHANGED <<negate, out, stored, made>>

ToInteger(t, how, rest) ==
  \/ /\ Calls("first")
     /\ \/ ReadsAgain(t, how) /\ Again(t, rest)
        \/ /\ t.cs = " " /\ input' = rest
           /\ UNCHANGED <<conds, calls, negate, out, stored, made, reported>>
        \/ /\ t.cs = "-"
           /\ input' = rest /\ calls' = [calls EXCEPT ![Len(calls)].sign = -@]
           /\ UNCHANGED <<conds, negate, out, stored, made, reported>>
        \/ /\ t.cs \in Digits
           /\ input' = rest
           /\ calls' = Append(Settled, [do |-> "digits", sign |-> Top.sign, value |-> DigitOf(t.cs)])
           /\ UNCHANGED <<conds, negate, out, stored, made, reported>>
        \/ /\ t.cs \notin Digits \cup {" ", "-"} /\ ~ReadsAgain(t, how)
           /\ Number(0, 1, <<t>> \o rest)
  \/ /\ Calls("digits")
     /\ \/ /\ t.cs \in Digits
           /\ input' = rest /\ calls' = [calls EXCEPT ![Len(calls)].value = 10 * @ + DigitOf(t.cs)]
           /\ UNCHANGED <<conds, negate, out, stored, made, reported>>
        \/ /\ t.cs \notin Digits
           /\ Number(Top.sign * Top.value, 0, IF t.cs = " " THEN rest ELSE <<t>> \o rest)

ToRelation(t, how, rest) ==
  /\ Calls("relation")
  /\ \/ ReadsAgain(t, how) /\ Again(t, rest)
     \/ /\ t.cs = " " /\ input' = rest
        /\ UNCHANGED <<conds, calls, negate, out, stored, made, reported>>
     \/ /\ t.cs # " " /\ ~ReadsAgain(t, how)
        /\ input' = IF t.cs \in Relations THEN rest ELSE <<t>> \o rest
        /\ reported' = reported + (IF t.cs \in Relations THEN 0 ELSE 1)
        /\ calls' = Settled \o << [do |-> "ifnum", at |-> Top.at, left |-> Top.left,
                                   relation |-> IF t.cs \in Relations THEN t.cs ELSE "="], Integer(1) >>
        /\ UNCHANGED <<conds, negate, out, stored, made>>

\* \if compares characters; a name has none.
CharacterOf(t) == IF IsName(t) THEN "none" ELSE t.cs

ToOperand(t, rest) ==
  /\ Calls("operand") /\ input' = rest
  /\ \/ /\ Top.left = <<>>
        /\ calls' = [calls EXCEPT ![Len(calls)].left = <<t>>] /\ UNCHANGED conds
     \/ /\ Top.left # <<>>
        /\ Judge(conds, Settled, Top.at, CharacterOf(Top.left[1]) = CharacterOf(t))
  /\ UNCHANGED <<negate, out, stored, made, reported>>

\* \the takes a token register; anything else is forgotten, and a nought
\* stands for it.
ToSubject(t, how, rest) ==
  /\ Calls("subject")
  /\ \/ ReadsAgain(t, how) /\ Again(t, rest)
     \/ /\ t.cs = " " /\ input' = rest
        /\ UNCHANGED <<conds, calls, negate, out, stored, made, reported>>
     \/ /\ t.cs # " " /\ ~ReadsAgain(t, how)
        /\ input' = (IF t.cs \in DOMAIN Lists THEN Marked(Lists[t.cs], t.at, Top.mark)
                     ELSE <<T("0", t.at)>>) \o rest
        /\ reported' = reported + (IF t.cs \in DOMAIN Lists THEN 0 ELSE 1)
        /\ calls' = Settled
        /\ UNCHANGED <<conds, negate, out, stored, made>>

Receive(t, how, rest) ==
  \/ /\ \/ ToMain(t, how, rest) \/ ToText(t, rest) \/ ToInteger(t, how, rest) \/ ToRelation(t, how, rest)
        \/ ToOperand(t, rest) \/ ToSubject(t, how, rest)
     /\ Aside
  \/ ToBrace(t, how, rest) \/ ToName(t, how, rest)

-----------------------------------------------------------------------------
(* The reader: it expands until there is a token to give.                  *)

\* An \outer macro is refused where a body is gathered with expansion, by
\* whatever is being scanned for it: the body is closed before it, and the
\* scan has a space.  \expandafter expands it unasked.
Refused(t) == t.mark = "none" /\ t.cs \in Outer /\ \E i \in DOMAIN calls : calls[i].do = "edef"
Refuse ==
  /\ Runs /\ Asks /\ input # <<>> /\ Refused(Head(input))
  /\ input' = Texted(<<" ", "}">>, Head(input).at) \o input /\ reported' = reported + 1
  /\ UNCHANGED <<conds, calls, negate, out, stored, made>> /\ Aside

Read ==
  /\ Runs /\ Asks /\ input # <<>>
  /\ \E t \in {Head(input)}, rest \in {Tail(input)} :
       \/ t.mark = "held" /\ Receive(Plain(t), "held", rest)
       \/ t.mark = "once" /\ Receive(Plain(t), IF IsName(t) THEN "again" ELSE "held", rest)
       \/ t.mark = "none" /\ ~Expandable(t.cs) /\ Receive(t, "plain", rest)
       \/ t.mark = "none" /\ t.cs \in Protected /\ Inhibited /\ Receive(t, "again", rest)
       \/ /\ t.mark = "none" /\ t.cs = "noexpand" /\ rest # <<>> /\ Head(rest).mark = "none"
          /\ Receive(Head(rest), IF IsName(Head(rest)) THEN "held" ELSE "plain", Tail(rest))
       \/ /\ t.mark = "none" /\ Expandable(t.cs) /\ (t.cs = "noexpand" => rest = <<>>)
          /\ ~(t.cs \in Protected /\ Inhibited) /\ ~Refused(t)
          /\ ExpandOrStop(t, rest, calls)

\* Nothing is left.  A number ends there, and so does the document, unless
\* a conditional is still open.
EndOfInput ==
  /\ Runs /\ input = <<>>
  /\ \/ Calls("digits") /\ Number(Top.sign * Top.value, 0, <<>>) /\ Aside
     \/ /\ Calls("main") /\ conds = <<>> /\ status' = "ended"
        /\ UNCHANGED <<document, input, conds, calls, negate, out, stored, made, reported>>
     \/ Calls("main") /\ conds # <<>> /\ Fatal
     \/ (Asks \/ Skipping) /\ ~Calls("digits") /\ ~Calls("main") /\ Fatal

Finished == status # "reading" /\ UNCHANGED vars

Next == \/ Read \/ Refuse \/ ExpandOnce \/ PutBack \/ EndOfInput
        \/ PassOver \/ Forgotten \/ PassFi \/ PassElse \/ SecondElse \/ PassOr
        \/ Finished

Spec == Init /\ [][Next]_vars
=============================================================================
