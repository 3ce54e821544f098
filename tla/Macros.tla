------------------------------- MODULE Macros -------------------------------
(***************************************************************************)
(* Definitions and the calls of them (src/engine.c): the parameter text    *)
(* and the body a \def scans, and the arguments a call gathers.            *)
(*                                                                         *)
(* What is read comes from frames, the uppermost first: a file, a list of  *)
(* tokens that stand together, or the boundary of an alignment entry.  A   *)
(* list is looked at where it stands and taken in runs; a file is read a   *)
(* token at a time, and so is the token at which a run ends.               *)
(***************************************************************************)
EXTENDS Integers, Sequences, SequencesExt, FiniteSetsExt

CONSTANTS Documents,      \* what may be read: [long, frames]
          MaxParameters

VARIABLES document,
          input,          \* the frames
          macro,          \* the definition made, or <<>>
          scan,           \* what is being scanned
          args,           \* the arguments gathered
          long,           \* \par may stand in them
          out,            \* what the main loop got
          faults,
          status

vars == <<document, input, macro, scan, args, long, out, faults, status>>

-----------------------------------------------------------------------------
(* Tokens.  "#1" is a parameter, and "!" marks a name that \unexpanded or   *)
(* \the gave out.                                                          *)

ParameterNames == <<"#1", "#2", "#3">>
Digit == <<"1", "2", "3">>
IsParameter(t) == t \in Range(ParameterNames)
NumberOf(t) == CHOOSE n \in DOMAIN ParameterNames : ParameterNames[n] = t

Names == {"m", "par", "o", "x", "inaccessible"}
IsName(t) == t \in Names
IsMarked(t) == t = "x!"
Unmarked(t) == IF IsMarked(t) THEN "x" ELSE t
IsOuter(t) == t = "o"
IsPar(t) == t = "par"
Nesting(t) == CASE t = "{" -> 1 [] t = "}" -> -1 [] OTHER -> 0

-----------------------------------------------------------------------------
(* Frames.                                                                 *)

File(tokens) == [kind |-> "file", tokens |-> tokens]
List(tokens) == [kind |-> "list", tokens |-> tokens]
Boundary == [kind |-> "boundary", tokens |-> <<>>]

\* Lists read to their end go when a token is put back, not before.
WithoutSpent(frames) ==
  LET kept == {i \in DOMAIN frames : frames[i].kind # "list" \/ frames[i].tokens # <<>>}
  IN  IF kept = {} THEN <<>> ELSE SubSeq(frames, Min(kept), Len(frames))
Standing ==
  LET kept == {i \in DOMAIN input : input[i].kind = "boundary" \/ input[i].tokens # <<>>}
  IN  IF kept = {} THEN <<>> ELSE SubSeq(input, Min(kept), Len(input))

HasToken == Standing # <<>> /\ Standing[1].kind # "boundary"
AtBoundary == Standing # <<>> /\ Standing[1].kind = "boundary"
Token == Standing[1].tokens[1]
Rest == [Standing EXCEPT ![1].tokens = Tail(@)]

PutBack(t, frames) == <<List(<<t>>)>> \o WithoutSpent(frames)

\* The tokens of the list on top, up to one of those that end a run.
OnList == input # <<>> /\ input[1].kind = "list"
RunTo(ends) == IF ends = {} THEN Len(input[1].tokens) ELSE Min(ends) - 1
Run(n) == SubSeq(input[1].tokens, 1, n)
Past(n) == [input EXCEPT ![1].tokens = SubSeq(@, n + 1, Len(@))]
DepthAfter(depth, tokens) == FoldLeft(LAMBDA d, t : d + Nesting(t), depth, tokens)

-----------------------------------------------------------------------------
Reads(do) == status = "reading" /\ scan.do = do
Stop(how) == /\ status' = how
             /\ UNCHANGED <<document, input, macro, scan, args, long, out, faults>>
Report(fault) == faults' = Append(faults, fault)
Idle == [do |-> "main"]

Init ==
  /\ document \in Documents
  /\ input = document.frames
  /\ macro = <<>> /\ scan = Idle /\ args = <<>> /\ long = FALSE
  /\ out = <<>> /\ faults = <<>> /\ status = "reading"

-----------------------------------------------------------------------------
(* A definition.                                                           *)

\* What follows \def is the name defined; where it is no name, one nobody
\* can reach goes in front of it.
Target ==
  /\ Reads("target")
  /\ \/ HasToken /\ Token = " " /\ input' = Rest /\ UNCHANGED <<scan, faults>>
     \/ /\ HasToken /\ IsName(Unmarked(Token)) /\ input' = Rest
        /\ scan' = [do |-> "parameters", name |-> Unmarked(Token), text |-> <<>>, count |-> 0]
        /\ UNCHANGED faults
     \/ /\ HasToken => Token # " " /\ ~IsName(Unmarked(Token))
        /\ input' = PutBack("inaccessible", IF HasToken THEN PutBack(Token, Rest) ELSE Standing)
        /\ Report("missing name") /\ UNCHANGED scan
  /\ UNCHANGED <<document, macro, args, long, out, status>>

Body(text, hash) ==
  [do |-> "body", name |-> scan.name, text |-> text, count |-> scan.count,
   hash |-> hash, body |-> <<>>, depth |-> 1]

\* How a body is made: what stands for itself in it, and how often it asks
\* for each argument.
Counted(text, count, body) ==
  [text |-> text, count |-> count, body |-> body,
   inOrder |-> text = SubSeq(ParameterNames, 1, count),
   plain |-> Len(SelectSeq(body, LAMBDA t : ~IsParameter(t))),
   uses |-> [n \in 1..count |-> Len(SelectSeq(body, LAMBDA t : t = ParameterNames[n]))]]

Defines(text, count, body) ==
  /\ macro' = IF scan.name = "m" THEN Counted(text, count, body) ELSE macro
  /\ scan' = Idle

\* The parameter text, up to the brace that begins the body.
ParameterText ==
  /\ Reads("parameters")
  /\ \/ ~HasToken /\ Stop("fatal")
     \/ /\ HasToken /\ Token \notin {"{", "}", "#"}
        /\ input' = Rest /\ scan' = [scan EXCEPT !.text = Append(@, Unmarked(Token))]
        /\ UNCHANGED <<document, macro, args, long, out, faults, status>>
     \/ /\ HasToken /\ Token = "{"
        /\ input' = Rest /\ scan' = Body(scan.text, <<>>)
        /\ UNCHANGED <<document, macro, args, long, out, faults, status>>
     \/ /\ HasToken /\ Token = "}"
        /\ input' = Rest /\ Defines(scan.text, scan.count, <<>>) /\ Report("missing {")
        /\ UNCHANGED <<document, args, long, out, status>>
     \/ /\ HasToken /\ Token = "#"
        /\ input' = Rest /\ scan' = [scan EXCEPT !.do = "number"]
        /\ UNCHANGED <<document, macro, args, long, out, faults, status>>

\* What stands behind a #.  A brace belongs to the text and to the end of
\* the body; a number out of its turn is read again.
ParameterNumber ==
  /\ Reads("number")
  /\ \/ ~HasToken /\ Stop("fatal")
     \/ /\ HasToken
        /\ \/ /\ Token = "{"
              /\ input' = Rest /\ scan' = Body(Append(scan.text, "{"), <<"{">>)
              /\ UNCHANGED faults
           \/ /\ Token # "{" /\ scan.count = MaxParameters
              /\ input' = Rest /\ scan' = [scan EXCEPT !.do = "parameters"]
              /\ Report("too many")
           \/ /\ Token # "{" /\ scan.count < MaxParameters
              /\ scan' = [scan EXCEPT !.do = "parameters", !.count = @ + 1,
                                      !.text = Append(@, ParameterNames[scan.count + 1])]
              /\ \/ Token = Digit[scan.count + 1] /\ input' = Rest /\ UNCHANGED faults
                 \/ Token # Digit[scan.count + 1] /\ input' = PutBack(Unmarked(Token), Rest) /\ Report("number")
        /\ UNCHANGED <<document, macro, args, long, out, status>>

\* A run of the body that need not be looked at.
EndsRun(t) == t \in {"{", "}", "#"} \/ IsMarked(t)
BodyRun ==
  /\ Reads("body") /\ OnList
  /\ LET n == RunTo({i \in DOMAIN input[1].tokens : EndsRun(input[1].tokens[i])}) IN
     /\ n > 0
     /\ scan' = [scan EXCEPT !.body = @ \o Run(n)] /\ input' = Past(n)
  /\ UNCHANGED <<document, macro, args, long, out, faults, status>>

BodyToken ==
  /\ Reads("body")
  /\ OnList /\ input[1].tokens # <<>> => EndsRun(input[1].tokens[1])
  /\ \/ ~HasToken /\ Stop("fatal")
     \/ /\ HasToken /\ IsOuter(Token)
        /\ input' = PutBack("}", PutBack(Token, Rest)) /\ Report("outer")
        /\ UNCHANGED <<document, macro, scan, args, long, out, status>>
     \/ /\ HasToken /\ ~IsOuter(Token) /\ Token # "#" /\ scan.depth + Nesting(Token) > 0
        /\ scan' = [scan EXCEPT !.body = Append(@, Unmarked(Token)), !.depth = @ + Nesting(Token)]
        /\ input' = Rest
        /\ UNCHANGED <<document, macro, args, long, out, faults, status>>
     \/ /\ HasToken /\ scan.depth + Nesting(Token) = 0
        /\ Defines(scan.text, scan.count, scan.body \o scan.hash)
        /\ input' = Rest
        /\ UNCHANGED <<document, args, long, out, faults, status>>
     \/ /\ HasToken /\ Token = "#"
        /\ input' = Rest /\ scan' = [scan EXCEPT !.do = "body number"]
        /\ UNCHANGED <<document, macro, args, long, out, faults, status>>

\* A # stands before the number of a parameter or before another #; what
\* else follows it is read again.
BodyParameter ==
  /\ Reads("body number")
  /\ \/ ~HasToken /\ Stop("fatal")
     \/ /\ HasToken
        /\ \/ /\ Token = "#" /\ input' = Rest /\ UNCHANGED faults
              /\ scan' = [scan EXCEPT !.do = "body", !.body = Append(@, "#")]
           \/ \E n \in 1..scan.count :
                /\ Token = Digit[n] /\ input' = Rest /\ UNCHANGED faults
                /\ scan' = [scan EXCEPT !.do = "body", !.body = Append(@, ParameterNames[n])]
           \/ /\ Token \notin {"#"} \cup {Digit[n] : n \in 1..scan.count}
              /\ input' = PutBack(Unmarked(Token), Rest) /\ Report("illegal number")
              /\ scan' = [scan EXCEPT !.do = "body", !.body = Append(@, "#")]
        /\ UNCHANGED <<document, macro, args, long, out, status>>

-----------------------------------------------------------------------------
(* A call.                                                                 *)

Plain == macro.inOrder
Marker(n, at) == Min({i \in (at + 1)..Len(macro.text) : macro.text[i] = ParameterNames[n]})
DelimiterEnd(i) ==
  Min({j \in (i + 1)..(Len(macro.text) + 1) : j = Len(macro.text) + 1 \/ IsParameter(macro.text[j])}) - 1

\* On to parameter n, or past the last of them: first what stands before
\* it in the parameter text is to be met.
Matching(n, at) ==
  [do |-> "match", n |-> n, at |-> at,
   want |-> IF Plain THEN <<>>
            ELSE IF n > macro.count THEN SubSeq(macro.text, at + 1, Len(macro.text))
            ELSE SubSeq(macro.text, at + 1, Marker(n, at) - 1)]

\* Then the argument itself, with what ends it.
Argument(n, at) ==
  LET marker == IF Plain THEN n ELSE Marker(n, at)
      end == IF Plain THEN n ELSE DelimiterEnd(marker)
      delimiter == SubSeq(macro.text, marker + 1, end)
  IN  [do |-> IF delimiter = <<>> \/ Plain THEN "first" ELSE "delimited",
       n |-> n, at |-> end, delimiter |-> IF Plain THEN <<>> ELSE delimiter,
       long |-> long, got |-> <<>>, depth |-> 0]

Begin ==
  /\ Reads("main")
  /\ \/ ~HasToken /\ Stop("ended")
     \/ /\ HasToken /\ Token = "def"
        /\ input' = Rest /\ scan' = [do |-> "target"]
        /\ UNCHANGED <<document, macro, args, long, out, faults, status>>
     \/ /\ HasToken /\ Token = "m" /\ macro # <<>>
        /\ input' = Rest /\ scan' = Matching(1, 0) /\ args' = <<>> /\ long' = document.long
        /\ UNCHANGED <<document, macro, out, faults, status>>
     \/ /\ HasToken /\ Token = "m" /\ macro = <<>>
        /\ input' = Rest /\ Report("undefined")
        /\ UNCHANGED <<document, macro, scan, args, long, out, status>>
     \/ /\ HasToken /\ Token \notin {"def", "m"}
        /\ input' = Rest /\ out' = Append(out, Unmarked(Token))
        /\ UNCHANGED <<document, macro, scan, args, long, faults, status>>

Forget(fault) == /\ Report(fault) /\ scan' = Idle /\ args' = <<>>
                 /\ UNCHANGED <<document, macro, long, out, status>>

\* An \outer name while an argument is gathered: it goes back with a \par
\* in front, which is read at once.
ForgetOuter == /\ input' = <<List(<<>>)>> \o PutBack(Token, Rest) /\ Forget("outer")
ForgetParagraph == /\ input' = PutBack(Token, Rest) /\ Forget("paragraph")

\* The end of an alignment entry ends the call; the end of all, the run.
NothingLeft ==
  \/ AtBoundary /\ input' = Standing /\ Forget("outer")
  \/ ~AtBoundary /\ Stop("fatal")

Match ==
  /\ Reads("match") /\ scan.want # <<>>
  /\ \/ ~HasToken /\ input' = Standing /\ Forget("mismatch")
     \/ /\ HasToken /\ IsOuter(Token)
        /\ input' = PutBack("par", PutBack(Token, Rest))
        /\ faults' = faults \o <<"outer", "mismatch">> /\ scan' = Idle /\ args' = <<>>
        /\ UNCHANGED <<document, macro, long, out, status>>
     \/ /\ HasToken /\ ~IsOuter(Token) /\ Unmarked(Token) # Unmarked(scan.want[1])
        /\ input' = Rest /\ Forget("mismatch")
     \/ /\ HasToken /\ ~IsOuter(Token) /\ Unmarked(Token) = Unmarked(scan.want[1])
        /\ input' = Rest /\ scan' = [scan EXCEPT !.want = Tail(@)]
        /\ UNCHANGED <<document, macro, args, long, out, faults, status>>

ToArgument ==
  /\ Reads("match") /\ scan.want = <<>> /\ scan.n <= macro.count
  /\ scan' = Argument(scan.n, scan.at)
  /\ UNCHANGED <<document, input, macro, args, long, out, faults, status>>

Takes(argument) == /\ args' = Append(args, argument) /\ scan' = Matching(scan.n + 1, scan.at)
                   /\ UNCHANGED <<document, macro, out, faults, status>>

\* A brace the call did not open: it goes back with a \par in front, and
\* \long no longer holds, for the rest of the call where an argument was to
\* begin and for this argument where one had begun.
ExtraBrace == /\ input' = PutBack("par", PutBack(Token, Rest))
              /\ long' = (long /\ Reads("delimited"))
              /\ scan' = [scan EXCEPT !.got = <<>>, !.long = FALSE]
              /\ Report("extra }")
              /\ UNCHANGED <<document, macro, args, out, status>>

\* An argument nothing delimits: a token, or a group without its braces.
FirstToken ==
  /\ Reads("first")
  /\ \/ ~HasToken /\ NothingLeft
     \/ /\ HasToken /\ Token = " "
        /\ input' = Rest
        /\ UNCHANGED <<document, macro, scan, args, long, out, faults, status>>
     \/ HasToken /\ IsOuter(Token) /\ ForgetOuter
     \/ HasToken /\ IsPar(Token) /\ ~scan.long /\ ForgetParagraph
     \/ HasToken /\ Token = "}" /\ ExtraBrace
     \/ /\ HasToken /\ Token = "{"
        /\ input' = Rest /\ scan' = [scan EXCEPT !.do = "balanced", !.depth = 1]
        /\ UNCHANGED <<document, macro, args, long, out, faults, status>>
     \/ /\ HasToken /\ ~IsOuter(Token) /\ ~(IsPar(Token) /\ ~scan.long) /\ Token \notin {" ", "{", "}"}
        /\ input' = Rest /\ Takes(<<Unmarked(Token)>>) /\ UNCHANGED long

\* What ends a run in a group: a mark, a paragraph, or the group's end.
BalancedEnds ==
  LET tokens == input[1].tokens IN
  {i \in DOMAIN tokens : \/ IsMarked(tokens[i]) \/ (IsPar(tokens[i]) /\ ~scan.long)
                         \/ DepthAfter(scan.depth, SubSeq(tokens, 1, i)) = 0}

BalancedRun ==
  /\ Reads("balanced") /\ OnList
  /\ LET n == RunTo(BalancedEnds)  got == scan.got \o Run(n) IN
     \/ /\ n < Len(input[1].tokens) /\ DepthAfter(scan.depth, Run(n + 1)) = 0
        /\ input' = Past(n + 1) /\ Takes(got) /\ UNCHANGED long
     \/ /\ n > 0 /\ ~(n < Len(input[1].tokens) /\ DepthAfter(scan.depth, Run(n + 1)) = 0)
        /\ input' = Past(n)
        /\ scan' = [scan EXCEPT !.got = got, !.depth = DepthAfter(@, Run(n))]
        /\ UNCHANGED <<document, macro, args, long, out, faults, status>>

BalancedToken ==
  /\ Reads("balanced")
  /\ OnList /\ input[1].tokens # <<>> => (IsMarked(Token) \/ (IsPar(Token) /\ ~scan.long))
  /\ \/ ~HasToken /\ Stop("fatal")
     \/ HasToken /\ IsOuter(Token) /\ ForgetOuter
     \/ HasToken /\ IsPar(Token) /\ ~scan.long /\ ForgetParagraph
     \/ /\ HasToken /\ scan.depth + Nesting(Token) = 0
        /\ input' = Rest /\ Takes(scan.got) /\ UNCHANGED long
     \/ /\ HasToken /\ ~IsOuter(Token) /\ ~(IsPar(Token) /\ ~scan.long) /\ scan.depth + Nesting(Token) > 0
        /\ input' = Rest
        /\ scan' = [scan EXCEPT !.got = Append(@, Unmarked(Token)), !.depth = @ + Nesting(Token)]
        /\ UNCHANGED <<document, macro, args, long, out, faults, status>>

EndsWith(got, delimiter) ==
  /\ Len(delimiter) <= Len(got)
  /\ \A i \in DOMAIN delimiter : Unmarked(got[Len(got) - Len(delimiter) + i]) = Unmarked(delimiter[i])
\* What was gathered last may be the beginning of the delimiter.
BeginsDelimiter(got) ==
  \E n \in 1..Len(scan.delimiter) : EndsWith(got, SubSeq(scan.delimiter, 1, n))

\* An argument that is one group loses its braces.
Stripped(got) ==
  IF /\ Len(got) >= 2 /\ Head(got) = "{" /\ Last(got) = "}"
     /\ \A i \in 1..(Len(got) - 1) : DepthAfter(0, SubSeq(got, 1, i)) > 0
  THEN SubSeq(got, 2, Len(got) - 1) ELSE got

\* A run goes up to the last token of the delimiter; a brace that closes
\* nothing is no end of it.
UnlessNought(depth, t) == IF depth + Nesting(t) < 0 THEN 0 ELSE depth + Nesting(t)
RunDepth(tokens) == FoldLeft(UnlessNought, scan.depth, tokens)
DelimitedEnds ==
  LET tokens == input[1].tokens IN
  {i \in DOMAIN tokens : \/ IsMarked(tokens[i]) \/ (IsPar(tokens[i]) /\ ~scan.long)
                         \/ /\ RunDepth(SubSeq(tokens, 1, i - 1)) = 0
                            /\ Unmarked(tokens[i]) = Unmarked(Last(scan.delimiter))}

DelimitedRun ==
  /\ Reads("delimited") /\ OnList
  /\ LET n == RunTo(DelimitedEnds) IN
     /\ n > 0 /\ input' = Past(n)
     /\ scan' = [scan EXCEPT !.got = @ \o Run(n), !.depth = RunDepth(Run(n))]
  /\ UNCHANGED <<document, macro, args, long, out, faults, status>>

DelimitedToken ==
  /\ Reads("delimited")
  /\ OnList /\ input[1].tokens # <<>> => 1 \in DelimitedEnds
  /\ \/ ~HasToken /\ NothingLeft
     \/ HasToken /\ IsOuter(Token) /\ ForgetOuter
     \/ /\ HasToken /\ ~IsOuter(Token)
        /\ LET got == Append(scan.got, Unmarked(Token))
               whole == scan.depth = 0 /\ EndsWith(got, scan.delimiter)
               runaway == IsPar(Token) /\ ~scan.long /\ ~(scan.depth = 0 /\ BeginsDelimiter(got))
           IN
           \/ /\ whole /\ input' = Rest
              /\ Takes(Stripped(SubSeq(got, 1, Len(got) - Len(scan.delimiter)))) /\ UNCHANGED long
           \/ ~whole /\ runaway /\ ForgetParagraph
           \/ ~whole /\ scan.depth + Nesting(Token) < 0 /\ ExtraBrace
           \/ /\ ~whole /\ ~runaway /\ scan.depth + Nesting(Token) >= 0
              /\ input' = Rest
              /\ scan' = [scan EXCEPT !.got = got, !.depth = @ + Nesting(Token)]
              /\ UNCHANGED <<document, macro, args, long, out, faults, status>>

-----------------------------------------------------------------------------
(* The body in the arguments' company.                                     *)

\* How long the text comes to, from what was counted when it was defined.
Room == macro.plain + FoldLeft(LAMBDA sum, n : sum + macro.uses[n] * Len(args[n]), 0,
                               [n \in 1..macro.count |-> n])
Substituted ==
  FlattenSeq([i \in DOMAIN macro.body |->
    IF IsParameter(macro.body[i]) THEN args[NumberOf(macro.body[i])] ELSE <<macro.body[i]>>])

\* The lists that are spent go, and the text stands on top; an empty one
\* is not put there at all.
Instantiate ==
  /\ Reads("match") /\ scan.want = <<>> /\ scan.n > macro.count
  /\ input' = IF Room = 0 THEN input ELSE <<List(Substituted)>> \o WithoutSpent(input)
  /\ scan' = Idle /\ args' = <<>>
  /\ UNCHANGED <<document, macro, long, out, faults, status>>

-----------------------------------------------------------------------------
Finished == status # "reading" /\ UNCHANGED vars

Next == \/ Begin \/ Target \/ ParameterText \/ ParameterNumber
        \/ BodyRun \/ BodyToken \/ BodyParameter
        \/ Match \/ ToArgument \/ FirstToken
        \/ BalancedRun \/ BalancedToken \/ DelimitedRun \/ DelimitedToken
        \/ Instantiate \/ Finished

Spec == Init /\ [][Next]_vars
=============================================================================
