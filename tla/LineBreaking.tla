---------------------------- MODULE LineBreaking ----------------------------
(***************************************************************************)
(* A paragraph broken into lines: finish_paragraph_line, break_paragraph   *)
(* and what they call in src/engine.c.                                     *)
(*                                                                         *)
(* A pass walks the items and weighs each place where a line may end       *)
(* against every break that may start the line (the active records).  The  *)
(* first pass tries \pretolerance, the second hyphenates and tries         *)
(* \tolerance, the third has \emergencystretch behind every line.  The     *)
(* cheapest record at the end is followed back, and its lines are packed   *)
(* and put on the vertical list with their penalties.                      *)
(*                                                                         *)
(* Positions are 1 .. n, and n + 1 is the end.  The text of a              *)
(* discretionary is the sequence of its widths.  Character protrusion,     *)
(* font expansion and tracing are left out, and all shrink is finite.      *)
(***************************************************************************)
EXTENDS Stretching, Sequences, FiniteSets, SequencesExt, FiniteSetsExt

CONSTANTS
    Paragraphs,   \* the lists of items a document may end a paragraph with
    Settings      \* the parameters they may be broken under

InfinitePenalty == 10000
Eject           == -10000
Awful           == 1073741823
VeryLoose == 0   Loose == 1   Decent == 2   Tight == 3

VARIABLES
    phase,        \* open, passing, lines, done, failed
    set,          \* the parameters
    items,        \* the list being broken
    pass,         \* 1, 2, 3: first, second, emergency
    at,           \* the item the walk has come to
    afterBox, automatic,
    records,      \* every break found feasible in this pass
    active,       \* those that may still start a line, by number
    chain,        \* the records of the chosen breaks
    vlist         \* what has been put on the vertical list

vars == << phase, set, items, pass, at, afterBox, automatic, records, active,
           chain, vlist >>

-----------------------------------------------------------------------------
(* Items. *)

Box(w)               == [kind |-> "box", width |-> w, hyphen |-> 0]
\* A word that hyphenation would divide, its first part w wide.
Word(w, hyphen)      == [kind |-> "box", width |-> w, hyphen |-> hyphen]
Glue(w, st, fil, sh) == [kind |-> "glue", width |-> w, stretch |-> st,
                         fil |-> fil, shrink |-> sh]
Kern(w, explicit)    == [kind |-> "kern", width |-> w, explicit |-> explicit]
Penalty(p)           == [kind |-> "penalty", width |-> 0, penalty |-> p]
Math(after)          == [kind |-> "math", width |-> 0, after |-> after]
Disc(pre, post, n)   == [kind |-> "disc", width |-> 0, pre |-> pre,
                         post |-> post, replaces |-> n]
Migrant(id)          == [kind |-> "mark", width |-> 0, id |-> id]

Discardable(node) ==
    \/ node.kind \in {"glue", "penalty", "math"}
    \/ node.kind = "kern" /\ node.explicit

PrecedesGlueBreak(node) == ~Discardable(node)

InOrder(S) ==
    [k \in 1 .. Cardinality(S) |->
        CHOOSE x \in S : Cardinality({ y \in S : y < x }) = k - 1]

Sum(f(_), from, to) ==
    LET s[i \in (from - 1) .. to] == IF i < from THEN 0 ELSE s[i - 1] + f(i)
    IN  s[to]

ListWidth(text) == Sum(LAMBDA i : text[i], 1, Len(text))

\* Where a line really starts that a break at p comes before.
LineStartAfter(p) ==
    CHOOSE q \in p .. Len(items) + 1 :
        /\ q <= Len(items) => ~Discardable(items[q])
        /\ \A r \in p .. q - 1 : Discardable(items[r])

-----------------------------------------------------------------------------
(* The shape of a paragraph. *)

ShapePair(line) ==
    set.parshape[Max({1, Min({line, Len(set.parshape)})})]

Hangs(line) == IF set.hangAfter >= 0 THEN line > set.hangAfter
                                     ELSE line <= -set.hangAfter

LineWidth(line) ==
    IF set.parshape # <<>> THEN ShapePair(line)[2]
    ELSE IF set.hangIndent # 0 /\ Hangs(line)
         THEN set.hsize - Max({set.hangIndent, -set.hangIndent})
         ELSE set.hsize

LineShift(line) ==
    IF set.parshape # <<>> THEN ShapePair(line)[1]
    ELSE IF set.hangIndent > 0 /\ Hangs(line) THEN set.hangIndent ELSE 0

\* Mutant of BreakClass: all lines are taken to be alike.
BreakClassAlike(line) == 0

\* Breaks of the same class start lines of the same widths from there on.
BreakClass(line) ==
    LET last == IF set.parshape # <<>> THEN Len(set.parshape) - 1
                ELSE IF set.hangIndent # 0
                     THEN Max({set.hangAfter, -set.hangAfter})
                     ELSE 0
    IN  IF set.looseness # 0 THEN line ELSE Min({line, last})

-----------------------------------------------------------------------------
(* What a line costs. *)

Threshold == IF pass = 1 THEN set.pretolerance ELSE set.tolerance
FinalPass == pass = 3 \/ (pass = 2 /\ set.emergency <= 0)

GlueField(i, field) ==
    IF items[i].kind # "glue" THEN 0
    ELSE CASE field = "stretch" -> IF items[i].fil THEN 0 ELSE items[i].stretch
           [] field = "fil"     -> IF items[i].fil THEN items[i].stretch ELSE 0
           [] field = "shrink"  -> items[i].shrink

\* The running total of a field in front of each item, as the difference of
\* which the extent of a line is taken.
Upto(p, field) ==
    Sum(LAMBDA i : IF field = "width" THEN items[i].width
                   ELSE GlueField(i, field), 1, p - 1)

Between(from, to, field) == Upto(to, field) - Upto(from, field)

Background(field) ==
    set.leftskip[field] + set.rightskip[field]
        + IF field = "stretch" /\ pass = 3 THEN set.emergency ELSE 0

\* The badness of a line that is so much too short, and its fitness.  (What is
\* too short to measure is infinitely bad in GlueBadness already.)
LineBadness(shortfall, stretch, fil, shrink) ==
    LET short == GlueBadness(shortfall, stretch)
        long  == GlueBadness(-shortfall, shrink)
    IN  IF shortfall > 0 /\ fil # 0
        THEN [badness |-> 0, fitness |-> Decent]
        ELSE IF shortfall > 0
        THEN [badness |-> short,
              fitness |-> IF short > 99 THEN VeryLoose
                          ELSE IF short > 12 THEN Loose ELSE Decent]
        ELSE IF -shortfall > shrink
        THEN [badness |-> InfiniteBadness + 1, fitness |-> Tight]
        ELSE [badness |-> long,
              fitness |-> IF long > 12 THEN Tight ELSE Decent]

\* Where and how a line may end at p.
NoSite(p) == [penalty |-> InfinitePenalty, hyphenated |-> FALSE, pre |-> 0,
              post |-> <<>>, start |-> LineStartAfter(p)]

LegalAt(p, box, auto) ==
    LET node == items[p]
        glueNext == p < Len(items) /\ items[p + 1].kind = "glue"
    IN  CASE node.kind = "glue" -> box /\ auto
          [] node.kind = "math" -> node.after /\ glueNext
          [] node.kind = "kern" -> node.explicit /\ auto /\ glueNext
          [] node.kind = "penalty" -> node.penalty < InfinitePenalty
          [] node.kind = "disc" -> TRUE
          [] OTHER -> FALSE

SiteAt(p) ==
    IF p > Len(items)
    THEN [NoSite(p) EXCEPT !.penalty = Eject, !.hyphenated = TRUE]
    ELSE LET node  == items[p]
             after == Min({p + 1 + node.replaces, Len(items) + 1})
         IN  CASE node.kind = "disc" ->
                    [penalty    |-> IF node.pre = <<>> THEN set.exHyphenPenalty
                                    ELSE set.hyphenPenalty,
                     hyphenated |-> TRUE,
                     pre        |-> ListWidth(node.pre),
                     post       |-> node.post,
                     start      |-> IF node.post # <<>> THEN after
                                    ELSE LineStartAfter(after)]
               [] node.kind = "penalty" ->
                    [NoSite(p) EXCEPT !.penalty = node.penalty]
               [] OTHER -> [NoSite(p) EXCEPT !.penalty = 0]

\* A line from the break r records to p.
Fit(r, p, site) ==
    LET width == Background("width") + ListWidth(r.post) + site.pre
                     + Between(r.start, p, "width")
        extent(field) == Background(field) + Between(r.start, p, field)
    IN  LineBadness(LineWidth(r.line + 1) - width,
                    extent("stretch"), extent("fil"), extent("shrink"))

LineDemerits(r, p, site, fit) ==
    LET scaled  == set.linePenalty + fit.badness
        penalty == Max({site.penalty, Eject})
        gap     == fit.fitness - r.fitness
    IN  (IF scaled >= InfiniteBadness \/ scaled <= -InfiniteBadness
         THEN 100000000 ELSE scaled * scaled)
      + (CASE penalty > 0                      -> penalty * penalty
           [] penalty > Eject /\ penalty <= 0  -> -(penalty * penalty)
           [] OTHER                            -> 0)
      + (IF gap > 1 \/ gap < -1 THEN set.adjDemerits ELSE 0)
      + (IF ~(site.hyphenated /\ r.hyphenated) THEN 0
         ELSE IF p > Len(items) THEN set.finalHyphenDemerits
         ELSE set.doubleHyphenDemerits)

-----------------------------------------------------------------------------
(* Weighing one place, against every break that may start the line. *)

Start(line) ==
    [at |-> 0, start |-> 1, line |-> line, fitness |-> Decent, demerits |-> 0,
     previous |-> 0, post |-> <<>>, hyphenated |-> FALSE]

ClassOf(slot) == BreakClass(records[active[slot]].line + 1)

\* The active records of one class, which are walked together.
Runs ==
    LET starts == { s \in DOMAIN active :
                        s = 1 \/ ClassOf(s) # ClassOf(s - 1) }
        End(s) == Min({ t - 1 : t \in { u \in starts : u > s } }
                        \cup {Len(active)})
    IN  [k \in 1 .. Cardinality(starts) |->
            LET s == InOrder(starts)[k] IN s .. End(s)]

WeighedAs(r, fit, p, site) ==
    LET hopeless == fit.badness > InfiniteBadness \/ site.penalty <= Eject
        within   == fit.badness <= Threshold
        total    == r.demerits + LineDemerits(r, p, site, fit)
    IN  [stays    |-> ~hopeless,
         hopeless |-> hopeless,
         starts   |-> within /\ total < Awful,
         fitness  |-> fit.fitness,
         demerits |-> total]

\* What becomes of the active record in a slot when the line may end at p.
Weighed(slot, p, site) ==
    WeighedAs(records[active[slot]], Fit(records[active[slot]], p, site), p, site)

\* On the final pass a line that fits nowhere is taken as it is, for nothing,
\* when no other break is left.
Rescued(weighed) ==
    /\ FinalPass
    /\ Last(weighed).hopeless
    /\ \A s \in 1 .. Len(weighed) - 1 : ~weighed[s].stays /\ ~weighed[s].starts

AfterRescue(weighed) ==
    IF Rescued(weighed)
    THEN [weighed EXCEPT ![Len(weighed)].starts = TRUE,
                         ![Len(weighed)].demerits =
                             records[active[Len(weighed)]].demerits]
    ELSE weighed

\* The records made for one run: the best of each fitness that is not dearer
\* than the best of all by more than \adjdemerits.
Made(run, weighed, p, site) ==
    LET starting   == { s \in run : weighed[s].starts }
        Of(f)      == { s \in starting : weighed[s].fitness = f }
        Minimal(S) == Min({Awful} \cup { weighed[s].demerits : s \in S })
        ceiling    == Minimal(starting)
                        + Max({set.adjDemerits, -set.adjDemerits})
        Best(f)    == Max({ s \in Of(f) : weighed[s].demerits = Minimal(Of(f)) })
        New(f)     == LET r == active[Best(f)] IN
                      [at         |-> p,
                       start      |-> site.start,
                       line       |-> records[r].line + 1,
                       fitness    |-> f,
                       demerits   |-> Minimal(Of(f)),
                       previous   |-> r,
                       post       |-> site.post,
                       hyphenated |-> site.hyphenated]
        fits == { f \in VeryLoose .. Tight :
                      Of(f) # {} /\ Minimal(Of(f)) <= ceiling }
    IN  [k \in 1 .. Cardinality(fits) |-> New(InOrder(fits)[k])]

\* The records and the active list once each run has been weighed: behind what
\* stays of a run stand the records made for it.
Joined(runs, weighed, made) ==
    LET before(k) == Sum(LAMBDA j : Len(made[j]), 1, k - 1) + Len(records)
        Kept(run) == SelectSeq(InOrder(run), LAMBDA s : weighed[s].stays)
        New(k)    == [i \in DOMAIN made[k] |-> before(k) + i]
    IN  [records |-> records \o FlattenSeq(made),
         active  |-> FlattenSeq([k \in DOMAIN runs |->
                        [i \in DOMAIN Kept(runs[k]) |-> active[Kept(runs[k])[i]]]
                            \o New(k)])]

TriedAlong(runs, weighed, p, site) ==
    Joined(runs, weighed,
           [k \in DOMAIN runs |-> Made(runs[k], weighed, p, site)])

\* try_break_at: the records and the active list it leaves.
Tried(p, site) ==
    TriedAlong(Runs, AfterRescue([s \in DOMAIN active |-> Weighed(s, p, site)]),
               p, site)

TryBreak(p, site) ==
    IF site.penalty >= InfinitePenalty \/ active = <<>>
    THEN UNCHANGED << records, active >>
    ELSE \E tried \in {Tried(p, site)} :
            records' = tried.records /\ active' = tried.active

-----------------------------------------------------------------------------
(* The passes. *)

Walking == phase = "passing" /\ at <= Len(items)

StartPass(k, list) ==
    /\ pass' = k
    /\ items' = list
    /\ at' = 1
    /\ afterBox' = FALSE
    /\ automatic' = TRUE
    /\ records' = <<Start(set.prevGraf)>>
    /\ active' = <<1>>

\* What hyphenation makes of the list: words divided by a discretionary.
Hyphenated(list) ==
    FlattenSeq([i \in DOMAIN list |->
        IF list[i].kind = "box" /\ list[i].hyphen > 0
        THEN << Box(list[i].hyphen), Disc(<<set.hyphenWidth>>, <<>>, 0),
                Box(list[i].width - list[i].hyphen) >>
        ELSE <<list[i]>>])

\* The paragraph ends: trailing glue gives way to \parfillskip and a penalty.
FinishParagraph ==
    /\ phase = "open"
    /\ IF items = <<>>
       THEN /\ phase' = "done"
            /\ UNCHANGED << pass, items, at, afterBox, automatic, records,
                            active >>
       ELSE LET body == IF Last(items).kind = "glue" THEN Front(items) ELSE items
                list == body \o << Penalty(InfinitePenalty), set.parfillskip >>
            IN  /\ phase' = "passing"
                /\ IF set.pretolerance >= 0 THEN StartPass(1, list)
                   ELSE StartPass(2, Hyphenated(list))
    /\ UNCHANGED << set, chain, vlist >>

\* One item is passed, and the line may end there.  What a discretionary
\* replaces is stepped over.
Visit ==
    /\ Walking
    /\ LET node == items[at]
           auto == IF node.kind = "math" THEN node.after ELSE automatic
       IN  /\ IF LegalAt(at, afterBox, auto) THEN TryBreak(at, SiteAt(at))
              ELSE UNCHANGED << records, active >>
           /\ at' = IF node.kind = "disc"
                    THEN Min({at + 1 + node.replaces, Len(items) + 1})
                    ELSE at + 1
           /\ afterBox' = PrecedesGlueBreak(node)
           /\ automatic' = auto
    /\ UNCHANGED << phase, set, items, pass, chain, vlist >>

\* The cheapest end of the paragraph, or the one whose length comes nearest
\* to what \looseness asks for; and by how many lines it differs.
Chosen(recs, act) ==
    LET ends     == { s \in DOMAIN act : recs[act[s]].at = Len(items) + 1 }
        Cost(s)  == recs[act[s]].demerits
        First(S) == Min({ s \in S : \A t \in S : Cost(s) <= Cost(t) })
        More(s)  == recs[act[s]].line - recs[act[First(ends)]].line
        wanted   == { s \in ends : \/ More(s) \in 0 .. set.looseness
                                   \/ More(s) \in set.looseness .. 0 }
        Nearest(S) == { s \in S : \A t \in S : Max({More(s), -More(s)})
                                                 >= Max({More(t), -More(t)}) }
        best     == First(Nearest(wanted))
    IN  IF ends = {} THEN [record |-> 0, more |-> 0]
        ELSE [record |-> act[best], more |-> More(best)]

ChainTo(recs, r) ==
    LET c[i \in DOMAIN recs] ==
            IF recs[i].previous = 0 THEN <<i>> ELSE Append(c[recs[i].previous], i)
    IN  c[r]

\* No way was found: the next pass hyphenates, the one after stretches.
NextPass ==
    /\ CASE pass = 1 ->
              StartPass(2, Hyphenated(items)) /\ phase' = phase
         [] pass = 2 /\ set.emergency > 0 ->
              StartPass(3, items) /\ phase' = phase
         [] OTHER ->
              /\ phase' = "failed"
              /\ UNCHANGED << pass, items, at, afterBox, automatic, records,
                              active >>
    /\ UNCHANGED chain

EndPass ==
    /\ phase = "passing" /\ at = Len(items) + 1
    /\ \E tried \in {IF active = <<>>
                     THEN [records |-> records, active |-> active]
                     ELSE Tried(at, SiteAt(at))} :
       \E chosen \in {Chosen(tried.records, tried.active)} :
          IF \/ chosen.record = 0
             \/ /\ set.looseness # 0 /\ chosen.more # set.looseness
                /\ ~FinalPass
          THEN NextPass
          ELSE /\ phase' = "lines"
               /\ records' = tried.records
               /\ active' = tried.active
               /\ chain' = ChainTo(tried.records, chosen.record)
               /\ UNCHANGED << pass, items, at, afterBox, automatic >>
    /\ UNCHANGED << set, vlist >>

-----------------------------------------------------------------------------
(* The lines. *)

Piece(part, p)   == [part |-> part, at |-> p]
LineCount        == Len(chain) - 1
LinesOut         == Cardinality({ i \in DOMAIN vlist : vlist[i].kind = "line" })
Migrates(p)      == items[p].kind = "mark"

Positions(from, to) == [i \in 1 .. Max({0, to - from}) |-> from + i - 1]

\* Mutant of Content: what a break puts at the start of a line is forgotten.
ContentNoPost(k) ==
    LET to == records[chain[k + 1]].at IN
    [i \in DOMAIN SelectSeq(Positions(records[chain[k]].start, to),
                            LAMBDA p : ~Migrates(p)) |->
        Piece("item", SelectSeq(Positions(records[chain[k]].start, to),
                                LAMBDA p : ~Migrates(p))[i])]

\* What is packed into line k: what the break before it put there, the items
\* up to the break that ends it, and what is kept of that break.
Content(k) ==
    LET opening == records[chain[k]]
        to      == records[chain[k + 1]].at
        stays   == SelectSeq(Positions(opening.start, to),
                             LAMBDA p : ~Migrates(p))
        kept    == to <= Len(items)
                   /\ items[to].kind \in {"disc", "kern", "math", "penalty"}
        pre     == to <= Len(items) /\ items[to].kind = "disc"
                   /\ items[to].pre # <<>>
        If(b, part, p) == IF b THEN <<Piece(part, p)>> ELSE <<>>
    IN  If(set.leftskip # set.zero, "leftskip", 0)
        \o If(opening.post # <<>>, "post", opening.at)
        \o [i \in DOMAIN stays |-> Piece("item", stays[i])]
        \o If(kept, "kept", to)
        \o If(pre, "pre", to)
        \o <<Piece("rightskip", 0)>>

PenaltyAfter(k) ==
    LET to == records[chain[k + 1]].at IN
    set.interlinePenalty
        + (IF k = 1 THEN set.clubPenalty ELSE 0)
        + (IF k + 1 = LineCount THEN set.widowPenalty ELSE 0)
        + (IF to <= Len(items) /\ items[to].kind = "disc"
           THEN set.brokenPenalty ELSE 0)

\* One line goes to the vertical list: its box, what migrates out of it, and
\* the penalty for breaking the page there.
EmitLine ==
    /\ phase = "lines"
    /\ LET k       == LinesOut + 1
           number  == records[chain[k + 1]].line
           moving  == SelectSeq(Positions(records[chain[k]].start,
                                          records[chain[k + 1]].at), Migrates)
           line    == [kind |-> "line", width |-> LineWidth(number),
                       shift |-> LineShift(number), content |-> Content(k)]
       IN  /\ vlist' = vlist \o <<line>>
                 \o [i \in DOMAIN moving |->
                       [kind |-> "migrant", at |-> moving[i]]]
                 \o (IF k < LineCount /\ PenaltyAfter(k) # 0
                     THEN <<[kind |-> "penalty", penalty |-> PenaltyAfter(k)]>>
                     ELSE <<>>)
           /\ phase' = IF k = LineCount THEN "done" ELSE phase
    /\ UNCHANGED << set, items, pass, at, afterBox, automatic, records, active,
                    chain >>

\* The shape belonged to this paragraph.
NormalParagraph ==
    /\ phase = "done"
    /\ phase' = "closed"
    /\ set' = [set EXCEPT !.looseness = 0, !.hangIndent = 0, !.hangAfter = 1,
                          !.parshape = <<>>,
                          !.prevGraf = IF chain = <<>> THEN @
                                       ELSE records[Last(chain)].line]
    /\ UNCHANGED << items, pass, at, afterBox, automatic, records, active,
                    chain, vlist >>

Init ==
    /\ phase = "open"
    /\ set \in Settings
    /\ items \in Paragraphs
    /\ pass = 0 /\ at = 0
    /\ afterBox = FALSE /\ automatic = TRUE
    /\ records = <<>> /\ active = <<>> /\ chain = <<>> /\ vlist = <<>>

Next == FinishParagraph \/ Visit \/ EndPass \/ EmitLine \/ NormalParagraph

Spec == Init /\ [][Next]_vars

-----------------------------------------------------------------------------
(* What a paragraph's lines are measured against: every way of breaking it, *)
(* without active lists, fitness classes or line classes.                   *)

Visited(p) == \A q \in 1 .. p - 1 :
                 items[q].kind = "disc" => q + items[q].replaces < p

Places ==
    { p \in DOMAIN items :
        LET earlier == { q \in 1 .. p - 1 : Visited(q) }
            fences  == { q \in earlier \cup {p} : items[q].kind = "math" }
        IN  /\ Visited(p)
            /\ LegalAt(p, earlier # {} /\ PrecedesGlueBreak(items[Max(earlier)]),
                       fences = {} \/ items[Max(fences)].after)
            /\ SiteAt(p).penalty < InfinitePenalty }

\* A line may not run over a forced break, or past a break it is already too
\* long for: the breaker gives its start up there.
RunsTo(r, p, places) ==
    /\ Fit(r, p, SiteAt(p)).badness <= Threshold
    /\ \A q \in places : r.at < q /\ q < p =>
          /\ SiteAt(q).penalty > Eject
          /\ Fit(r, q, SiteAt(q)).badness <= InfiniteBadness

\* A line from the break r records to p.
NextLine(r, p, site, fit) ==
    [at |-> p, start |-> site.start, line |-> r.line + 1, fitness |-> fit.fitness,
     previous |-> 0, demerits |-> r.demerits + LineDemerits(r, p, site, fit),
     post |-> site.post, hyphenated |-> site.hyphenated]

LineOn(way, p, site, places) ==
    [last     |-> NextLine(way.last, p, site, Fit(way.last, p, site)),
     possible |-> way.possible /\ RunsTo(way.last, p, places)]

\* Where breaking at these places leads: the last break, with the demerits of
\* all lines; "possible" says whether every line is.
Way(path, places) ==
    LET w[k \in 0 .. Len(path)] ==
          IF k = 0 THEN [last |-> Start(set.prevGraf), possible |-> TRUE]
          ELSE LineOn(w[k - 1], path[k], SiteAt(path[k]), places)
    IN  w[Len(path)]

PathOf(S) == Append(InOrder(S), Len(items) + 1)

Off(w, line) == w.last.line - line
Meets(w, line) == \/ Off(w, line) \in 0 .. set.looseness
                  \/ Off(w, line) \in set.looseness .. 0
Distance(w, line) == Max({Off(w, line), -Off(w, line)})

\* A way that is as long as it should be, against the length of a cheapest one.
Good(w, line, ways) ==
    /\ Meets(w, line)
    /\ \A v \in ways : Meets(v, line) =>
          \/ Distance(v, line) < Distance(w, line)
          \/ /\ Distance(v, line) = Distance(w, line)
             /\ w.last.demerits <= v.last.demerits

\* The lengths of the cheapest ways.
CheapestLines(ways) ==
    { v.last.line : v \in { w \in ways :
                \A u \in ways : w.last.demerits <= u.last.demerits } }

ChosenAmong(ways, lengths, places) ==
    IF ways # {} /\ \/ FinalPass
                    \/ \E w \in ways, line \in lengths :
                          Off(w, line) = set.looseness
    THEN /\ phase' = "lines"
         /\ \E mine \in {Way([k \in 1 .. Len(chain') - 1 |->
                                 records'[chain'[k + 1]].at], places)} :
               mine.possible /\ \E line \in lengths : Good(mine, line, ways)
    ELSE IF FinalPass THEN phase' = "lines" ELSE pass' > pass

\* Each pass ends as the definition of good breaks asks: if the paragraph can be
\* broken at all within the pass's tolerance, the lines chosen have the least
\* total demerits of all possible ways (with \looseness: the length nearest to
\* the one asked for, and the least demerits at that length); a pass is given
\* up only if there is no such way, and the last one never is.
ChosenWell ==
    \E places \in {Places} :
    \E ways \in {{ w \in { Way(PathOf(S), places) : S \in SUBSET places } :
                      w.possible }} :
       ChosenAmong(ways, CheapestLines(ways), places)

LeastDemerits ==
    [][phase = "passing" /\ at = Len(items) + 1 => ChosenWell]_vars

\* The lines hold the paragraph: every item stands in one line, in order, or
\* behind the line it migrated out of.  Only glue, penalties, kerns and fences
\* behind a break are dropped, and where the line broke at a discretionary its
\* two texts stand around the break and what they replace is gone.
LinesHoldTheParagraph ==
    phase = "done" /\ chain # <<>> =>
        LET breaks == [k \in 1 .. LineCount |-> records[chain[k + 1]].at]
            lines  == SelectSeq(vlist, LAMBDA e : e.kind = "line")
            set_   == FlattenSeq([k \in DOMAIN lines |->
                        SelectSeq(lines[k].content, LAMBDA c : c.part = "item")])
            placed == [i \in DOMAIN set_ |-> set_[i].at]
            moved  == { i \in DOMAIN vlist : vlist[i].kind = "migrant" }
            At(b)  == b \in ToSet(breaks)
            Gone(p) == \E b \in 1 .. p : At(b) /\
                          \/ /\ items[b].kind = "disc"
                             /\ p > b /\ p <= b + items[b].replaces
                          \/ LET s == IF items[b].kind = "disc"
                                      THEN b + items[b].replaces + 1 ELSE b
                             IN /\ \A q \in s .. p : Discardable(items[q])
                                /\ ~(items[b].kind = "disc" /\ items[b].post # <<>>)
        IN  /\ \A i, j \in DOMAIN placed : i < j => placed[i] < placed[j]
            /\ \A p \in DOMAIN items :
                  \/ p \in ToSet(placed) /\ ~Migrates(p) /\ ~Gone(p)
                  \/ Migrates(p) /\ \E i \in moved : vlist[i].at = p
                  \/ p \notin ToSet(placed) /\ (At(p) \/ Gone(p))
            /\ \A i, j \in moved : i < j => vlist[i].at < vlist[j].at
            /\ \A k \in 1 .. LineCount - 1 :
                  items[breaks[k]].kind = "disc" =>
                     /\ items[breaks[k]].pre # <<>> =>
                           Piece("pre", breaks[k]) \in ToSet(lines[k].content)
                     /\ items[breaks[k]].post # <<>> =>
                           Piece("post", breaks[k]) \in ToSet(lines[k + 1].content)
=============================================================================
