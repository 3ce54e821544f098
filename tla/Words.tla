-------------------------------- MODULE Words --------------------------------
(***************************************************************************)
(* Words in src/engine.c: how characters become nodes through the font's   *)
(* ligature and kerning program, how \patterns and \hyphenation say where  *)
(* a word may be divided, and how hyphenate_paragraph puts a discretionary *)
(* at each such place, setting the parts of the word again.                *)
(*                                                                         *)
(* A font is a record: step[l, r] is what its program says of a pair, Edge *)
(* standing for what is beyond the left end of a word; bchar stands beyond *)
(* the right end, or None.  Characters are strings; upper[c] is the        *)
(* \lccode of a capital.  The text is in one font; \uchyph is positive, and *)
(* what a word is bounded by is glue, a formula, a language or the end.    *)
(***************************************************************************)
EXTENDS Integers, Sequences, FiniteSets, SequencesExt, FiniteSetsExt

CONSTANTS
    Letters,      \* characters with an \lccode
    Fonts,
    Texts,        \* what may be typed: characters, languages and the below
    Languages,
    Patterns,     \* what \patterns may say: [letters, values]
    Exceptions,   \* what \hyphenation may say: [letters, breaks]
    MaxGiven,     \* bound: patterns and exceptions given before the text
    LeftMin, RightMin

None       == "none"
Edge       == "edge"
Hyphen     == "-"
Space      == " "
NoBoundary == "|"
MathOn     == "$("
MathOff    == ")$"

PatternAssumption ==
    /\ \A p \in Patterns : p.letters # <<>> /\ Len(p.values) = Len(p.letters) + 1
    /\ \A e \in Exceptions : e.breaks \subseteq 1 .. Len(e.letters) - 1

VARIABLES
    phase,        \* preparing, typing, set, hyphenated
    font,
    text,         \* what is still to be typed
    trie,         \* by language: the values at the node each path leads to
    exceptions,   \* those given, the newest last
    settled,      \* hyphen_trie_settled: no pattern is taken any more
    dispatch,     \* the root's children, spread by character, and for when
    language,     \* \language
    current,      \* the language the paragraph was last told of
    first,        \* the language it began in
    list,         \* the horizontal list
    pending,      \* the character held back, as a run of the program
    cancelled,    \* cancel_boundary
    result,       \* the list hyphenate_paragraph makes of it
    given         \* history: the patterns given before it first ran

vars == << phase, font, text, trie, exceptions, settled, dispatch, language,
           current, first, list, pending, cancelled, result, given >>

-----------------------------------------------------------------------------
(* The ligature and kerning program. *)

Plain(c)    == [char |-> c, lig |-> FALSE, of |-> <<>>, edge |-> FALSE,
                hyphen |-> c = Hyphen]
Beyond(c)   == [Plain(c) EXCEPT !.edge = TRUE]
Char(c)     == [kind |-> "char", char |-> c]
Lig(c, of, left, right) ==
    [kind |-> "lig", char |-> c, of |-> of, left |-> left, right |-> right]
Kern(w)     == [kind |-> "kern", width |-> w]
Other(kind) == [kind |-> kind]
LanguageNode(l) == [kind |-> "language", language |-> l]
Disc(pre, post, n) ==
    [kind |-> "disc", pre |-> pre, post |-> post, replaces |-> n]

\* A run: what is being looked at, what is finished, and whether the left or
\* right end has taken part in a ligature that is still to say so.  What is
\* typed has a discretionary behind each explicit hyphen.
Run(work, typed) == [work |-> work, out |-> <<>>, left |-> FALSE,
                     right |-> FALSE, typed |-> typed]

\* font_lig_kern_from: the table walked as the pairs it answers.
Step(l, r) ==
    LET pair == << IF l.edge THEN Edge ELSE l.char, r.char >>
    IN  IF pair \in DOMAIN font.step THEN font.step[pair] ELSE [kind |-> None]

NothingAfter(work, i) == \A j \in i + 1 .. Len(work) : work[j].edge

MadeOf(item) == IF item.edge THEN <<>>
                ELSE IF item.lig THEN item.of ELSE <<item.char>>

\* An item joins the list: an end of the word does not, and the first ligature
\* after an end took part wears its mark.
Emitted(run, item, last) ==
    LET marked == item.lig /\ run.right /\ last
        node   == IF item.lig THEN Lig(item.char, item.of, run.left, marked)
                  ELSE Char(item.char)
        behind == IF item.hyphen /\ run.typed THEN <<Disc(<<>>, <<>>, 0)>> ELSE <<>>
    IN  IF item.edge THEN run
        ELSE [run EXCEPT !.out = @ \o <<node>> \o behind,
                         !.left = @ /\ ~item.lig,
                         !.right = @ /\ ~marked]

Finished(run, n) ==
    LET f[i \in 0 .. n] ==
            IF i = 0 THEN run
            ELSE Emitted(f[i - 1], run.work[i], NothingAfter(run.work, i))
    IN  [f[n] EXCEPT !.work = SubSeq(run.work, n + 1, Len(run.work))]

\* What an operation makes of the first two items.
Joined(run, step) ==
    LET l     == run.work[1]
        r     == run.work[2]
        of    == (IF step.keepLeft THEN <<>> ELSE MadeOf(l))
                 \o (IF step.keepRight THEN <<>> ELSE MadeOf(r))
        made  == [char |-> step.char, lig |-> TRUE, of |-> of, edge |-> FALSE,
                  hyphen |-> IF step.keepRight THEN l.hyphen ELSE r.hyphen]
        built == (IF step.keepLeft THEN <<l>> ELSE <<>>) \o <<made>>
                 \o (IF step.keepRight THEN <<r>> ELSE <<>>)
    IN  [run EXCEPT !.work = built \o SubSeq(@, 3, Len(@)),
                    !.left = @ \/ l.edge,
                    !.right = @ \/ r.edge]

WrittenUpTo(run, n) == Finished(run, Min({n, Len(run.work)}))

\* The first two items have met, and the program said what to do with them.
Met(run, step) ==
    IF step.kind = "lig" THEN WrittenUpTo(Joined(run, step), step.advance)
    ELSE [Finished(run, 1) EXCEPT
            !.out = IF step.kind = "kern" THEN Append(@, Kern(step.width)) ELSE @]

RECURSIVE Advance(_)
Advance(run) ==
    IF Len(run.work) < 2 THEN run
    ELSE Advance(Met(run, Step(run.work[1], run.work[2])))

Ended(run) == Finished(run, Len(run.work)).out

\* reconstitute_seeded: characters set again, from a node that stood before
\* them or the left end, to what stands beyond the right one.
Seed(node) ==
    IF node.kind = "lig"
    THEN [char |-> node.char, lig |-> TRUE, of |-> node.of, edge |-> FALSE,
          hyphen |-> FALSE, left |-> node.left]
    ELSE [char |-> node.char, lig |-> FALSE, of |-> <<>>, edge |-> FALSE,
          hyphen |-> FALSE, left |-> FALSE]

Reconstituted(seed, chars, fromLeft, beyond) ==
    LET start == IF seed # <<>> THEN [Run(seed, FALSE) EXCEPT !.left = seed[1].left]
                 ELSE IF fromLeft /\ font.leftProgram
                 THEN Run(<<Beyond(Edge)>>, FALSE) ELSE Run(<<>>, FALSE)
        items == [i \in DOMAIN chars |-> Plain(chars[i])]
                 \o (IF beyond = None THEN <<>> ELSE <<Beyond(beyond)>>)
        take[i \in 0 .. Len(items)] ==
            IF i = 0 THEN start
            ELSE \* each character meets the program as it comes
                 LET before == take[i - 1]
                 IN  Advance([before EXCEPT !.work = Append(@, items[i])])
    IN  Ended(take[Len(items)])

FontEdge  == font.bchar     \* what the font puts beyond a word's right end
HasHyphen == Hyphen \notin font.lacks

-----------------------------------------------------------------------------
(* Where a word may be divided. *)

Nodes == UNION { { <<l, path>> : path \in DOMAIN trie[l] } : l \in Languages }

PathsTo(w) == { SubSeq(w, 1, n) : n \in 1 .. Len(w) }

RootChildren(l) == { path[1] : path \in DOMAIN trie[l] }

\* Mutant of DispatchFor: the root's children are spread once for a language.
DispatchForLanguage(l) ==
    IF dispatch.language = l THEN dispatch
    ELSE [language |-> l, nodes |-> Cardinality(Nodes),
          children |-> RootChildren(l)]

\* find_hyphen_root_child: scanned once for a language and a size of the trie.
DispatchFor(l) ==
    IF dispatch.language = l /\ dispatch.nodes = Cardinality(Nodes)
    THEN dispatch
    ELSE [language |-> l, nodes |-> Cardinality(Nodes),
          children |-> RootChildren(l)]

Minima(breaks, length) ==
    { b \in breaks : b >= LeftMin /\ length - b >= RightMin }

\* hstex_engine_hyphenate_word: the positions in a word it may be broken at.
HyphenateWord(l, word) ==
    LET known == { i \in DOMAIN exceptions : /\ exceptions[i].language = l
                                             /\ exceptions[i].letters = word }
        dotted == <<".">> \o word \o <<".">>
        \* The nodes on the walk from each place, as far as it goes.
        Walk(s) == { c \in s .. Len(dotted) :
                       /\ dotted[s] \in DispatchFor(l).children
                       /\ \A d \in s .. c :
                             SubSeq(dotted, s, d) \in DOMAIN trie[l] }
        At(s, c) == trie[l][SubSeq(dotted, s, c)]
        \* Score p is of the place in front of dotted[p].
        Score(p) == Max({0} \cup { At(s, c)[p - s + 1] :
                        <<s, c>> \in { sc \in (1 .. Len(dotted)) \X (1 .. Len(dotted)) :
                            /\ sc[1] <= p
                            /\ sc[2] \in Walk(sc[1])
                            /\ p - sc[1] + 1 \in DOMAIN At(sc[1], sc[2]) } })
    IN  Minima(IF known # {} THEN exceptions[Max(known)].breaks
               ELSE { b \in 1 .. Len(word) - 1 : Score(b + 2) % 2 = 1 },
               Len(word))

-----------------------------------------------------------------------------
(* Finding a word and dividing it. *)

Lower(c) == IF c \in DOMAIN font.upper THEN font.upper[c] ELSE c
IsLetter(c) == c \in Letters \/ c \in DOMAIN font.upper

LettersOf(node) == CASE node.kind = "char" -> <<node.char>>
                     [] node.kind = "lig"  -> node.of
                     [] OTHER              -> <<>>

AllLetters(nodes) == FlattenSeq([i \in DOMAIN nodes |-> LettersOf(nodes[i])])

StartsWord(node) == /\ node.kind \in {"char", "lig"} /\ LettersOf(node) # <<>>
                    /\ IsLetter(LettersOf(node)[1])

InWord(node) == /\ node.kind \in {"char", "lig"}
                /\ \A i \in DOMAIN LettersOf(node) : IsLetter(LettersOf(node)[i])

NoWord == [letters |-> <<>>, pos |-> <<>>, end |-> 0, beyond |-> None]

\* read_hyphenatable_word: the word at or behind a place.
ReadWord(items, from) ==
    LET n == Len(items)
        starts == { i \in from .. n : StartsWord(items[i]) }
        begin  == Min(starts)
        within == { e \in begin .. n : \A i \in begin .. e :
                      InWord(items[i]) \/ items[i].kind = "kern" }
        end    == Max(within) + 1
        spots  == [i \in begin .. end - 1 |-> LettersOf(items[i])]
        pos    == FlattenSeq([k \in 1 .. end - begin |->
                     [j \in DOMAIN spots[begin + k - 1] |-> begin + k - 1]])
        last   == items[end - 1]
        rest   == { i \in end .. n : items[i].kind \notin {"char", "lig", "kern"} }
        beyond == IF end <= n /\ items[end].kind \in {"char", "lig"}
                  THEN IF LettersOf(items[end]) # <<>> THEN LettersOf(items[end])[1]
                       ELSE items[end].char
                  ELSE IF last.kind = "kern" \/ (last.kind = "lig" /\ last.right)
                       THEN FontEdge ELSE None
    IN  IF \/ starts = {}
           \/ \E i \in from .. begin - 1 :
                 items[i].kind \notin {"char", "lig", "kern", "language"}
           \/ begin \notin within
           \/ Len(pos) < 2
           \/ rest # {} /\ items[Min(rest)].kind \notin {"glue", "language"}
        THEN NoWord
        ELSE [letters |-> AllLetters(SubSeq(items, begin, end - 1)),
              pos |-> pos, end |-> end, beyond |-> beyond]

InFront(items, start) ==
    IF start > 1 /\ items[start - 1].kind \in {"char", "lig"}
    THEN <<Seed(items[start - 1])>> ELSE <<>>

MeetsLeft(items, start) == items[start].kind = "lig" /\ items[start].left

\* rebuild_word_before_breaking: the word set again from its letters.
Rebuilt(items, word) ==
    LET start == word.pos[1]
        seed  == InFront(items, start)
        base  == start - Len(seed)
    IN  SubSeq(items, 1, base - 1)
        \o Reconstituted(seed, word.letters,
                         seed = <<>> /\ MeetsLeft(items, start), word.beyond)
        \o SubSeq(items, word.end, Len(items))

HyphenRun == IF HasHyphen THEN <<Hyphen>> ELSE <<>>

CommonTail(a, b) ==
    Max({ n \in 0 .. Min({Len(a), Len(b)}) :
            SubSeq(a, Len(a) - n + 1, Len(a)) = SubSeq(b, Len(b) - n + 1, Len(b)) })

LetterCount(node) == Len(LettersOf(node))
CountLetters(nodes) == Len(AllLetters(nodes))

\* The rest of a word as a line would begin with it.
Ahead(word, letter) ==
    Reconstituted(<<>>, SubSeq(word.letters, letter + 1, Len(word.letters)),
                  TRUE, word.beyond)

\* What a line begins with behind a break, as far as it differs from what
\* stands there already.
Differing(pre, ahead, old, replaces) ==
    Disc(pre, SubSeq(ahead, 1, Len(ahead) - CommonTail(ahead, old)), replaces)

\* A break between two nodes that stand together or have a kern between them.
\* It is laid down behind what was written, in front of what it replaces.
BreakBeside(items, word, at) ==
    LET i        == at.item
        previous == word.pos[at.letter]
        kerned   == previous + 2 = i
        fresh    == previous >= at.settledTo
        before   == items[previous]
        covered  == i - previous
        joined   == /\ HasHyphen /\ fresh
                    /\ Step(Plain(before.char), Plain(Hyphen)).kind # None
                    /\ Len(at.result) >= covered
                    /\ at.result[Len(at.result) - covered + 1] = before
        back     == IF joined THEN covered ELSE IF kerned /\ fresh THEN 2 ELSE 0
        run      == (IF LettersOf(before) # <<>> THEN LettersOf(before) ELSE <<before.char>>)
                    \o <<Hyphen>>
        pre      == IF ~HasHyphen THEN <<>>
                    ELSE IF joined THEN Reconstituted(<<>>, run, FALSE, FontEdge)
                    ELSE IF back = 2 THEN <<before, Char(Hyphen)>>
                    ELSE <<Char(Hyphen)>>
    IN  [at EXCEPT !.result =
            SubSeq(@, 1, Len(@) - back)
            \o <<Differing(pre, Ahead(word, at.letter), SubSeq(items, i, word.end - 1),
                          IF HasHyphen THEN back ELSE 0)>>
            \o SubSeq(items, previous, previous + back - 1)]

\* How much two runs have in common at their ends, in step: the same nodes,
\* behind as many letters, the first of which the two take from lead on.
TailInStep(ahead, unbroken, lead) ==
    LET InStep(n) ==
            LET major == Len(unbroken) - n
                minor == Len(ahead) - n
            IN  /\ LetterCount(unbroken[major + 1]) # 0
                /\ LetterCount(ahead[minor + 1]) # 0
                /\ SubSeq(ahead, minor + 1, Len(ahead))
                     = SubSeq(unbroken, major + 1, Len(unbroken))
                /\ CountLetters(SubSeq(unbroken, 1, major))
                     = lead + CountLetters(SubSeq(ahead, 1, minor))
    IN  Max({0} \cup { n \in 1 .. Min({Len(ahead), Len(unbroken)}) : InStep(n) })

\* The branch behind the break is laid down, and what of the word it settles.
LaidAcross(items, word, at, back, pre, ahead) ==
    LET tail == TailInStep(ahead, SubSeq(items, back, word.end - 1),
                           CountLetters(SubSeq(items, back, at.item - 1)))
    IN  [at EXCEPT
            !.settledItem = word.end - tail,
            !.result = SubSeq(@, 1, Len(@) - (at.item - back))
                       \o <<Disc(pre, SubSeq(ahead, 1, Len(ahead) - tail),
                                 word.end - tail - back)>>
                       \o SubSeq(items, back, at.item - 1)]

\* A break where the font's own characters stand between the two letters: both
\* branches are set, and the run ends where they are at the same letter again.
BreakAcross(items, word, at) ==
    LET previous == word.pos[at.letter]
        start    == word.pos[1]
        seed     == IF previous = start THEN InFront(items, start) ELSE <<>>
        fresh    == at.settledItem = 0 \/ previous >= at.settledItem
        mine     == { k \in 1 .. at.letter : word.pos[k] = previous }
        before   == IF fresh THEN SubSeq(word.letters, Min(mine), at.letter)
                    ELSE <<>>
    IN  LaidAcross(items, word, at, Max({ previous - Len(seed), at.settledItem }),
                   Reconstituted(seed, before \o HyphenRun,
                       seed = <<>> /\ previous = start /\ MeetsLeft(items, start),
                       FontEdge),
                   Ahead(word, at.letter))

\* How far two branches run before both have read the same letters: the nodes
\* taken of the new one, and the place reached in the old one.
RECURSIVE InStepFrom(_, _, _, _, _, _)
InStepFrom(items, word, post, minor, major, now) ==
    LET PastKerns(p) == Min({ q \in p .. word.end : q = word.end
                                 \/ LettersOf(items[q]) # <<>> })
        KernsOf(t)   == Min({ u \in t .. Len(post) : u = Len(post)
                                 \/ post[u + 1].kind # "kern" })
        stands(node) == IF node.kind = "lig" /\ node.of = <<>> THEN 1
                        ELSE LetterCount(node)
    IN  IF minor = major THEN now
        ELSE IF minor < major
        THEN IF now.taken = Len(post) THEN now
             ELSE InStepFrom(items, word, post,
                             minor + stands(post[now.taken + 1]), major,
                             [now EXCEPT !.taken = KernsOf(@ + 1)])
        ELSE IF now.item = word.end THEN now
             ELSE InStepFrom(items, word, post, minor,
                             major + LetterCount(items[now.item]),
                             [now EXCEPT !.item = PastKerns(@ + 1)])

\* The branch behind a break inside a ligature, as far as it was reached.
LaidInside(at, pre, post, reach) ==
    [at EXCEPT
        !.settledTo = reach.item,
        !.result = Append(@, Disc(pre, SubSeq(post, 1, IF reach.taken = 0 THEN Len(post)
                                                       ELSE reach.taken),
                                  reach.item - at.item))]

\* Both branches from the break to where they have read the same letters.
SetInside(items, word, at, cut, after, pre, post) ==
    LET next == Min({ q \in at.item + 1 .. word.end : q = word.end
                         \/ LettersOf(items[q]) # <<>> })
    IN  LaidInside(at, pre, post,
                   InStepFrom(items, word, post, cut, after, [taken |-> 0, item |-> next]))

\* A break inside a ligature: both parts of the word are set again.
BreakInside(items, word, at, here, inside) ==
    LET of  == items[at.item].of
        cut == at.letter + inside
    IN  IF inside >= Len(of) THEN at
        ELSE SetInside(items, word, at, cut, at.letter + here,
                 Reconstituted(<<>>, SubSeq(of, 1, inside) \o HyphenRun, FALSE, None),
                 Reconstituted(<<>>, SubSeq(word.letters, cut + 1, Len(word.letters)),
                               FALSE, None))

\* The break in front of a node, where the word may be divided there.
DividedBefore(items, word, at) ==
    LET i       == at.item
        \* The first two letters are one run, unless the left end was met.
        lost    == /\ at.letter = 1 /\ Len(word.letters) > 2
                   /\ font.leftProgram /\ ~MeetsLeft(items, word.pos[1])
        gap     == i - word.pos[at.letter]
        beside  == gap = 1 \/ (gap = 2 /\ items[i - 1].kind = "kern")
    IN  IF lost THEN [at EXCEPT !.settledItem = word.pos[3]]
        ELSE IF beside THEN BreakBeside(items, word, at)
        ELSE BreakAcross(items, word, at)

\* The first break inside a node of more letters than one.
DividedWithin(items, word, breaks, at, here) ==
    LET inside == { k \in 1 .. here - 1 : at.letter + k \in breaks }
    IN  IF inside = {} THEN at ELSE BreakInside(items, word, at, here, Min(inside))

\* One node of a word is written out, behind the discretionary of a break in
\* front of it or inside it.
RECURSIVE Divided(_, _, _, _)
Divided(items, word, breaks, at) ==
    IF at.item >= word.end THEN at
    ELSE
    LET i       == at.item
        here    == Cardinality({ k \in DOMAIN word.pos : word.pos[k] = i })
        blocked == i < at.settledTo
        allowed == here # 0 /\ at.letter \in breaks
    IN  Divided(items, word, breaks,
                [(IF blocked THEN at
                  ELSE DividedWithin(items, word, breaks,
                         IF allowed THEN DividedBefore(items, word, at) ELSE at, here))
                   EXCEPT !.result = Append(@, items[i]),
                          !.item = i + 1,
                          !.letter = @ + here])

\* The word set again, and what is read of it then.
Reread(again, from) == [items |-> again, word |-> ReadWord(again, from)]

\* A word that may be broken somewhere is set again before it is.
ToDivide(items, word, from, breaks) ==
    IF breaks = {} THEN [items |-> items, word |-> word]
    ELSE Reread(Rebuilt(items, word), from)

\* hyphenate_paragraph, from an item on: words are looked for behind glue, but
\* not within a formula.  What comes out of it: the list, and the language the
\* patterns were last asked about.
RECURSIVE HyphenatedFrom(_, _), DivideAt(_, _, _)
HyphenatedFrom(items, h) ==
    IF h.item > Len(items) THEN [list |-> h.result, asked |-> h.asked]
    ELSE
    LET node   == items[h.item]
        tongue == IF node.kind = "language" THEN node.language ELSE h.language
        onward == [h EXCEPT !.item = @ + 1, !.result = Append(@, node),
                            !.breaking = IF node.kind = "math" THEN node.after
                                         ELSE @,
                            !.language = tongue]
    IN  IF node.kind # "glue" \/ ~onward.breaking THEN HyphenatedFrom(items, onward)
        ELSE DivideAt(items, ReadWord(items, h.item + 1), onward)

\* A word behind glue, if there is one.
DivideAt(items, word, h) ==
    LET \* A language may still be told between the glue and the word.
        told   == { i \in h.item .. Len(items) :
                      /\ items[i].kind = "language"
                      /\ \A j \in h.item .. i :
                            /\ ~StartsWord(items[j])
                            /\ items[j].kind \in {"char", "lig", "kern", "language"} }
        spoken == IF told = {} THEN h.language ELSE items[Max(told)].language
        asked  == [h EXCEPT !.language = spoken, !.asked = spoken]
        Further(with, at) == HyphenatedFrom(with.items, [asked EXCEPT !.item = at.item,
                                                                      !.result = at.result])
        With(now, breaks) ==
            IF now.word = NoWord THEN HyphenatedFrom(now.items, asked)
            ELSE Further(now, Divided(now.items, now.word, breaks,
                                      [item |-> h.item, letter |-> 0, result |-> h.result,
                                       settledTo |-> 0, settledItem |-> 0]))
        Broken(breaks) == With(ToDivide(items, word, h.item, breaks), breaks)
    IN  IF word = NoWord THEN HyphenatedFrom(items, [h EXCEPT !.language = spoken])
        ELSE Broken(HyphenateWord(spoken, [k \in DOMAIN word.letters |-> Lower(word.letters[k])]))

Hyphenated ==
    HyphenatedFrom(list, [item |-> 1, language |-> first, breaking |-> TRUE,
                          result |-> <<>>, asked |-> None])

-----------------------------------------------------------------------------
(* What a document does. *)

\* \patterns: taken until a paragraph has been hyphenated, and of two with the
\* same letters the later counts.
Grown(p) ==
    [trie EXCEPT ![p.language] =
        [path \in DOMAIN @ \cup PathsTo(p.letters) |->
            IF path = p.letters THEN p.values
            ELSE IF path \in DOMAIN @ THEN @[path] ELSE <<>>]]

TakesPatterns == ~settled

GivePattern(p) ==
    /\ phase \in {"preparing", "hyphenated"}
    /\ Len(given) + Len(exceptions) < MaxGiven
    /\ trie' = IF TakesPatterns THEN Grown(p) ELSE trie
    /\ given' = IF phase = "preparing" THEN Append(given, p) ELSE given
    /\ UNCHANGED << phase, font, text, exceptions, settled, dispatch, language,
                    current, first, list, pending, cancelled, result >>

\* \hyphenation: the newest word counts, one of a single letter is not kept.
GiveException(e) ==
    /\ phase = "preparing"
    /\ Len(given) + Len(exceptions) < MaxGiven
    /\ Len(e.letters) >= 2
    /\ exceptions' = Append(exceptions, e)
    /\ UNCHANGED << phase, font, text, trie, settled, dispatch, language, current,
                    first, list, pending, cancelled, result, given >>

\* The engine may be asked about a word before a document sets one, which
\* leaves the root spread out as it is by then.
Ask(l) ==
    /\ phase = "preparing"
    /\ dispatch' = DispatchFor(l)
    /\ UNCHANGED << phase, font, text, trie, exceptions, settled, language,
                    current, first, list, pending, cancelled, result, given >>

BeginParagraph ==
    /\ phase = "preparing"
    /\ phase' = "typing"
    /\ text' \in Texts
    /\ current' = language /\ first' = language
    /\ UNCHANGED << font, trie, exceptions, settled, dispatch, language, list,
                    pending, cancelled, result, given >>

\* flush_pending_character: the word ends, and what the font has beyond its
\* right end takes part unless \noboundary said not to.
Flushed(stopped) ==
    IF pending.work = <<>> THEN <<>>
    ELSE Ended(IF stopped \/ FontEdge = None THEN pending
               ELSE Advance([pending EXCEPT !.work = Append(@, Beyond(FontEdge))]))

Idle == Run(<<>>, TRUE)

\* append_horizontal_character.  A character the font has not got ends the
\* word, without the boundary.
Type(c) ==
    LET told == IF language # current THEN <<LanguageNode(language)>> ELSE <<>>
        run  == IF pending.work # <<>> THEN pending
                ELSE IF cancelled \/ ~font.leftProgram THEN Idle
                ELSE Run(<<Beyond(Edge)>>, TRUE)
        next == Advance([run EXCEPT !.work = Append(@, Plain(c))])
        held == [next EXCEPT !.out = <<>>,
                             !.work = IF @ # <<>> /\ @[1].edge THEN <<>> ELSE @]
    IN  /\ current' = language
        /\ cancelled' = FALSE
        /\ IF c \in font.lacks
           THEN /\ list' = list \o told \o Flushed(TRUE)
                /\ pending' = Idle
           ELSE /\ list' = list \o told \o next.out
                /\ pending' = held
        /\ UNCHANGED language

\* Anything that is not a character ends the word first.
EndsWord(node) ==
    /\ list' = list \o Flushed(cancelled) \o node
    /\ pending' = Idle
    /\ cancelled' = IF pending.work = <<>> THEN cancelled ELSE FALSE

Marks == {Space, NoBoundary, MathOn, MathOff}

\* One thing the document says.
Read ==
    /\ phase = "typing" /\ text # <<>>
    /\ text' = Tail(text)
    /\ LET c == Head(text) IN
       CASE c = Space ->
              EndsWord(<<Other("glue")>>) /\ UNCHANGED << language, current >>
         [] c \in {MathOn, MathOff} ->
              /\ EndsWord(<<[kind |-> "math", after |-> c = MathOff]>>)
              /\ UNCHANGED << language, current >>
         [] c \in Languages ->
              EndsWord(<<>>) /\ language' = c /\ UNCHANGED current
         [] c = NoBoundary ->
              /\ list' = list \o Flushed(TRUE)
              /\ pending' = Idle
              /\ cancelled' = (Len(text) > 1 /\ text[2] \notin Marks \cup Languages)
              /\ UNCHANGED << language, current >>
         [] OTHER -> Type(c)
    /\ UNCHANGED << phase, font, trie, exceptions, settled, dispatch, first,
                    result, given >>

\* The paragraph ends.
EndParagraph ==
    /\ phase = "typing" /\ text = <<>>
    /\ phase' = "set"
    /\ EndsWord(<<>>)
    /\ UNCHANGED << font, text, trie, exceptions, settled, dispatch, language,
                    current, first, result, given >>

Hyphenate ==
    /\ phase \in {"set", "hyphenated"}
    /\ phase' = "hyphenated"
    /\ settled' = TRUE
    /\ \E made \in {Hyphenated} :
          /\ result' = made.list
          /\ dispatch' = IF made.asked = None THEN dispatch
                         ELSE DispatchFor(made.asked)
    /\ UNCHANGED << font, text, trie, exceptions, language, current, first, list,
                    pending, cancelled, given >>

Init ==
    /\ phase = "preparing"
    /\ font \in Fonts /\ language \in Languages
    /\ text = <<>> /\ list = <<>> /\ result = <<>>
    /\ trie = [l \in Languages |-> <<>>] /\ exceptions = <<>> /\ given = <<>>
    /\ settled = FALSE
    /\ dispatch = [language |-> None, nodes |-> 0, children |-> {}]
    /\ current = language /\ first = language
    /\ pending = Idle /\ cancelled = FALSE

Next == \/ \E p \in Patterns : GivePattern(p)
        \/ \E e \in Exceptions : GiveException(e)
        \/ \E l \in Languages : Ask(l)
        \/ BeginParagraph \/ Read \/ EndParagraph \/ Hyphenate

Spec == Init /\ [][Next]_vars

-----------------------------------------------------------------------------
(* What must be true of a hyphenated list. *)

Discs == { j \in DOMAIN result : result[j].kind = "disc" }

Unhyphened(letters) ==
    IF letters # <<>> /\ Last(letters) = Hyphen THEN Front(letters) ELSE letters

\* The letters in front of the break at a discretionary.
Before(j) == AllLetters(SubSeq(result, 1, j - 1))
             \o Unhyphened(AllLetters(result[j].pre))

\* However the paragraph is broken, its letters are all read, once and in
\* order: taking no break the list says what was set, and taking any one the
\* text before it, what is put there and the text behind what it replaces do.
LettersKept ==
    phase = "hyphenated" =>
        /\ AllLetters(result) = AllLetters(list)
        /\ \A j \in Discs :
              /\ j + result[j].replaces <= Len(result)
              /\ Before(j) \o AllLetters(result[j].post)
                   \o AllLetters(SubSeq(result, j + 1 + result[j].replaces,
                                        Len(result)))
                 = AllLetters(list)

\* Where the patterns say a word may be broken, by trying each of them at each
\* place: neither the trie nor the spread root is used.
Permitted(l, word) ==
    LET dotted == <<".">> \o word \o <<".">>
        known  == { i \in DOMAIN exceptions : exceptions[i].language = l
                                              /\ exceptions[i].letters = word }
        Counts(i) == /\ given[i].language = l
                     /\ \A j \in i + 1 .. Len(given) :
                           ~(given[j].letters = given[i].letters
                             /\ given[j].language = l)
        Says(i, p) == { given[i].values[p - s + 1] :
                          s \in { t \in Max({1, p - Len(given[i].letters)}) .. p :
                            /\ t + Len(given[i].letters) - 1 <= Len(dotted)
                            /\ SubSeq(dotted, t, t + Len(given[i].letters) - 1)
                                 = given[i].letters } }
        Level(p) == Max({0} \cup UNION { Says(i, p) :
                           i \in { j \in DOMAIN given : Counts(j) } })
    IN  { b \in 1 .. Len(word) - 1 :
            /\ b >= LeftMin /\ Len(word) - b >= RightMin
            /\ IF known # {} THEN b \in exceptions[Max(known)].breaks
               ELSE Level(b + 2) % 2 = 1 }

\* A word as a reader of the list finds it: behind glue and not in a formula,
\* with the language the list last spoke of and what it is followed by.
WordBehind(g) ==
    LET Inside(n) == n.kind \in {"char", "lig", "kern"}
        b   == Min({ i \in g + 1 .. Len(list) + 1 :
                       i > Len(list) \/ StartsWord(list[i])
                       \/ ~(Inside(list[i]) \/ list[i].kind = "language") })
        e   == Min({ i \in b .. Len(list) + 1 :
                       i > Len(list) \/ ~Inside(list[i]) })
        all == AllLetters(SubSeq(list, b, e - 1))
        n   == Max({ m \in 0 .. Len(all) : \A k \in 1 .. m : IsLetter(all[k]) })
        spoken == { i \in 1 .. b - 1 : list[i].kind = "language" }
    IN  [from     |-> Len(AllLetters(SubSeq(list, 1, b - 1))),
         letters  |-> [k \in 1 .. n |-> Lower(all[k])],
         language |-> IF spoken = {} THEN first ELSE list[Max(spoken)].language,
         broken   |-> n >= 2 /\ (e > Len(list)
                                 \/ list[e].kind \in {"glue", "language"})]

InFormula(g) ==
    LET fences == { i \in 1 .. g : list[i].kind = "math" }
    IN  fences # {} /\ ~list[Max(fences)].after

OnlyKerns == /\ ~font.leftProgram
             /\ \A pair \in DOMAIN font.step : font.step[pair].kind = "kern"

\* A word is divided only where its language's patterns or exceptions and the
\* minima allow it; and, where the font's program only kerns, everywhere there.
BreaksWhereAllowed ==
    phase = "hyphenated" =>
        LET words == { WordBehind(g) : g \in { i \in DOMAIN list :
                          list[i].kind = "glue" /\ ~InFormula(i) } }
            allowed == UNION { { w.from + b : b \in Permitted(w.language, w.letters) } :
                                 w \in { v \in words : v.broken } }
            taken == { Len(Before(j)) :
                         j \in { k \in Discs : result[k].pre # <<>> \/ ~HasHyphen } }
        IN  /\ taken \subseteq allowed
            /\ OnlyKerns /\ HasHyphen => taken = allowed
=============================================================================
