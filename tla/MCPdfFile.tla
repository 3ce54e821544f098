---------------------------- MODULE MCPdfFile --------------------------------
(* Documents for PdfFile, in families: what one page's commands do to each
   other in any order, and the trees at sizes past their nodes' capacity. *)
EXTENDS PdfFile

Do(what)        == [do |-> what]
Object(s, now)  == [do |-> "object", stream |-> s, now |-> now]
Use(k, now)     == [do |-> "use", nth |-> k, stream |-> FALSE, now |-> now]
To_(to, key, s) == [to |-> to, key |-> key, structured |-> s]
OpenWith(a)     == [do |-> "open", action |-> a]
OutlineOf(a, n) == [do |-> "outline", action |-> a, count |-> n]
LinkTo(a)       == [do |-> "link", action |-> a]
Dest(id)        == [do |-> "dest", id |-> id]
Char(f, mapped) == [do |-> "char", font |-> f, mapped |-> mapped]
RefTo(k)        == [do |-> "pageref", page |-> k]
Shipped         == [do |-> "ship", copy |-> FALSE]

ByName(k)   == Id(TRUE, k, FALSE)
ByNumber(k) == Id(FALSE, k, FALSE)
Structure   == Id(TRUE, 1, TRUE)

Aims == {To_("page", 2, FALSE), To_("number", 1, TRUE), To_("name", 1, FALSE)}

\* What the objects of the document's own do, before and after the page.
OwnObjects == { Do("reserve"), Object(TRUE, TRUE), Object(FALSE, FALSE), Use(1, TRUE), Use(1, FALSE),
                Shipped, Do("form"), RefTo(2) }

\* What a page carries.
Carries == { LinkTo(To_("name", 1, FALSE)), LinkTo(To_("page", 2, FALSE)), Do("endlink"), Do("line"),
             Do("annot"), Dest(ByName(1)), Shipped, Do("throw") }

\* What points at what.
Points == {OpenWith(a) : a \in Aims} \cup {LinkTo(To_("number", 1, TRUE)), Dest(ByNumber(1)),
             Dest(Structure), RefTo(1), Shipped}

Letters == {Char(f, TRUE) : f \in 1 .. 4} \cup {Char(2, FALSE), Char(5, FALSE), Shipped}

Sequences(alphabet, n) == UNION {[1 .. k -> alphabet] : k \in 0 .. n}

Once(d) == \A i, j \in DOMAIN d : d[i].do = "dest" /\ d[j] = d[i] => i = j

Short == {d \o <<Shipped>> : d \in Sequences(OwnObjects, 3) \cup Sequences(Carries, 4)
                                   \cup Sequences(Points, 3) \cup Sequences(Letters, 3)}

Repeat(command, n) == [i \in 1 .. n |-> command]

Pages   == {<<RefTo(k)>> \o Repeat(Shipped, n) : k \in {1, 4}, n \in 0 .. 9}
Names   == {[i \in 1 .. n |-> Dest(ByName((i * 4) % 11))] \o <<Shipped>> : n \in 0 .. 10}
Counts  == {[i \in DOMAIN c |-> OutlineOf(To_("user", 0, FALSE), c[i])] \o <<Shipped>>
            : c \in Sequences(-2 .. 2, 3) \cup {<<a, b, c, d>> : a, b \in {-2, 1, 2}, c, d \in {-1, 0, 1}}}

\* A document whose second half another process reads, from a checkpoint of the first.
Halves == {<<Char(2, TRUE), LinkTo(To_("name", 1, FALSE)), Object(FALSE, FALSE)>>,
           <<Char(2, TRUE), Dest(ByName(1)), Shipped>>,
           <<Char(3, TRUE), Shipped, Char(2, TRUE)>>,
           <<OutlineOf(To_("page", 2, FALSE), 1), Shipped>>}
Resumed == {a \o <<Do("resume")>> \o b \o <<Shipped>> : a, b \in Halves}

Of(level, commands) == [level |-> level, commands |-> commands]

MCDocuments ==
    {Of(l, d) : l \in {0, 1}, d \in {e \in Short : Once(e)} \cup Pages \cup Names \cup Counts}
    \cup {Of(0, d) : d \in {e \in Resumed : Once(e)}}

MCFonts ==
    <<[name |-> 2, program |-> 1, encoding |-> 0, cmap |-> "none", glyphs |-> 0],
      [name |-> 1, program |-> 2, encoding |-> 1, cmap |-> "t1",   glyphs |-> 0],
      [name |-> 3, program |-> 2, encoding |-> 1, cmap |-> "ot1",  glyphs |-> 0],
      [name |-> 3, program |-> 0, encoding |-> 0, cmap |-> "none", glyphs |-> 2],
      [name |-> 4, program |-> 3, encoding |-> 2, cmap |-> "custom", glyphs |-> 0]>>
=============================================================================
