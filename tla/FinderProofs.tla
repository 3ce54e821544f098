---------------------------- MODULE FinderProofs ----------------------------
(***************************************************************************)
(* Proofs about Finder: whoever answers a question, the answer is the one  *)
(* the search tool would give if it were asked afresh.  What is known of   *)
(* the installation, FinderAssumption, is a hypothesis of each theorem.    *)
(***************************************************************************)
EXTENDS Finder, WellFoundedInduction, SequenceTheorems, TLAPS

-----------------------------------------------------------------------------
(* The first answer of a sequence.                                         *)

\* A set of numbers that is not empty has a least one.
LEMMA LeastNumber ==
  ASSUME NEW S, S \subseteq Nat, S # {}
  PROVE  \E x \in S : \A y \in S : x <= y
<1> DEFINE R == OpToRel(<, Nat)
<1>1. IsWellFoundedOn(R, Nat)
  BY NatLessThanWellFounded
<1>2. PICK x \in S : \A y \in S : ~(<<y, x>> \in R)
  <2> HIDE DEF R
  <2> QED BY <1>1, WFMin
<1>3. \A y \in S : y \in Nat /\ ~(y < x)
  BY <1>2 DEF OpToRel
<1>4. \A y \in S : x <= y
  <2> SUFFICES ASSUME NEW y \in S PROVE x <= y
    OBVIOUS
  <2>1. x \in Nat /\ y \in Nat /\ ~(y < x)
    BY <1>2, <1>3
  <2> QED BY <2>1
<1> QED
  BY <1>2, <1>4

IsFirst(answers, i) ==
  /\ i \in DOMAIN answers /\ answers[i] # Nowhere
  /\ \A j \in 1 .. i - 1 : answers[j] = Nowhere

LEMMA FirstFoundIs ==
  ASSUME NEW n \in Nat, NEW a, DOMAIN a = 1 .. n
  PROVE  \/ FirstFound(a) = Nowhere /\ \A i \in 1 .. n : a[i] = Nowhere
         \/ \E i \in 1 .. n : IsFirst(a, i) /\ FirstFound(a) = a[i]
<1>1. CASE \A i \in 1 .. n : a[i] = Nowhere
  BY <1>1 DEF FirstFound
<1>2. CASE ~ \A i \in 1 .. n : a[i] = Nowhere
  <2> DEFINE S == {i \in 1 .. n : a[i] # Nowhere}
             c == CHOOSE i \in DOMAIN a : a[i] # Nowhere /\ \A j \in 1 .. i - 1 : a[j] = Nowhere
  <2>1. PICK x \in S : \A y \in S : x <= y
    <3>1. S \subseteq Nat /\ S # {}
      BY <1>2
    <3> HIDE DEF S
    <3> QED BY <3>1, LeastNumber
  <2>2. \A j \in 1 .. x - 1 : a[j] = Nowhere
    BY <2>1
  <2>3. x \in DOMAIN a /\ a[x] # Nowhere
    BY <2>1
  <2>4. IsFirst(a, c)
    BY <2>2, <2>3 DEF IsFirst
  <2>5. FirstFound(a) = a[c]
    BY <1>2 DEF FirstFound
  <2> HIDE DEF c
  <2> QED
    BY <2>4, <2>5 DEF IsFirst
<1> QED
  BY <1>1, <1>2

LEMMA FirstIsFound ==
  ASSUME NEW n \in Nat, NEW a, DOMAIN a = 1 .. n, NEW i, IsFirst(a, i)
  PROVE  FirstFound(a) = a[i]
<1>1. PICK k \in 1 .. n : IsFirst(a, k) /\ FirstFound(a) = a[k]
  BY FirstFoundIs DEF IsFirst
<1>2. i \in 1 .. n /\ k \in 1 .. n /\ ~(i < k) /\ ~(k < i)
  BY <1>1 DEF IsFirst
<1>3. i = k
  BY <1>2
<1> QED
  BY <1>1, <1>3

\* Two sequences that differ only where the first is in doubt have the same
\* first answer, unless that is the doubt.
LEMMA DoubtOrSame ==
  ASSUME NEW n \in Nat, NEW a, NEW b, DOMAIN a = 1 .. n, DOMAIN b = 1 .. n,
         Doubt # Nowhere, \A i \in 1 .. n : a[i] = b[i] \/ a[i] = Doubt
  PROVE  FirstFound(a) = FirstFound(b) \/ FirstFound(a) = Doubt
<1>1. CASE FirstFound(a) = Nowhere /\ \A i \in 1 .. n : a[i] = Nowhere
  <2>1. \A i \in 1 .. n : b[i] = Nowhere
    BY <1>1
  <2> QED
    BY <1>1, <2>1 DEF FirstFound
<1>2. ASSUME NEW i \in 1 .. n, IsFirst(a, i), FirstFound(a) = a[i]
      PROVE  FirstFound(a) = FirstFound(b) \/ FirstFound(a) = Doubt
  <2>1. CASE a[i] = Doubt
    BY <1>2, <2>1
  <2>2. CASE a[i] # Doubt
    <3>1. b[i] = a[i] /\ \A j \in 1 .. i - 1 : b[j] = Nowhere
      BY <1>2, <2>2 DEF IsFirst
    <3>2. IsFirst(b, i)
      BY <1>2, <3>1 DEF IsFirst
    <3>3. FirstFound(b) = b[i]
      BY <3>2, FirstIsFound
    <3> QED
      BY <1>2, <3>1, <3>3
  <2> QED
    BY <2>1, <2>2
<1> QED
  BY <1>1, <1>2, FirstFoundIs

\* The first of three.
LEMMA FirstOfThree ==
  ASSUME NEW x, NEW y, NEW z
  PROVE  FirstFound(<<x, y, z>>) = IF x # Nowhere THEN x ELSE IF y # Nowhere THEN y ELSE z
<1> DEFINE a == <<x, y, z>>
<1>1. DOMAIN a = 1 .. 3 /\ a[1] = x /\ a[2] = y /\ a[3] = z
  OBVIOUS
<1> HIDE DEF a
<1>2. CASE FirstFound(a) = Nowhere /\ \A i \in 1 .. 3 : a[i] = Nowhere
  <2>1. a[1] = Nowhere /\ a[2] = Nowhere /\ a[3] = Nowhere
    BY <1>2
  <2> QED BY <1>1, <1>2, <2>1 DEF a
<1>3. ASSUME NEW i \in 1 .. 3, IsFirst(a, i), FirstFound(a) = a[i]
      PROVE  FirstFound(a) = IF x # Nowhere THEN x ELSE IF y # Nowhere THEN y ELSE z
  <2>1. /\ 1 \in 1 .. i - 1 => x = Nowhere
        /\ 2 \in 1 .. i - 1 => y = Nowhere
        /\ a[i] # Nowhere
    BY <1>1, <1>3 DEF IsFirst
  <2>2. i = 1 \/ i = 2 \/ i = 3
    BY <1>3
  <2> QED
    BY <1>1, <1>3, <2>1, <2>2
<1>4. FirstFound(a) = IF x # Nowhere THEN x ELSE IF y # Nowhere THEN y ELSE z
  BY <1>1, <1>2, <1>3, FirstFoundIs DEF a
<1> QED
  BY <1>4 DEF a

-----------------------------------------------------------------------------
(* What the tool finds.                                                    *)

\* What is known of one element of the path.
LEMMA ElementIs ==
  ASSUME PathAssumption, NEW i \in DOMAIN SearchPath
  PROVE  \E m \in Nat \ {0} :
           /\ DOMAIN SearchPath[i].dirs = 1 .. m
           /\ ToSet(SearchPath[i].dirs) = {SearchPath[i].dirs[k] : k \in 1 .. m}
           /\ \A k \in 1 .. m : SearchPath[i].dirs[k] \in Directories
           /\ Head(SearchPath[i].dirs) = SearchPath[i].dirs[1]
<1> DEFINE dirs == SearchPath[i].dirs
<1>1. dirs \in Seq(ToSet(dirs)) /\ dirs # <<>>
  BY DEF PathAssumption
<1>2. ToSet(dirs) \subseteq Directories
  BY DEF Directories
<1>3. ToSet(dirs) = {dirs[k] : k \in DOMAIN dirs}
  BY DEF ToSet
<1> HIDE DEF dirs
<1>4. /\ Len(dirs) \in Nat \ {0} /\ DOMAIN dirs = 1 .. Len(dirs)
      /\ Head(dirs) = dirs[1]
  BY <1>1
<1>5. \A k \in 1 .. Len(dirs) : dirs[k] \in Directories
  BY <1>2, <1>3, <1>4
<1> QED
  BY <1>3, <1>4, <1>5 DEF dirs

Copied(dir, element, name, world) ==
  <<dir, name>> \in world.disk /\ (element.kind = "listed" => <<dir, name>> \in world.lists)

\* What an element's copies of a name are tried as.
Tried(element, name, world) ==
  [i \in DOMAIN element.dirs |->
     IF Copied(element.dirs[i], element, name, world) THEN <<element.dirs[i], name>> ELSE Nowhere]

LEMMA CopyTries ==
  ASSUME NEW element, NEW name, NEW world
  PROVE  Copy(element, name, world) = FirstFound(Tried(element, name, world))
BY DEF Copy, Tried, Copied

\* An element's copy stands under it, and stands there where one does.
LEMMA CopyIs ==
  ASSUME NamesAssumption, PathAssumption, NEW i \in DOMAIN SearchPath, NEW name, NEW world
  PROVE  LET dirs == SearchPath[i].dirs
             copy == Copy(SearchPath[i], name, world)
         IN  \/ /\ copy = Nowhere
                /\ \A d \in ToSet(dirs) : ~Copied(d, SearchPath[i], name, world)
             \/ /\ copy # Nowhere
                /\ \E d \in ToSet(dirs) :
                     copy = <<d, name>> /\ d \in Directories
                     /\ Copied(d, SearchPath[i], name, world)
<1> DEFINE e == SearchPath[i]
           t == Tried(e, name, world)
<1>1. PICK m \in Nat \ {0} :
           /\ DOMAIN e.dirs = 1 .. m
           /\ ToSet(e.dirs) = {e.dirs[k] : k \in 1 .. m}
           /\ \A k \in 1 .. m : e.dirs[k] \in Directories
  BY ElementIs
<1>2. DOMAIN t = 1 .. m
  BY <1>1 DEF Tried
<1>3. \A k \in 1 .. m : t[k] = IF Copied(e.dirs[k], e, name, world) THEN <<e.dirs[k], name>> ELSE Nowhere
  BY <1>1 DEF Tried
<1>4. \A k \in 1 .. m : <<e.dirs[k], name>> # Nowhere
  <2> SUFFICES ASSUME NEW k \in 1 .. m, <<e.dirs[k], name>> = Nowhere PROVE FALSE
    OBVIOUS
  <2>1. Nowhere[1] = e.dirs[k]
    <3>1. <<e.dirs[k], name>>[1] = e.dirs[k]
      OBVIOUS
    <3> QED BY <3>1
  <2> QED
    BY <1>1, <2>1 DEF NamesAssumption
<1>5. Copy(e, name, world) = FirstFound(t)
  BY CopyTries
<1> HIDE DEF e, t
<1>6. CASE FirstFound(t) = Nowhere /\ \A k \in 1 .. m : t[k] = Nowhere
  BY <1>1, <1>3, <1>4, <1>5, <1>6 DEF e
<1>7. ASSUME NEW k \in 1 .. m, IsFirst(t, k), FirstFound(t) = t[k]
      PROVE  /\ Copy(e, name, world) # Nowhere
             /\ \E d \in ToSet(e.dirs) :
                  Copy(e, name, world) = <<d, name>> /\ d \in Directories /\ Copied(d, e, name, world)
  BY <1>1, <1>3, <1>5, <1>7 DEF IsFirst
<1> QED
  BY <1>2, <1>6, <1>7, FirstFoundIs DEF e

\* The same copies in two worlds that are the same in the directories of the path.
Alike(u, w) ==
  /\ u.lists = w.lists
  /\ \A f \in u.disk \cup w.disk : f[1] \in Directories => (f \in u.disk <=> f \in w.disk)

LEMMA SameFind ==
  ASSUME PathAssumption, NEW name, NEW u, NEW w, Alike(u, w)
  PROVE  Find(name, u) = Find(name, w)
<1>1. ASSUME NEW i \in DOMAIN SearchPath, NEW x
      PROVE  Copy(SearchPath[i], x, u) = Copy(SearchPath[i], x, w)
  <2> DEFINE e == SearchPath[i]
  <2>1. \A k \in DOMAIN e.dirs : e.dirs[k] \in Directories
    BY ElementIs
  <2>2. \A k \in DOMAIN e.dirs : <<e.dirs[k], x>>[1] = e.dirs[k]
    OBVIOUS
  <2>3. \A k \in DOMAIN e.dirs : Copied(e.dirs[k], e, x, u) <=> Copied(e.dirs[k], e, x, w)
    BY <2>1, <2>2 DEF Copied, Alike
  <2>4. Tried(e, x, u) = Tried(e, x, w)
    BY <2>3 DEF Tried
  <2> QED
    BY <2>4, CopyTries
<1>2. ASSUME NEW i \in DOMAIN SearchPath
      PROVE  FindIn(SearchPath[i], name, u) = FindIn(SearchPath[i], name, w)
  BY <1>1 DEF FindIn
<1> QED
  BY <1>2 DEF Find

\* What an element is found to hold is one of its copies.
LEMMA FindInIs ==
  ASSUME NamesAssumption, PathAssumption, NEW n \in NamesTried,
         NEW i \in DOMAIN SearchPath, NEW world
  PROVE  \/ /\ FindIn(SearchPath[i], n, world) = Nowhere
            /\ \A x \in ToSet(Suffixed(n)) : Copy(SearchPath[i], x, world) = Nowhere
         \/ /\ FindIn(SearchPath[i], n, world) # Nowhere
            /\ \E x \in ToSet(Suffixed(n)) : FindIn(SearchPath[i], n, world) = Copy(SearchPath[i], x, world)
<1> DEFINE q == Suffixed(n)
           a == [j \in DOMAIN q |-> Copy(SearchPath[i], q[j], world)]
<1>1. Len(q) \in Nat /\ DOMAIN q = 1 .. Len(q)
  BY DEF NamesAssumption
<1>2. FindIn(SearchPath[i], n, world) = FirstFound(a)
  BY DEF FindIn
<1>3. ToSet(q) = {q[j] : j \in 1 .. Len(q)}
  BY <1>1 DEF ToSet
<1>4. DOMAIN a = 1 .. Len(q) /\ \A j \in 1 .. Len(q) : a[j] = Copy(SearchPath[i], q[j], world)
  BY <1>1
<1> HIDE DEF q, a
<1>5. CASE FirstFound(a) = Nowhere /\ \A j \in 1 .. Len(q) : a[j] = Nowhere
  BY <1>2, <1>3, <1>4, <1>5 DEF q
<1>6. ASSUME NEW j \in 1 .. Len(q), IsFirst(a, j), FirstFound(a) = a[j]
      PROVE  /\ FindIn(SearchPath[i], n, world) # Nowhere
             /\ \E x \in ToSet(q) : FindIn(SearchPath[i], n, world) = Copy(SearchPath[i], x, world)
  BY <1>2, <1>3, <1>4, <1>6 DEF IsFirst
<1> QED
  BY <1>1, <1>4, <1>5, <1>6, FirstFoundIs DEF q

\* What is found is found in an element, the first that has one of the names.
LEMMA FindIs ==
  ASSUME NamesAssumption, PathAssumption, NEW n \in NamesTried, n # MarkerName, NEW world
  PROVE  \/ /\ Find(n, world) = Nowhere
            /\ \A i \in DOMAIN SearchPath : FindIn(SearchPath[i], n, world) = Nowhere
         \/ /\ Find(n, world) # Nowhere
            /\ \E i \in DOMAIN SearchPath : Find(n, world) = FindIn(SearchPath[i], n, world)
<1> DEFINE a == [i \in DOMAIN SearchPath |-> FindIn(SearchPath[i], n, world)]
<1>1. Len(SearchPath) \in Nat /\ DOMAIN SearchPath = 1 .. Len(SearchPath)
  BY DEF PathAssumption
<1>2. Find(n, world) = FirstFound(a)
  BY DEF Find
<1>3. DOMAIN a = 1 .. Len(SearchPath)
      /\ \A i \in 1 .. Len(SearchPath) : a[i] = FindIn(SearchPath[i], n, world)
  BY <1>1
<1> HIDE DEF a
<1> QED
  BY <1>1, <1>2, <1>3, FirstFoundIs DEF IsFirst

\* A file that is found is one of the names the tool tries, in a directory of
\* the path, and stands there.
LEMMA FoundStands ==
  ASSUME NamesAssumption, PathAssumption, NEW n \in NamesTried, n # MarkerName, NEW world,
         Find(n, world) # Nowhere
  PROVE  \E i \in DOMAIN SearchPath, x \in ToSet(Suffixed(n)) :
           \E d \in ToSet(SearchPath[i].dirs) :
             /\ Find(n, world) = <<d, x>> /\ d \in Directories
             /\ Copied(d, SearchPath[i], x, world)
<1>1. PICK i \in DOMAIN SearchPath : Find(n, world) = FindIn(SearchPath[i], n, world)
  BY FindIs
<1>2. PICK x \in ToSet(Suffixed(n)) : FindIn(SearchPath[i], n, world) = Copy(SearchPath[i], x, world)
  BY <1>1, FindInIs
<1>3. Copy(SearchPath[i], x, world) # Nowhere
  BY <1>1, <1>2
<1>4. PICK d \in ToSet(SearchPath[i].dirs) :
         Copy(SearchPath[i], x, world) = <<d, x>> /\ d \in Directories
         /\ Copied(d, SearchPath[i], x, world)
  BY <1>3, CopyIs
<1> QED
  BY <1>1, <1>2, <1>4

\* Only the marker's name is answered with the marker's file.
LEMMA OnlyTheMarker ==
  ASSUME NamesAssumption, PathAssumption, NEW n \in NamesTried, n # MarkerName, NEW world
  PROVE  Find(n, world) # Marker
<1> SUFFICES ASSUME Find(n, world) = Marker PROVE FALSE
  OBVIOUS
<1>1. Find(n, world) # Nowhere
  BY DEF NamesAssumption
<1>2. PICK x \in ToSet(Suffixed(n)) : \E d : Find(n, world) = <<d, x>>
  <2>1. PICK i \in DOMAIN SearchPath, x \in ToSet(Suffixed(n)) :
           \E d \in ToSet(SearchPath[i].dirs) : Find(n, world) = <<d, x>>
    BY <1>1, FoundStands
  <2> QED BY <2>1
<1>d. PICK d : Find(n, world) = <<d, x>>
  BY <1>2
<1>3. Marker[2] = x
  <2>1. <<d, x>>[2] = x
    OBVIOUS
  <2> QED BY <1>d, <2>1
<1> QED
  BY <1>2, <1>3 DEF NamesAssumption

-----------------------------------------------------------------------------
(* The invariants.                                                         *)

\* What a name can be found at.
Found == {Nowhere, Marker}
         \cup {<<d, x>> : d \in Directories, x \in UNION {ToSet(Suffixed(n)) : n \in NamesTried}}
Entries == [path : Found, generation : Int]
Caches  == [NamesTried -> Entries]
Engines == [broken : BOOLEAN, generation : Nat, external : Nat, cache : Caches]
Phases  == {"idle", "trying", "tool", "greeting", "answer", "second", "told"}

TypeOK ==
  /\ set \in Worlds /\ lists = set.lists /\ disk \subseteq MayStand(set)
  /\ db \in [state : {"unread", "ready"}, usable : BOOLEAN, held : {lists, {}}, paths : BOOLEAN]
  /\ unusable \in BOOLEAN
  /\ engine \in Engines
  /\ tool \in [state : {"none", "starting", "running", "dead"},
               world : [disk : SUBSET MayStand(set), lists : {lists, {}}],
               in : Seq(NamesTried \cup {MarkerName}), out : Seq(Found), generation : Nat]
  /\ asking \in [input : BOOLEAN, left : Seq(NamesTried), all : Seq(NamesTried), remembered : Caches]
  /\ phase \in Phases
  /\ count \in [questions : Nat, writes : Nat, engines : Nat]

\* The lists are those of the trees, and are believed without the search
\* paths only where the format has no image of them.
DbInv ==
  /\ db.usable => db.held = lists
  /\ db.paths => db.state = "ready"
  /\ set.plain /\ ~db.paths => lists \notin set.image

\* A directory that was walked is still what it was.
WalkInv ==
  /\ DOMAIN walked # {} => set.plain
  /\ \A i \in DOMAIN SearchPath :
       IsWalked(i) /\ Head(SearchPath[i].dirs) \in DOMAIN walked =>
         walked[Head(SearchPath[i].dirs)] = {f \in disk : f[1] \in ToSet(SearchPath[i].dirs)}

Talking == {"tool", "greeting", "answer", "second"}
InQuestion == phase = "trying" \/ phase \in Talking
Wanted == asking.left[1]

\* What was not found, and no file has been written since, would not be found.
CacheInv ==
  \A n \in NamesTried :
    /\ engine.cache[n].generation <= engine.generation
    /\ engine.cache[n].path = Nowhere /\ engine.cache[n].generation = engine.generation =>
         Find(n, Now) = Nowhere

\* The names tried so far are nowhere, and those left are the rest; what was
\* found before is what it was when the question was asked; and whoever is
\* asked beyond the lists, the name is not there directly, nor was it found.
Remaining(k) ==
  /\ Len(asking.all) = k + Len(asking.left)
  /\ \A i \in 1 .. Len(asking.left) : asking.left[i] = asking.all[k + i]
  /\ \A i \in 1 .. k : Of(asking.all[i]) = Nowhere
QuestionInv ==
  InQuestion =>
    /\ asking.left # <<>>
    /\ \A n \in NamesTried : engine.cache[n].path = asking.remembered[n].path
    /\ \E k \in 0 .. Len(asking.all) : Remaining(k)
    /\ phase \in Talking => Direct(Wanted) = Nowhere /\ engine.cache[Wanted].path = Nowhere

\* A child that no command has run beside remembers what there is, but for
\* the working directory, where it looks anew.
ChildInv ==
  tool.state # "none" =>
    /\ tool.world.lists = lists
    /\ tool.generation <= engine.external
    /\ phase = "greeting" \/ tool.generation = engine.external =>
         \A f \in disk \cup tool.world.disk :
           f[1] \in Directories \ {Here} => (f \in disk <=> f \in tool.world.disk)

\* What is in the pipes: nothing, the greeting, or one question and as much of
\* its answer and the marker's as has been said.
Said(path) == IF path = Nowhere THEN <<>> ELSE <<path>>
Quiets(in, out) == tool.in = in /\ tool.out = out
Asked ==
  LET said == Said(Find(Wanted, Now))
  IN  /\ Wanted # MarkerName /\ tool.state \in {"running", "dead"} /\ ~Outdated(tool)
      /\ tool.state = "running" =>
           \/ Quiets(<<Wanted, MarkerName>>, <<>>)
           \/ Quiets(<<MarkerName>>, said)
           \/ Quiets(<<>>, Append(said, Marker))
      /\ tool.state = "dead" =>
           Quiets(<<>>, <<>>) \/ Quiets(<<>>, said) \/ Quiets(<<>>, Append(said, Marker))
Half ==
  /\ Wanted # MarkerName /\ tool.state \in {"running", "dead"} /\ ~Outdated(tool)
  /\ answer = Find(Wanted, Now)
  /\ tool.state = "running" => Quiets(<<MarkerName>>, <<>>) \/ Quiets(<<>>, <<Marker>>)
  /\ tool.state = "dead" => Quiets(<<>>, <<>>) \/ Quiets(<<>>, <<Marker>>)
Greeting ==
  /\ tool.state # "none" /\ tool.in = <<>> /\ tool.out \in {<<>>, <<Marker>>}
  /\ tool.state = "starting" => tool.out = <<>>
PipeInv ==
  /\ phase \notin {"greeting", "answer", "second"} => tool.state # "starting" /\ Quiets(<<>>, <<>>)
  /\ phase = "greeting" => Greeting
  /\ phase = "answer" => Asked
  /\ phase = "second" => Half

FinderInv ==
  TypeOK /\ DbInv /\ WalkInv /\ CacheInv /\ QuestionInv /\ ChildInv /\ PipeInv /\ AnswersRight

-----------------------------------------------------------------------------
(* The lists.                                                              *)

LEMMA NotAFile ==
  ASSUME NamesAssumption, NEW d \in Directories \cup ToSet(DirectDirs), NEW x
  PROVE  <<d, x>> # Nowhere /\ <<d, x>> # Doubt
<1>1. <<d, x>>[1] = d /\ Doubt[1] = Nowhere[1]
  BY DEF Doubt
<1>2. d # Nowhere[1]
  BY DEF NamesAssumption
<1> QED
  BY <1>1, <1>2

\* What the lists say of one element and one name, with the search paths, is
\* what the tool finds there, or a doubt.
LEMMA ElementAnswers ==
  ASSUME FinderAssumption, TypeOK, DbInv, WalkInv, set.plain, db.usable,
         NEW i \in DOMAIN SearchPath, NEW x
  PROVE  \/ InElement(SearchPath[i], x) = Copy(SearchPath[i], x, Now)
         \/ InElement(SearchPath[i], x) = Doubt
<1> DEFINE e == SearchPath[i]
           copy == Copy(e, x, Now)
<1>1. PICK m \in Nat \ {0} :
           /\ DOMAIN e.dirs = 1 .. m
           /\ ToSet(e.dirs) = {e.dirs[k] : k \in 1 .. m}
           /\ \A k \in 1 .. m : e.dirs[k] \in Directories
           /\ Head(e.dirs) = e.dirs[1]
  BY ElementIs DEF FinderAssumption
<1>2. \/ copy = Nowhere /\ \A d \in ToSet(e.dirs) : ~Copied(d, e, x, Now)
      \/ \E d \in ToSet(e.dirs) : copy = <<d, x>> /\ Copied(d, e, x, Now)
  BY CopyIs DEF FinderAssumption
<1>3. Now.disk = disk /\ Now.lists = lists
  BY DEF Now
<1>4. CASE e.kind = "listed"
  <2> DEFINE held == Held(e, x)
  <2>1. held = {d \in ToSet(e.dirs) : <<d, x>> \in lists}
    BY DEF Held, DbInv
  <2>2. InElement(e, x) = IF \E d, c \in held : d # c THEN Doubt
                          ELSE IF \E d \in held : <<d, x>> \in disk THEN <<CHOOSE d \in held : TRUE, x>>
                          ELSE Nowhere
    BY <1>4 DEF InElement
  <2>3. \A d \in ToSet(e.dirs) : Copied(d, e, x, Now) <=> d \in held /\ <<d, x>> \in disk
    BY <1>3, <1>4, <2>1 DEF Copied
  <2> HIDE DEF held, e, copy
  <2>4. CASE \E d, c \in held : d # c
    BY <2>2, <2>4 DEF e
  <2>5. CASE ~(\E d, c \in held : d # c) /\ \E d \in held : <<d, x>> \in disk
    <3>1. PICK d \in held : <<d, x>> \in disk
      BY <2>5
    <3>2. (CHOOSE c \in held : TRUE) = d
      BY <2>5
    <3>3. InElement(e, x) = <<d, x>>
      BY <2>2, <2>5, <3>2
    <3>4. d \in ToSet(e.dirs) /\ Copied(d, e, x, Now)
      BY <2>1, <2>3, <3>1
    <3>5. PICK c \in ToSet(e.dirs) : copy = <<c, x>> /\ Copied(c, e, x, Now)
      BY <1>2, <3>4
    <3>6. c = d
      BY <2>3, <2>5, <3>5
    <3> QED
      BY <3>3, <3>5, <3>6 DEF e, copy
  <2>6. CASE ~(\E d, c \in held : d # c) /\ ~(\E d \in held : <<d, x>> \in disk)
    <3>1. InElement(e, x) = Nowhere
      BY <2>2, <2>6
    <3>2. copy = Nowhere
      BY <1>2, <2>3, <2>6
    <3> QED
      BY <3>1, <3>2 DEF e, copy
  <2> QED
    BY <2>4, <2>5, <2>6
<1>5. CASE e.kind = "walked"
  <2> DEFINE held == {f \in disk : f[1] \in ToSet(e.dirs) /\ f[2] = x}
  <2>1. WalkOf(e) = {f \in disk : f[1] \in ToSet(e.dirs)}
    BY <1>5 DEF WalkOf, WalkInv, IsWalked
  <2>2. InElement(e, x) = IF held = {} THEN Nowhere ELSE CHOOSE f \in held : TRUE
    <3>1. {f \in WalkOf(e) : f[2] = x} = held
      BY <2>1
    <3>2. InElement(e, x) = IF {f \in WalkOf(e) : f[2] = x} = {} THEN Nowhere
                            ELSE CHOOSE f \in {f \in WalkOf(e) : f[2] = x} : TRUE
      BY <1>5 DEF InElement
    <3> QED
      BY <3>1, <3>2
  <2>3. \A f \in disk : f = <<f[1], f[2]>>
    BY DEF TypeOK, FinderAssumption, WorldAssumption
  <2>4. \A f, g \in held : f = g
    <3>1. WorldAssumption(set) /\ IsWalked(i) /\ disk \subseteq MayStand(set)
      BY <1>5 DEF TypeOK, FinderAssumption, IsWalked
    <3>2. \A f, g \in MayStand(set) : {f[1], g[1]} \subseteq ToSet(e.dirs) /\ f[2] = g[2] => f = g
      BY <3>1 DEF WorldAssumption
    <3> QED
      BY <3>1, <3>2
  <2>5. \A d \in ToSet(e.dirs) : Copied(d, e, x, Now) <=> <<d, x>> \in held
    <3>1. \A d : <<d, x>>[1] = d /\ <<d, x>>[2] = x
      OBVIOUS
    <3> QED
      BY <1>3, <1>5, <3>1 DEF Copied
  <2> HIDE DEF e, copy
  <2>6. CASE held = {}
    BY <1>2, <2>2, <2>5, <2>6 DEF e, copy
  <2>7. CASE held # {}
    <3>1. PICK f \in held : InElement(e, x) = f
      BY <2>2, <2>7
    <3>2. f = <<f[1], x>> /\ f[1] \in ToSet(e.dirs)
      BY <2>3
    <3>3. PICK d \in ToSet(e.dirs) : copy = <<d, x>> /\ <<d, x>> \in held
      BY <1>2, <2>5, <3>2
    <3> QED
      BY <2>4, <3>1, <3>3 DEF e, copy
  <2> QED
    BY <2>6, <2>7
<1>6. CASE e.kind \notin {"listed", "walked"}
  <2>1. m = 1
    <3>1. Len(e.dirs) = 1
      BY <1>6 DEF FinderAssumption, PathAssumption
    <3>2. e.dirs \in Seq(ToSet(e.dirs))
      BY DEF FinderAssumption, PathAssumption
    <3> HIDE DEF e
    <3>3. DOMAIN e.dirs = 1 .. 1
      BY <3>1, <3>2
    <3> QED BY <1>1, <3>3
  <2>2. ToSet(e.dirs) = {e.dirs[1]}
    BY <1>1, <2>1
  <2>3. InElement(e, x) = IF <<e.dirs[1], x>> \in disk THEN <<e.dirs[1], x>> ELSE Nowhere
    BY <1>6 DEF InElement
  <2>4. Copied(e.dirs[1], e, x, Now) <=> <<e.dirs[1], x>> \in disk
    BY <1>3, <1>6 DEF Copied
  <2> HIDE DEF e, copy
  <2> QED
    BY <1>2, <2>2, <2>3, <2>4 DEF e, copy
<1> QED
  BY <1>4, <1>5, <1>6

LEMMA OutcomeAnswers ==
  ASSUME FinderAssumption, TypeOK, DbInv, WalkInv, set.plain, db.usable,
         NEW i \in DOMAIN SearchPath, NEW n \in NamesTried
  PROVE  Outcome(i, n) = FindIn(SearchPath[i], n, Now) \/ Outcome(i, n) = Doubt
<1> DEFINE q == Suffixed(n)
           a == [j \in DOMAIN q |-> InElement(SearchPath[i], q[j])]
           b == [j \in DOMAIN q |-> Copy(SearchPath[i], q[j], Now)]
<1>1. Len(q) \in Nat /\ DOMAIN q = 1 .. Len(q) /\ Doubt # Nowhere
  BY DEF FinderAssumption, NamesAssumption
<1>2. Outcome(i, n) = FirstFound(a)
  BY DEF Outcome
<1>3. FindIn(SearchPath[i], n, Now) = FirstFound(b)
  BY DEF FindIn
<1>4. \A j \in 1 .. Len(q) : a[j] = b[j] \/ a[j] = Doubt
  BY <1>1, ElementAnswers
<1>5. DOMAIN a = 1 .. Len(q) /\ DOMAIN b = 1 .. Len(q)
  BY <1>1
<1> HIDE DEF q, a, b
<1> QED
  BY <1>1, <1>2, <1>3, <1>4, <1>5, DoubtOrSame

LEMMA ResolveIsRight ==
  ASSUME FinderAssumption, TypeOK, DbInv, WalkInv, set.plain, db.usable,
         NEW n \in NamesTried, n # MarkerName, Resolve(n).says # "ask"
  PROVE  Resolve(n).path = Find(n, Now)
<1> DEFINE a == [i \in DOMAIN SearchPath |-> Outcome(i, n)]
           b == [i \in DOMAIN SearchPath |-> FindIn(SearchPath[i], n, Now)]
           first == FirstFound(a)
<1>1. Len(SearchPath) \in Nat /\ DOMAIN SearchPath = 1 .. Len(SearchPath) /\ Doubt # Nowhere
  BY DEF FinderAssumption, NamesAssumption, PathAssumption
<1>2. Find(n, Now) = FirstFound(b)
  BY DEF Find
<1>3. \A i \in 1 .. Len(SearchPath) : a[i] = b[i] \/ a[i] = Doubt
  BY <1>1, OutcomeAnswers
<1>4. DOMAIN a = 1 .. Len(SearchPath) /\ DOMAIN b = 1 .. Len(SearchPath)
  BY <1>1
<1>5. Resolve(n) = CASE first = Doubt -> [says |-> "ask", path |-> Nowhere]
                     [] first = Nowhere -> [says |-> "nothing", path |-> Nowhere]
                     [] OTHER           -> [says |-> "file", path |-> first]
  BY DEF Resolve
<1> HIDE DEF a, b
<1>6. first = Find(n, Now) \/ first = Doubt
  BY <1>1, <1>2, <1>3, <1>4, DoubtOrSame
<1> HIDE DEF first
<1>7. first # Doubt
  <2> SUFFICES ASSUME first = Doubt PROVE FALSE
    OBVIOUS
  <2>1. Resolve(n) = [says |-> "ask", path |-> Nowhere]
    BY <1>1, <1>5
  <2> QED
    BY <2>1
<1> QED
  BY <1>1, <1>5, <1>6, <1>7

\* What is believed without the search paths: a name the lists hold once.
LEMMA LookupIsRight ==
  ASSUME FinderAssumption, TypeOK, DbInv, set.plain, db.usable, ~db.paths,
         NEW n \in NamesTried, n # MarkerName, <<Here, n>> \notin disk, Lookup(n).says # "ask"
  PROVE  Lookup(n).path = Find(n, Now)
<1> DEFINE held == {f \in db.held : f[2] = n}
<1>1. PICK f \in disk : held = {f}
  BY DEF Lookup
<1>2. Lookup(n).path = f
  <2>1. Lookup(n) = [says |-> "file", path |-> CHOOSE g \in held : TRUE]
    BY <1>1 DEF Lookup
  <2>2. (CHOOSE g \in held : TRUE) = f
    BY <1>1
  <2> QED
    BY <2>1, <2>2
<1>3. db.held = lists /\ lists = set.lists /\ set \in Worlds /\ WorldAssumption(set)
  BY DEF TypeOK, DbInv, FinderAssumption
<1>4. /\ f \in lists /\ f[2] = n /\ f = <<f[1], n>> /\ f[1] \in Listed
      /\ f \in MayStand(set)
  BY <1>1, <1>3 DEF WorldAssumption, TypeOK
<1>5. PICK i \in DOMAIN SearchPath :
         SearchPath[i].kind = "listed" /\ f[1] \in ToSet(SearchPath[i].dirs)
  BY <1>4 DEF Listed
<1>6. Now.disk = disk /\ Now.lists = lists
  BY DEF Now
<1>7. Find(n, Now) # Nowhere
  <2>1. Copied(f[1], SearchPath[i], n, Now)
    BY <1>1, <1>4, <1>6 DEF Copied
  <2>2. Copy(SearchPath[i], n, Now) # Nowhere
    BY <1>5, <2>1, CopyIs DEF FinderAssumption
  <2>3. n \in ToSet(Suffixed(n))
    BY DEF FinderAssumption, NamesAssumption
  <2>4. FindIn(SearchPath[i], n, Now) # Nowhere
    BY <2>2, <2>3, FindInIs DEF FinderAssumption
  <2> QED
    BY <2>4, FindIs DEF FinderAssumption
<1>8. PICK j \in DOMAIN SearchPath, x \in ToSet(Suffixed(n)) :
         \E d \in ToSet(SearchPath[j].dirs) :
           Find(n, Now) = <<d, x>> /\ Copied(d, SearchPath[j], x, Now)
  BY <1>7, FoundStands DEF FinderAssumption
<1>9. PICK d \in ToSet(SearchPath[j].dirs) :
         Find(n, Now) = <<d, x>> /\ Copied(d, SearchPath[j], x, Now)
  BY <1>8
<1>10. <<d, x>>[1] = d /\ <<d, x>>[2] = x /\ <<d, x>> \in disk
       /\ (SearchPath[j].kind = "listed" => <<d, x>> \in lists)
  BY <1>6, <1>9 DEF Copied
<1>11. x = n /\ (SearchPath[j].kind = "listed" \/ d = Here)
  <2>1. <<d, x>> \in MayStand(set)
    BY <1>10 DEF TypeOK
  <2>2. lists \notin set.image
    BY DEF DbInv
  <2>3. \A g \in MayStand(set) :
          g[1] \in ToSet(SearchPath[j].dirs) /\ g[2] \in ToSet(Suffixed(n)) =>
            g[2] = n /\ (SearchPath[j].kind = "listed" \/ g[1] = Here)
    BY <1>3, <2>2 DEF WorldAssumption
  <2> QED
    BY <1>9, <1>8, <1>10, <2>1, <2>3
<1>12. <<d, x>> \in held
  BY <1>3, <1>10, <1>11
<1> QED
  BY <1>1, <1>2, <1>9, <1>12

LEMMA ListsAreRight ==
  ASSUME FinderAssumption, TypeOK, DbInv, WalkInv,
         NEW n \in NamesTried, <<Here, n>> \notin disk, ListsSay(n).says # "ask"
  PROVE  ListsSay(n).path = Find(n, Now)
<1>1. set.plain /\ db.usable /\ n # MarkerName
  BY DEF ListsSay
<1>2. CASE db.paths
  <2>1. ListsSay(n) = Resolve(n)
    BY <1>1, <1>2 DEF ListsSay
  <2> QED
    BY <1>1, <2>1, ResolveIsRight
<1>3. CASE ~db.paths
  <2>1. ListsSay(n) = Lookup(n)
    BY <1>1, <1>3 DEF ListsSay
  <2> QED
    BY <1>1, <1>3, <2>1, LookupIsRight
<1> QED
  BY <1>2, <1>3

\* The tool's answers have the type of answers.
LEMMA FindType ==
  ASSUME NamesAssumption, PathAssumption, NEW n \in NamesTried \cup {MarkerName}, NEW world
  PROVE  Find(n, world) \in Found
<1>1. CASE n = MarkerName
  BY <1>1 DEF Find, Found
<1>2. CASE n # MarkerName /\ Find(n, world) # Nowhere
  <2>1. PICK i \in DOMAIN SearchPath, x \in ToSet(Suffixed(n)) :
           \E d \in ToSet(SearchPath[i].dirs) : Find(n, world) = <<d, x>> /\ d \in Directories
    BY <1>2, FoundStands
  <2> QED
    BY <1>2, <2>1 DEF Found
<1> QED
  BY <1>1, <1>2 DEF Found

-----------------------------------------------------------------------------
(* Answers.                                                                *)

\* What does not change while a question is answered.
LEMMA WorldStays ==
  ASSUME UNCHANGED <<disk, lists>>, NEW n
  PROVE  /\ Now' = Now
         /\ Find(n, Now)' = Find(n, Now)
         /\ asking'.input = asking.input => Direct(n)' = Direct(n)
         /\ asking'.input = asking.input /\ asking'.remembered = asking.remembered =>
              Of(n)' = Of(n)
<1>1. Now' = Now
  BY DEF Now
<1>2. Find(n, Now)' = Find(n, Now)
  BY <1>1
<1>3. asking'.input = asking.input => Direct(n)' = Direct(n)
  BY DEF Direct
<1>4. asking'.input = asking.input /\ asking'.remembered = asking.remembered =>
        Of(n)' = Of(n)
  <2> HIDE DEF Of
  <2>1. Of(n) = FirstFound(<<Direct(n), asking.remembered[n].path, Find(n, Now)>>)
    BY DEF Of
  <2>2. Of(n)' = FirstFound(<<Direct(n)', asking'.remembered[n].path, Find(n, Now)'>>)
    BY DEF Of
  <2> QED
    BY <1>2, <1>3, <2>1, <2>2
<1> QED
  BY <1>1, <1>2, <1>3, <1>4

LEMMA OfIs ==
  ASSUME NEW n
  PROVE  Of(n) = IF Direct(n) # Nowhere THEN Direct(n)
                 ELSE IF asking.remembered[n].path # Nowhere THEN asking.remembered[n].path
                 ELSE Find(n, Now)
BY FirstOfThree DEF Of

\* The name tried is one of those a question is for.
LEMMA WantedIs ==
  ASSUME TypeOK, QuestionInv, InQuestion
  PROVE  /\ Wanted \in NamesTried
         /\ Len(asking.left) \in Nat \ {0} /\ Len(asking.all) \in Nat
         /\ DOMAIN asking.all = 1 .. Len(asking.all)
<1>1. asking.left \in Seq(NamesTried) /\ asking.all \in Seq(NamesTried) /\ asking.left # <<>>
  BY DEF TypeOK, QuestionInv
<1> QED
  BY <1>1 DEF Wanted

\* What settles a name: the question is answered, or goes on with the next.
LEMMA AnswerSettles ==
  ASSUME FinderAssumption, TypeOK, QuestionInv, InQuestion, UNCHANGED <<disk, lists>>,
         NEW path, path = Of(Wanted), Answered(path),
         \A n \in NamesTried : \/ engine'.cache[n].path = engine.cache[n].path
                               \/ n = Wanted /\ engine'.cache[n].path = path
  PROVE  QuestionInv' /\ AnswersRight'
<1>t. /\ Wanted \in NamesTried
      /\ Len(asking.left) \in Nat \ {0} /\ Len(asking.all) \in Nat
      /\ DOMAIN asking.all = 1 .. Len(asking.all)
  BY WantedIs
<1>0. PICK k \in 0 .. Len(asking.all) : Remaining(k)
  BY DEF QuestionInv
<1>1. /\ Wanted = asking.all[k + 1] /\ k + 1 \in 1 .. Len(asking.all)
      /\ \A i \in 1 .. k : Of(asking.all[i]) = Nowhere
  <2>1. 1 \in 1 .. Len(asking.left)
    BY <1>t
  <2>2. asking.left[1] = asking.all[k + 1]
    BY <1>0, <2>1 DEF Remaining
  <2>3. Len(asking.all) = k + Len(asking.left)
    BY <1>0 DEF Remaining
  <2>4. k + 1 \in 1 .. Len(asking.all)
    BY <1>t, <1>0, <2>3
  <2> QED
    BY <1>0, <2>2, <2>4 DEF Remaining, Wanted
<1> DEFINE a == [i \in DOMAIN asking.all |-> Of(asking.all[i])]
<1>2. Expected = FirstFound(a)
  BY DEF Expected
<1>3. DOMAIN a = 1 .. Len(asking.all) /\ \A i \in 1 .. Len(asking.all) : a[i] = Of(asking.all[i])
  BY <1>t
<1> HIDE DEF a
<1>4. CASE path # Nowhere
  <2>1. IsFirst(a, k + 1)
    <3>1. \A j \in 1 .. (k + 1) - 1 : a[j] = Nowhere
      BY <1>t, <1>1, <1>3
    <3> QED
      BY <1>1, <1>3, <1>4, <3>1 DEF IsFirst
  <2>2. Expected = path
    BY <1>t, <1>1, <1>2, <1>3, <2>1, FirstIsFound
  <2>3. phase' = "told" /\ answer' = path /\ asking' = asking
    BY <1>4 DEF Answered
  <2>4. Expected' = Expected
    BY <2>3 DEF Expected, Of, Direct, Now
  <2> QED
    BY <2>2, <2>3, <2>4 DEF QuestionInv, InQuestion, Talking, AnswersRight
<1>5. CASE path = Nowhere /\ ~(Len(asking.left) > 1)
  <2>1. \A i \in 1 .. Len(asking.all) : a[i] = Nowhere
    <3>1. Len(asking.all) = k + 1
      BY <1>t, <1>0, <1>5 DEF Remaining
    <3>2. a[k + 1] = Nowhere
      BY <1>1, <1>3, <1>5
    <3> QED
      BY <1>1, <1>3, <3>1, <3>2
  <2>2. Expected = Nowhere
    BY <1>2, <1>3, <2>1 DEF FirstFound
  <2>3. phase' = "told" /\ answer' = path /\ asking' = asking
    BY <1>5 DEF Answered
  <2>4. Expected' = Expected
    BY <2>3 DEF Expected, Of, Direct, Now
  <2> QED
    BY <1>5, <2>2, <2>3, <2>4 DEF QuestionInv, InQuestion, Talking, AnswersRight
<1>6. CASE path = Nowhere /\ Len(asking.left) > 1
  <2>1. /\ phase' = "trying"
        /\ asking' = [asking EXCEPT !.left = Tail(@)]
    BY <1>6 DEF Answered
  <2>2. /\ asking'.left = Tail(asking.left) /\ asking'.all = asking.all
        /\ asking'.input = asking.input /\ asking'.remembered = asking.remembered
    BY <2>1 DEF TypeOK
  <2>3. /\ Len(asking'.left) = Len(asking.left) - 1
        /\ \A i \in 1 .. Len(asking.left) - 1 : asking'.left[i] = asking.left[i + 1]
        /\ asking'.left # <<>>
    <3> DEFINE l == asking.left
    <3>1. l \in Seq(NamesTried) /\ l # <<>> /\ Len(l) > 1
      BY <1>6 DEF TypeOK
    <3> HIDE DEF l
    <3>2. /\ Tail(l) \in Seq(NamesTried) /\ Len(Tail(l)) = Len(l) - 1
          /\ \A i \in 1 .. Len(l) - 1 : Tail(l)[i] = l[i + 1]
      BY <3>1, HeadTailProperties
    <3>3. Tail(l) # <<>>
      <4>1. Len(Tail(l)) > 0 /\ Len(<<>>) = 0
        <5>1. Len(l) \in Nat
          BY <3>1
        <5>2. Len(l) - 1 > 0
          BY <3>1, <5>1
        <5> QED BY <3>2, <5>2
      <4> QED BY <4>1
    <3> QED
      BY <2>2, <3>2, <3>3 DEF l
  <2>4. \A n : Of(n)' = Of(n)
    BY <2>2, WorldStays
  <2>5. Remaining(k + 1)'
    <3>1. Len(asking'.all) = (k + 1) + Len(asking'.left)
      <4>1. Len(asking.all) = k + Len(asking.left)
        BY <1>0 DEF Remaining
      <4>2. Len(asking'.left) = Len(asking.left) - 1 /\ asking'.all = asking.all
        BY <2>2, <2>3
      <4>3. \A x, y \in Nat : x + y = (x + 1) + (y - 1)
        OBVIOUS
      <4>4. k \in Nat /\ Len(asking.left) \in Nat
        BY <1>t, <1>0
      <4>5. k + Len(asking.left) = (k + 1) + (Len(asking.left) - 1)
        BY <4>3, <4>4
      <4> QED
        BY <4>1, <4>2, <4>5
    <3>2. ASSUME NEW i \in 1 .. Len(asking'.left)
          PROVE  asking'.left[i] = asking'.all[(k + 1) + i]
      <4>1. i + 1 \in 1 .. Len(asking.left) /\ i \in 1 .. Len(asking.left) - 1
        BY <1>t, <2>3
      <4>2. asking.left[i + 1] = asking.all[k + (i + 1)]
        BY <1>0, <4>1 DEF Remaining
      <4>3. k + (i + 1) = (k + 1) + i
        BY <1>t
      <4> QED
        BY <2>2, <2>3, <4>1, <4>2, <4>3
    <3>3. ASSUME NEW i \in 1 .. k + 1
          PROVE  Of(asking.all[i])' = Nowhere
      <4>1. Of(asking.all[i]) = Nowhere
        <5>1. CASE i \in 1 .. k
          BY <1>1, <5>1
        <5>2. CASE i = k + 1
          BY <1>1, <1>6, <5>2
        <5> QED
          BY <1>t, <5>1, <5>2
      <4> QED
        BY <2>2, <2>4, <4>1
    <3> QED
      BY <3>1, <3>2, <3>3 DEF Remaining
  <2>6. \A n \in NamesTried : engine'.cache[n].path = asking'.remembered[n].path
    <3>1. asking.remembered[Wanted].path = Nowhere
      BY <1>6, OfIs
    <3>2. \A n \in NamesTried : engine.cache[n].path = asking.remembered[n].path
      BY DEF QuestionInv
    <3> QED
      BY <1>6, <2>2, <3>1, <3>2
  <2>7. k + 1 \in 0 .. Len(asking'.all)
    BY <1>1, <2>2
  <2> QED
    BY <2>1, <2>3, <2>5, <2>6, <2>7 DEF QuestionInv, InQuestion, Talking, AnswersRight
<1> QED
  BY <1>4, <1>5, <1>6

\* And who settles it by the tool's own answer remembers that.
LEMMA AnswerKept ==
  ASSUME FinderAssumption, TypeOK, CacheInv, QuestionInv, InQuestion, UNCHANGED <<disk, lists>>,
         Direct(Wanted) = Nowhere, engine.cache[Wanted].path = Nowhere,
         NEW e \in Engines, e.cache = engine.cache, e.generation = engine.generation,
         NEW path, path = Find(Wanted, Now), Answered(path), engine' = Remembered(e, path)
  PROVE  /\ QuestionInv' /\ AnswersRight' /\ CacheInv'
         /\ engine' \in Engines /\ engine'.external = e.external
<1>1. Wanted \in NamesTried
  BY WantedIs
<1>2. engine' = [e EXCEPT !.cache[Wanted] = [path |-> path, generation |-> e.generation]]
  BY DEF Remembered, Wanted
<1>3. path \in Found
  BY <1>1, FindType DEF FinderAssumption
<1>4. [path |-> path, generation |-> e.generation] \in Entries
  BY <1>3 DEF Engines, Entries
<1>5. /\ engine' \in Engines /\ engine'.external = e.external /\ engine'.generation = e.generation
      /\ engine'.cache = [e.cache EXCEPT ![Wanted] = [path |-> path, generation |-> e.generation]]
  <2>1. e.cache \in [NamesTried -> Entries]
    BY DEF Engines, Caches
  <2>2. [e.cache EXCEPT ![Wanted] = [path |-> path, generation |-> e.generation]] \in Caches
    BY <1>1, <1>4, <2>1 DEF Caches
  <2>3. engine' = [e EXCEPT !.cache = [e.cache EXCEPT ![Wanted] = [path |-> path, generation |-> e.generation]]]
    BY <1>2
  <2> QED
    BY <2>2, <2>3 DEF Engines
<1>6. /\ engine'.cache[Wanted] = [path |-> path, generation |-> engine.generation]
      /\ \A n \in NamesTried : n # Wanted => engine'.cache[n] = engine.cache[n]
  BY <1>1, <1>5 DEF Engines, Caches
<1>7. path = Of(Wanted)
  <2>1. asking.remembered[Wanted].path = Nowhere
    BY <1>1 DEF QuestionInv
  <2> QED
    BY <2>1, OfIs
<1>8. QuestionInv' /\ AnswersRight'
  <2>1. \A n \in NamesTried : \/ engine'.cache[n].path = engine.cache[n].path
                              \/ n = Wanted /\ engine'.cache[n].path = path
    BY <1>6
  <2> QED
    BY <1>7, <2>1, AnswerSettles
<1>9. CacheInv'
  <2> SUFFICES ASSUME NEW n \in NamesTried
               PROVE  /\ engine'.cache[n].generation <= engine'.generation
                      /\ engine'.cache[n].path = Nowhere
                         /\ engine'.cache[n].generation = engine'.generation => Find(n, Now)' = Nowhere
    BY DEF CacheInv
  <2>1. Find(n, Now)' = Find(n, Now)
    BY WorldStays
  <2>2. CASE n = Wanted
    <3>1. engine'.cache[n].path = path /\ engine'.cache[n].generation = engine.generation
      BY <1>6, <2>2
    <3>2. engine'.generation = engine.generation /\ engine.generation \in Nat
      BY <1>5 DEF TypeOK, Engines
    <3>3. engine'.cache[n].generation <= engine'.generation
      BY <3>1, <3>2
    <3> QED
      BY <2>1, <2>2, <3>1, <3>3
  <2>3. CASE n # Wanted
    BY <1>5, <1>6, <2>1, <2>3 DEF CacheInv
  <2> QED
    BY <2>2, <2>3
<1> QED
  BY <1>5, <1>8, <1>9

\* Where the question is not settled, it stays what it is.
LEMMA QuestionStays ==
  ASSUME QuestionInv, CacheInv, InQuestion, phase' \in Talking, UNCHANGED <<disk, lists, asking, engine>>,
         Direct(Wanted) = Nowhere, engine.cache[Wanted].path = Nowhere
  PROVE  QuestionInv' /\ AnswersRight' /\ CacheInv'
<1>1. \A n : Of(n)' = Of(n) /\ Direct(n)' = Direct(n) /\ Find(n, Now)' = Find(n, Now)
  BY WorldStays
<1>2. \A k : Remaining(k) => Remaining(k)'
  BY ZenonT(40) DEF Remaining, Of, Direct, Now
<1>3. Wanted' = Wanted /\ Direct(Wanted)' = Direct(Wanted)
  BY DEF Wanted, Direct
<1>4. CacheInv'
  BY <1>1 DEF CacheInv, Now
<1>5. AnswersRight'
  BY DEF AnswersRight, Talking
<1>6. QuestionInv'
  <2>1. PICK k \in 0 .. Len(asking.all) : Remaining(k)
    BY DEF QuestionInv
  <2> QED
    BY <1>2, <1>3, <2>1 DEF QuestionInv
<1> QED
  BY <1>4, <1>5, <1>6

\* And between questions nothing is said of one.
LEMMA NobodyAsks ==
  ASSUME CacheInv, phase' \notin Talking \cup {"trying"}, UNCHANGED <<disk, lists, engine>>,
         phase' = "told" => phase = "told" /\ AnswersRight /\ UNCHANGED <<asking, answer>>
  PROVE  QuestionInv' /\ AnswersRight' /\ CacheInv'
<1>1. \A n : Find(n, Now)' = Find(n, Now)
  BY WorldStays
<1>2. CacheInv'
  BY <1>1 DEF CacheInv, Now
<1>3. AnswersRight'
  BY DEF AnswersRight, Expected, Of, Direct, Now
<1> QED
  BY <1>2, <1>3 DEF QuestionInv, InQuestion

-----------------------------------------------------------------------------
(* One step after another.                                                 *)

Asleep == UNCHANGED <<disk, lists, set>>

\* What depends on the installation alone.
LEMMA ListsStay ==
  ASSUME DbInv, WalkInv, Asleep, UNCHANGED <<db, walked>>
  PROVE  DbInv' /\ WalkInv'
BY DEF DbInv, WalkInv, Asleep

\* And on the child.
LEMMA ChildStays ==
  ASSUME ChildInv, Asleep, tool'.world = tool.world, tool'.generation = tool.generation,
         tool.state # "none", engine'.external = engine.external,
         phase' = "greeting" => phase = "greeting"
  PROVE  ChildInv'
BY DEF ChildInv, Asleep

LEMMA NoToolIs ==
  /\ NoTool.state = "none" /\ NoTool.in = <<>> /\ NoTool.out = <<>> /\ NoTool.generation = 0
  /\ NoTool.world = [disk |-> {}, lists |-> {}]
  /\ TypeOK => NoTool \in [state : {"none", "starting", "running", "dead"},
               world : [disk : SUBSET MayStand(set), lists : {lists, {}}],
               in : Seq(NamesTried \cup {MarkerName}), out : Seq(Found), generation : Nat]
<1>1. \A S : <<>> \in Seq(S)
  OBVIOUS
<1> QED
  BY <1>1 DEF NoTool

Tools == [state : {"none", "starting", "running", "dead"},
          world : [disk : SUBSET MayStand(set), lists : {lists, {}}],
          in : Seq(NamesTried \cup {MarkerName}), out : Seq(Found), generation : Nat]

\* An answer is the end of a question or its next name.
LEMMA AnsweredType ==
  ASSUME TypeOK, QuestionInv, InQuestion, NEW path, Answered(path)
  PROVE  /\ phase' \in {"trying", "told"}
         /\ asking' \in [input : BOOLEAN, left : Seq(NamesTried), all : Seq(NamesTried),
                        remembered : Caches]
<1>1. asking.left \in Seq(NamesTried) /\ asking.left # <<>>
  BY DEF TypeOK, QuestionInv
<1>2. Tail(asking.left) \in Seq(NamesTried)
  BY <1>1
<1>3. \/ phase' = "trying" /\ asking' = [asking EXCEPT !.left = Tail(@)]
      \/ phase' = "told" /\ asking' = asking
  BY DEF Answered
<1>4. [asking EXCEPT !.left = Tail(@)] \in
        [input : BOOLEAN, left : Seq(NamesTried), all : Seq(NamesTried), remembered : Caches]
  BY <1>2 DEF TypeOK
<1> QED
  BY <1>3, <1>4 DEF TypeOK

\* A child of its own for the name: whatever else the step does to the pipes.
LEMMA OwnChildRight ==
  ASSUME FinderAssumption, FinderInv, Asleep, phase \in Talking,
         NEW e \in Engines, e.cache = engine.cache, e.generation = engine.generation,
         e.external = engine.external, NEW path, path = Find(Wanted, Now),
         Answered(path), engine' = Remembered(e, path),
         UNCHANGED <<db, walked, count>>, unusable' \in BOOLEAN,
         \/ tool' = NoTool
         \/ tool' = tool /\ phase = "tool"
         \/ /\ tool.state # "none" /\ tool'.state \in {"running", "dead"}
            /\ tool' \in Tools /\ tool'.in = <<>> /\ tool'.out = <<>>
            /\ tool'.world = tool.world /\ tool'.generation = tool.generation
  PROVE  FinderInv'
<1>i. TypeOK /\ DbInv /\ WalkInv /\ CacheInv /\ QuestionInv /\ ChildInv /\ PipeInv /\ InQuestion
  BY DEF FinderInv, InQuestion
<1>d. Direct(Wanted) = Nowhere /\ engine.cache[Wanted].path = Nowhere
  BY <1>i DEF QuestionInv
<1>u. UNCHANGED <<disk, lists>> /\ UNCHANGED <<disk, lists, set>>
  BY DEF Asleep
<1>1. /\ QuestionInv' /\ AnswersRight' /\ CacheInv'
      /\ engine' \in Engines /\ engine'.external = engine.external
  BY <1>i, <1>d, <1>u, AnswerKept
<1>2. DbInv' /\ WalkInv'
  BY <1>i, ListsStay
<1>3. /\ phase' \in {"trying", "told"}
      /\ asking' \in [input : BOOLEAN, left : Seq(NamesTried), all : Seq(NamesTried),
                     remembered : Caches]
  BY <1>i, AnsweredType
<1>4. tool' \in Tools
  BY <1>i, NoToolIs DEF TypeOK, Tools
<1>5. TypeOK'
  BY <1>i, <1>u, <1>1, <1>3, <1>4 DEF TypeOK, Phases, Tools
<1>6. PipeInv'
  <2>1. tool'.state # "starting" /\ tool'.in = <<>> /\ tool'.out = <<>>
    BY <1>i, NoToolIs DEF PipeInv, Quiets
  <2> QED
    BY <1>3, <2>1 DEF PipeInv, Quiets
<1>7. ChildInv'
  <2>1. CASE tool' = NoTool
    BY <2>1, NoToolIs DEF ChildInv
  <2>2. CASE tool'.world = tool.world /\ tool'.generation = tool.generation /\ tool.state # "none"
    BY <1>i, <1>1, <1>3, <2>2, ChildStays
  <2>3. CASE tool' = tool /\ tool.state = "none"
    BY <2>3 DEF ChildInv
  <2> QED
    BY <2>1, <2>2, <2>3
<1> QED
  BY <1>1, <1>2, <1>5, <1>6, <1>7 DEF FinderInv

-----------------------------------------------------------------------------
(* The initial states, and one lemma for each action.                      *)

LEMMA NewEngineIs ==
  /\ NewEngine \in Engines /\ NewEngine.generation = 0 /\ NewEngine.external = 0
  /\ NewEngine.cache \in Caches
  /\ \A n \in NamesTried : NewEngine.cache[n].generation = -1 /\ NewEngine.cache[n].path = Nowhere
<1>1. NotAsked \in Entries /\ NotAsked.generation = -1 /\ NotAsked.path = Nowhere
  BY DEF NotAsked, Entries, Found
<1>2. NewEngine = [broken |-> FALSE, generation |-> 0, external |-> 0,
                   cache |-> [n \in NamesTried |-> NotAsked]]
  BY DEF NewEngine, NamesTried
<1> HIDE DEF NotAsked, NewEngine
<1>3. [n \in NamesTried |-> NotAsked] \in Caches
  BY <1>1 DEF Caches
<1> QED
  BY <1>1, <1>2, <1>3 DEF Engines

LEMMA InitFinder ==
  ASSUME FinderAssumption, FindingInit
  PROVE  FinderInv
<1>1. PICK world \in Worlds :
        /\ disk = world.disk /\ lists = world.lists /\ set = world
        /\ db = Adopted(world)
        /\ walked = [d \in {} |-> {}] /\ unusable = FALSE
        /\ engine = NewEngine /\ tool = NoTool
        /\ asking = NoQuestion /\ phase = "idle" /\ answer = Nowhere
        /\ count = [questions |-> 0, writes |-> 0, engines |-> 1]
  BY DEF FindingInit
<1>2. disk \subseteq MayStand(set)
  BY <1>1 DEF MayStand
<1>3. /\ db \in [state : {"unread", "ready"}, usable : BOOLEAN, held : {lists, {}}, paths : BOOLEAN]
      /\ DbInv
  BY <1>1 DEF Adopted, Unread, DbInv
<1>4. asking \in [input : BOOLEAN, left : Seq(NamesTried), all : Seq(NamesTried), remembered : Caches]
  <2>1. \A S : <<>> \in Seq(S)
    OBVIOUS
  <2> QED
    BY <1>1, <2>1, NewEngineIs DEF NoQuestion
<1>5. tool.state = "none" /\ tool.in = <<>> /\ tool.out = <<>>
  BY <1>1, NoToolIs
<1>6. tool \in Tools
  <2>1. \A S : <<>> \in Seq(S)
    OBVIOUS
  <2> QED
    BY <1>1, <2>1 DEF NoTool, Tools
<1>7. TypeOK
  BY <1>1, <1>2, <1>3, <1>4, <1>6, NewEngineIs DEF TypeOK, Phases, Tools
<1>8. WalkInv
  BY <1>1 DEF WalkInv
<1>9. CacheInv
  BY <1>1, NewEngineIs DEF CacheInv
<1> QED
  BY <1>1, <1>3, <1>5, <1>7, <1>8, <1>9
     DEF FinderInv, QuestionInv, InQuestion, Talking, ChildInv, PipeInv, Quiets, AnswersRight

\* What is asked, and what was answered, where only the lists or the child change.
LEMMA AskingStays ==
  ASSUME QuestionInv, CacheInv, AnswersRight, UNCHANGED <<disk, lists, engine, asking, phase, answer>>
  PROVE  QuestionInv' /\ CacheInv' /\ AnswersRight'
<1>1. \A k : Remaining(k) => Remaining(k)'
  BY ZenonT(40) DEF Remaining, Of, Direct, Now
<1>2. Direct(Wanted)' = Direct(Wanted)
  BY DEF Direct, Wanted
<1>3. CacheInv'
  BY DEF CacheInv, Now
<1>4. AnswersRight'
  BY DEF AnswersRight, Expected, Of, Direct, Now
<1>5. CASE InQuestion
  <2>1. PICK k \in 0 .. Len(asking.all) : Remaining(k)
    BY <1>5 DEF QuestionInv
  <2>2. /\ Remaining(k)' /\ k \in 0 .. Len(asking'.all)
    BY <1>1, <2>1
  <2>3. asking'.left # <<>> /\ \A n \in NamesTried : engine'.cache[n].path = asking'.remembered[n].path
    BY <1>5 DEF QuestionInv
  <2>4. phase' \in Talking => Direct(Wanted)' = Nowhere /\ (engine.cache[Wanted].path)' = Nowhere
    BY <1>2, <1>5 DEF QuestionInv, Wanted
  <2>5. QuestionInv'
    BY <2>2, <2>3, <2>4 DEF QuestionInv
  <2> QED
    BY <1>3, <1>4, <2>5
<1> QED
  BY <1>3, <1>4, <1>5 DEF QuestionInv, InQuestion

LEMMA ReadListsRight ==
  ASSUME FinderAssumption, FinderInv, NEW tells \in BOOLEAN, ReadLists(tells)
  PROVE  FinderInv'
<1>1. TypeOK /\ DbInv /\ WalkInv /\ CacheInv /\ QuestionInv /\ ChildInv /\ PipeInv /\ AnswersRight
  BY DEF FinderInv
<1>2. TypeOK'
  BY <1>1 DEF TypeOK, ReadLists
<1>3. DbInv' /\ WalkInv'
  BY <1>1 DEF DbInv, WalkInv, ReadLists
<1>4. QuestionInv' /\ CacheInv' /\ AnswersRight'
  BY <1>1, AskingStays DEF ReadLists
<1>5. ChildInv' /\ PipeInv'
  BY <1>1 DEF ChildInv, PipeInv, Quiets, ReadLists
<1> QED
  BY <1>2, <1>3, <1>4, <1>5 DEF FinderInv

\* An answer without the child: only the question moves on.
LEMMA AnsweredAlone ==
  ASSUME FinderInv, Asleep, phase = "trying", NEW path, Answered(path), engine' \in Engines,
         engine'.external = engine.external,
         UNCHANGED <<db, unusable, tool, count>>, QuestionInv', CacheInv', AnswersRight', WalkInv'
  PROVE  FinderInv'
<1>1. TypeOK /\ DbInv /\ QuestionInv /\ ChildInv /\ PipeInv /\ InQuestion
  BY DEF FinderInv, InQuestion
<1>2. /\ phase' \in {"trying", "told"}
      /\ asking' \in [input : BOOLEAN, left : Seq(NamesTried), all : Seq(NamesTried),
                     remembered : Caches]
  BY <1>1, AnsweredType
<1>3. TypeOK'
  BY <1>1, <1>2 DEF TypeOK, Asleep, Phases
<1>4. DbInv'
  BY <1>1 DEF DbInv, Asleep
<1>5. ChildInv' /\ PipeInv'
  BY <1>1, <1>2 DEF ChildInv, PipeInv, Quiets, Asleep
<1> QED
  BY <1>3, <1>4, <1>5 DEF FinderInv

LEMMA FoundDirectlyRight ==
  ASSUME FinderAssumption, FinderInv, FoundDirectly
  PROVE  FinderInv'
<1>1. TypeOK /\ WalkInv /\ CacheInv /\ QuestionInv /\ phase = "trying" /\ InQuestion
  BY DEF FinderInv, FoundDirectly, InQuestion
<1>2. Asleep /\ UNCHANGED <<disk, lists>> /\ UNCHANGED <<db, walked, unusable, engine, tool, count>>
  BY DEF FoundDirectly, Asleep
<1>3. Direct(Wanted) = Of(Wanted) /\ Answered(Direct(Wanted))
  BY OfIs DEF FoundDirectly, Answered, Wanted
<1>4. QuestionInv' /\ AnswersRight'
  BY <1>1, <1>2, <1>3, AnswerSettles
<1>5. CacheInv' /\ WalkInv'
  BY <1>1, <1>2 DEF CacheInv, WalkInv, Now, Asleep
<1> QED
  BY <1>1, <1>2, <1>3, <1>4, <1>5, AnsweredAlone DEF TypeOK

LEMMA FoundInCacheRight ==
  ASSUME FinderAssumption, FinderInv, FoundInCache
  PROVE  FinderInv'
<1> DEFINE path == engine.cache[Wanted].path
<1>1. TypeOK /\ WalkInv /\ CacheInv /\ QuestionInv /\ phase = "trying" /\ InQuestion
  BY DEF FinderInv, FoundInCache, InQuestion
<1>2. Asleep /\ UNCHANGED <<disk, lists>> /\ UNCHANGED <<db, walked, unusable, engine, tool, count>>
  BY DEF FoundInCache, Asleep
<1>3. Answered(path) /\ Direct(Wanted) = Nowhere
  BY DEF FoundInCache, Wanted
<1>4. Wanted \in NamesTried
  BY <1>1, WantedIs
<1>5. path = asking.remembered[Wanted].path
  BY <1>1, <1>4 DEF QuestionInv
<1>6. path = Nowhere => Find(Wanted, Now) = Nowhere
  BY <1>1, <1>4 DEF FoundInCache, Reusable, CacheInv, Wanted
<1>7. path = Of(Wanted)
  BY <1>3, <1>5, <1>6, OfIs
<1> HIDE DEF path
<1>8. QuestionInv' /\ AnswersRight'
  BY <1>1, <1>2, <1>3, <1>7, AnswerSettles
<1>9. CacheInv' /\ WalkInv'
  BY <1>1, <1>2 DEF CacheInv, WalkInv, Now, Asleep
<1> QED
  BY <1>1, <1>2, <1>3, <1>8, <1>9, AnsweredAlone DEF TypeOK

\* Where a name is not there directly it is not beside the run.
LEMMA NotHere ==
  ASSUME FinderAssumption, NEW n, Direct(n) = Nowhere
  PROVE  <<Here, n>> \notin disk
<1> DEFINE dirs == IF asking.input THEN DirectDirs ELSE <<Here>>
           a == [i \in DOMAIN dirs |-> IF <<dirs[i], n>> \in disk THEN <<dirs[i], n>> ELSE Nowhere]
<1>1. Direct(n) = FirstFound(a)
  BY DEF Direct
<1>2. \E m \in Nat : DOMAIN dirs = 1 .. m
  <2>1. DirectDirs \in Seq(ToSet(DirectDirs))
    BY DEF FinderAssumption, PathAssumption
  <2>2. DOMAIN DirectDirs = 1 .. Len(DirectDirs) /\ Len(DirectDirs) \in Nat
    BY <2>1
  <2>3. DOMAIN <<Here>> = 1 .. 1
    OBVIOUS
  <2> QED
    BY <2>2, <2>3
<1>3. \E i \in DOMAIN dirs : dirs[i] = Here
  <2>1. Here \in ToSet(DirectDirs)
    BY DEF FinderAssumption, PathAssumption
  <2>2. \E i \in DOMAIN DirectDirs : DirectDirs[i] = Here
    BY <2>1 DEF ToSet
  <2>3. 1 \in DOMAIN <<Here>> /\ <<Here>>[1] = Here
    OBVIOUS
  <2> QED
    BY <2>2, <2>3
<1>4. \A i \in DOMAIN dirs :
        a[i] = IF <<dirs[i], n>> \in disk THEN <<dirs[i], n>> ELSE Nowhere
  OBVIOUS
<1>5. DOMAIN a = DOMAIN dirs
  OBVIOUS
<1> HIDE DEF a, dirs
<1>6. \A i \in DOMAIN dirs : a[i] = Nowhere
  BY <1>1, <1>2, <1>5, FirstFoundIs DEF IsFirst
<1>7. Here \in Directories \cup ToSet(DirectDirs)
  BY DEF FinderAssumption, PathAssumption
<1>8. <<Here, n>> # Nowhere
  BY <1>7, NotAFile DEF FinderAssumption
<1> QED
  BY <1>3, <1>4, <1>6, <1>8

\* A resolution walks the directories it reaches as they are.
LEMMA WalkIsRight ==
  ASSUME PathAssumption, WalkInv, Asleep, NEW n, walked' = Walk(n)
  PROVE  WalkInv'
<1> DEFINE reached == IF set.plain /\ db.usable /\ db.paths THEN WalkedBy(n) ELSE {}
           H(i) == Head(SearchPath[i].dirs)
           U(i) == ToSet(SearchPath[i].dirs)
<1>1. walked' = [d \in DOMAIN walked \cup {H(i) : i \in reached} |->
                   IF d \in DOMAIN walked THEN walked[d]
                   ELSE {f \in disk : \E i \in reached : H(i) = d /\ f[1] \in U(i)}]
  BY DEF Walk
<1>2. \A i \in reached : i \in DOMAIN SearchPath /\ IsWalked(i)
  BY DEF WalkedBy, IsWalked
<1>3. ~set.plain => reached = {}
  OBVIOUS
<1>4. \A i, j \in DOMAIN SearchPath : IsWalked(i) /\ IsWalked(j) /\ H(j) = H(i) => U(j) = U(i)
  BY DEF PathAssumption
<1>5. DOMAIN walked' # {} => set.plain
  BY <1>1, <1>3 DEF WalkInv
<1>6. \A i \in DOMAIN SearchPath :
        IsWalked(i) /\ H(i) \in DOMAIN walked => walked[H(i)] = {f \in disk : f[1] \in U(i)}
  BY DEF WalkInv
<1> HIDE DEF reached, H, U
<1>7. ASSUME NEW i \in DOMAIN SearchPath, IsWalked(i), H(i) \in DOMAIN walked'
      PROVE  walked'[H(i)] = {f \in disk : f[1] \in U(i)}
  <2>1. CASE H(i) \in DOMAIN walked
    BY <1>1, <1>6, <1>7, <2>1
  <2>2. CASE H(i) \notin DOMAIN walked
    <3>1. PICK k \in reached : H(k) = H(i)
      BY <1>1, <1>7, <2>2
    <3>2. walked'[H(i)] = {f \in disk : \E j \in reached : H(j) = H(i) /\ f[1] \in U(j)}
      BY <1>1, <1>7, <2>2
    <3>3. \A j \in reached : H(j) = H(i) => U(j) = U(i)
      BY <1>2, <1>4, <1>7
    <3> QED
      BY <3>1, <3>2, <3>3
  <2> QED
    BY <2>1, <2>2
<1>8. disk' = disk /\ set' = set
  BY DEF Asleep
<1> QED
  BY <1>5, <1>7, <1>8 DEF WalkInv, H, U

\* Who is not answered at once is not there directly and was not found before.
LEMMA UnansweredIs ==
  ASSUME FinderInv, Unanswered
  PROVE  /\ phase = "trying" /\ InQuestion /\ Wanted \in NamesTried
         /\ Direct(Wanted) = Nowhere /\ engine.cache[Wanted].path = Nowhere
<1>1. phase = "trying" /\ InQuestion /\ TypeOK /\ QuestionInv
  BY DEF FinderInv, Unanswered, InQuestion
<1> QED
  BY <1>1, WantedIs DEF Unanswered, Reusable, Wanted

LEMMA SettledByListsRight ==
  ASSUME FinderAssumption, FinderInv, SettledByLists
  PROVE  FinderInv'
<1> DEFINE path == ListsSay(Wanted).path
<1>1. TypeOK /\ DbInv /\ WalkInv /\ CacheInv /\ QuestionInv
  BY DEF FinderInv
<1>2. /\ phase = "trying" /\ InQuestion /\ Wanted \in NamesTried
      /\ Direct(Wanted) = Nowhere /\ engine.cache[Wanted].path = Nowhere
  BY UnansweredIs DEF SettledByLists
<1>3. Asleep /\ UNCHANGED <<disk, lists>> /\ UNCHANGED <<db, unusable, tool, count>>
  BY DEF SettledByLists, Asleep
<1>4. /\ ListsSay(Wanted).says # "ask"
      /\ engine' = Remembered(engine, path) /\ Answered(path) /\ walked' = Walk(Wanted)
  BY DEF SettledByLists, Wanted
<1>5. path = Find(Wanted, Now)
  <2>1. <<Here, Wanted>> \notin disk
    BY <1>2, NotHere
  <2> QED
    BY <1>1, <1>2, <1>4, <2>1, ListsAreRight
<1> HIDE DEF path
<1>6. engine \in Engines
  BY <1>1 DEF TypeOK
<1>7. /\ QuestionInv' /\ AnswersRight' /\ CacheInv'
      /\ engine' \in Engines /\ engine'.external = engine.external
  BY <1>1, <1>2, <1>3, <1>4, <1>5, <1>6, AnswerKept
<1>8. WalkInv'
  BY <1>1, <1>3, <1>4, WalkIsRight DEF FinderAssumption
<1> QED
  BY <1>2, <1>3, <1>4, <1>7, <1>8, AnsweredAlone

LEMMA LeftToToolRight ==
  ASSUME FinderAssumption, FinderInv, LeftToTool
  PROVE  FinderInv'
<1>1. TypeOK /\ DbInv /\ WalkInv /\ CacheInv /\ QuestionInv /\ ChildInv /\ PipeInv
  BY DEF FinderInv
<1>2. /\ phase = "trying" /\ InQuestion /\ Wanted \in NamesTried
      /\ Direct(Wanted) = Nowhere /\ engine.cache[Wanted].path = Nowhere
  BY UnansweredIs DEF LeftToTool
<1>3. Asleep /\ phase' = "tool" /\ walked' = Walk(Wanted)
      /\ UNCHANGED <<disk, lists, asking, engine>>
      /\ UNCHANGED <<disk, lists, set, db, unusable, engine, tool, asking, answer, count>>
  BY DEF LeftToTool, Asleep, Wanted
<1>4. QuestionInv' /\ AnswersRight' /\ CacheInv'
  BY <1>1, <1>2, <1>3, QuestionStays DEF Talking
<1>5. WalkInv'
  BY <1>1, <1>3, WalkIsRight DEF FinderAssumption
<1>6. TypeOK'
  BY <1>1, <1>3 DEF TypeOK, Phases
<1>7. DbInv' /\ ChildInv' /\ PipeInv'
  BY <1>1, <1>2, <1>3 DEF DbInv, ChildInv, PipeInv, Quiets
<1> QED
  BY <1>4, <1>5, <1>6, <1>7 DEF FinderInv

\* An engine that no longer talks to a child is otherwise what it was.
LEMMA BrokenIs ==
  ASSUME TypeOK
  PROVE  LET e == [engine EXCEPT !.broken = TRUE]
         IN  /\ e \in Engines /\ e.cache = engine.cache /\ e.generation = engine.generation
             /\ e.external = engine.external
BY DEF TypeOK, Engines

\* The answers of a child of its own, whether the running one is kept or not.
LEMMA OwnChildrenRight ==
  ASSUME FinderAssumption, FinderInv, AskAlone \/ CannotStart \/ NeverGreeted \/ CannotPut
                                      \/ NoAnswer \/ NoSecondAnswer
  PROVE  FinderInv'
<1> DEFINE path == Find(Wanted, Now)
           b == [engine EXCEPT !.broken = TRUE]
<1>1. /\ b \in Engines /\ b.cache = engine.cache /\ b.generation = engine.generation
      /\ b.external = engine.external /\ engine \in Engines /\ unusable \in BOOLEAN
  BY BrokenIs DEF FinderInv, TypeOK
<1>2. Asleep /\ UNCHANGED <<db, walked, count>>
  BY DEF AskAlone, CannotStart, NeverGreeted, CannotPut, NoAnswer, NoSecondAnswer, Asleep
<1>3. phase \in Talking
  BY DEF AskAlone, CannotStart, NeverGreeted, CannotPut, NoAnswer, NoSecondAnswer, CanTalk, Talking
<1>4. unusable' \in BOOLEAN
  BY <1>1 DEF AskAlone, CannotStart, NeverGreeted, CannotPut, NoAnswer, NoSecondAnswer
<1>5. tool' = NoTool \/ (tool' = tool /\ phase = "tool")
  BY DEF AskAlone, CannotStart, NeverGreeted, CannotPut, NoAnswer, NoSecondAnswer, CanTalk
<1>6. \E e \in {engine, b} : engine' = Remembered(e, path) /\ Answered(path)
  <2>1. OwnChild(engine) \/ OwnChild(b)
    BY DEF AskAlone, CannotStart, NeverGreeted, CannotPut, NoAnswer, NoSecondAnswer
  <2> QED
    BY <2>1 DEF OwnChild, Wanted
<1> HIDE DEF b, path
<1>7. PICK e \in Engines : /\ e.cache = engine.cache /\ e.generation = engine.generation
                           /\ e.external = engine.external
                           /\ engine' = Remembered(e, path) /\ Answered(path)
  BY <1>1, <1>6
<1>8. path = Find(Wanted, Now)
  BY DEF path
<1> QED
  BY <1>2, <1>3, <1>4, <1>5, <1>7, <1>8, OwnChildRight

\* What a child has said, and what is left of it once an answer is read.
LEMMA SaidIs ==
  ASSUME NEW path
  PROVE  /\ Said(path) # <<>> => path # Nowhere /\ Said(path) = <<path>>
         /\ Append(Said(path), Marker) # <<>>
         /\ path = Nowhere => /\ Said(path) = <<>>
                              /\ Head(Append(Said(path), Marker)) = Marker
                              /\ Tail(Append(Said(path), Marker)) = <<>>
         /\ path # Nowhere => /\ Head(Append(Said(path), Marker)) = path
                              /\ Tail(Append(Said(path), Marker)) = <<Marker>>
<1>1. Said(path) \in Seq({path, Marker})
  <2>1. \A S : <<>> \in Seq(S)
    OBVIOUS
  <2>2. <<path>> \in Seq({path, Marker})
    OBVIOUS
  <2> QED
    BY <2>1, <2>2 DEF Said
<1>2. \A S : \A s \in Seq(S), e \in S :
        /\ Append(s, e) # <<>>
        /\ Head(Append(s, e)) = IF s = <<>> THEN e ELSE Head(s)
        /\ Tail(Append(s, e)) = IF s = <<>> THEN <<>> ELSE Append(Tail(s), e)
  BY AppendProperties, HeadTailAppend
<1>3. /\ Append(Said(path), Marker) # <<>>
      /\ Head(Append(Said(path), Marker)) = IF Said(path) = <<>> THEN Marker ELSE Head(Said(path))
      /\ Tail(Append(Said(path), Marker)) =
           IF Said(path) = <<>> THEN <<>> ELSE Append(Tail(Said(path)), Marker)
  <2> DEFINE s == Said(path)
             S == {path, Marker}
  <2>1. s \in Seq(S) /\ Marker \in S
    BY <1>1
  <2> HIDE DEF s, S
  <2>2. /\ Append(s, Marker) # <<>>
        /\ Head(Append(s, Marker)) = IF s = <<>> THEN Marker ELSE Head(s)
        /\ Tail(Append(s, Marker)) = IF s = <<>> THEN <<>> ELSE Append(Tail(s), Marker)
    BY <1>2, <2>1
  <2> QED
    BY <2>2 DEF s
<1>4. \A e : Head(<<e>>) = e /\ Tail(<<e>>) = <<>> /\ <<e>> # <<>> /\ Append(<<>>, e) = <<e>>
  OBVIOUS
<1>5. CASE path = Nowhere
  <2>1. Said(path) = <<>>
    BY <1>5 DEF Said
  <2> QED
    BY <1>3, <1>5, <2>1
<1>6. CASE path # Nowhere
  <2>1. Said(path) = <<path>>
    BY <1>6 DEF Said
  <2> QED
    BY <1>3, <1>4, <1>6, <2>1
<1> QED
  BY <1>5, <1>6

\* While an answer is awaited, its name is wanted and is not the marker's.
LEMMA AwaitedIs ==
  ASSUME FinderAssumption, FinderInv, phase \in {"answer", "second"}
  PROVE  /\ Wanted \in NamesTried /\ Wanted # MarkerName /\ Find(Wanted, Now) # Marker
         /\ tool.state \in {"running", "dead"} /\ ~Outdated(tool)
         /\ tool.generation = engine.external
         /\ phase \in Talking /\ InQuestion
         /\ Direct(Wanted) = Nowhere /\ engine.cache[Wanted].path = Nowhere
<1>1. TypeOK /\ QuestionInv /\ PipeInv /\ InQuestion /\ phase \in Talking
  BY DEF FinderInv, InQuestion, Talking
<1>2. Wanted \in NamesTried
  BY <1>1, WantedIs
<1>3. Wanted # MarkerName /\ tool.state \in {"running", "dead"} /\ ~Outdated(tool)
  BY <1>1 DEF PipeInv, Asked, Half
<1>4. Find(Wanted, Now) # Marker
  BY <1>2, <1>3, OnlyTheMarker DEF FinderAssumption
<1>5. tool.generation = engine.external
  BY <1>3 DEF Outdated
<1>6. Direct(Wanted) = Nowhere /\ engine.cache[Wanted].path = Nowhere
  BY <1>1 DEF QuestionInv
<1> QED
  BY <1>1, <1>2, <1>3, <1>4, <1>5, <1>6

\* Reading an answer changes nothing else of the child.
LEMMA ReadIs ==
  ASSUME TypeOK, tool.out # <<>>, tool' = [tool EXCEPT !.out = Tail(@)]
  PROVE  /\ tool' \in Tools /\ tool'.out = Tail(tool.out) /\ tool'.in = tool.in
         /\ tool'.state = tool.state /\ tool'.world = tool.world
         /\ tool'.generation = tool.generation
<1>1. Tail(tool.out) \in Seq(Found)
  BY DEF TypeOK
<1> QED
  BY <1>1 DEF TypeOK, Tools

LEMMA NotFoundRight ==
  ASSUME FinderAssumption, FinderInv, NotFound
  PROVE  FinderInv'
<1> DEFINE path == Find(Wanted, Now)
<1>1. TypeOK /\ PipeInv /\ phase = "answer" /\ phase \in Talking
  BY DEF FinderInv, NotFound, Talking
<1>2. path # Marker /\ tool.state \in {"running", "dead"}
  BY <1>1, AwaitedIs
<1>3. Asked
  BY <1>1 DEF PipeInv
<1>4. tool.out # <<>> /\ Head(tool.out) = Marker
  BY DEF NotFound
<1>5. \/ tool.out = <<>> \/ tool.out = Said(path)
      \/ tool.out = Append(Said(path), Marker) /\ tool.in = <<>>
  BY <1>3 DEF Asked, Quiets
<1> HIDE DEF path
<1>6. path = Nowhere /\ tool.in = <<>> /\ Tail(tool.out) = <<>>
  <2>1. tool.out # Said(path)
    <3>1. Head(<<path>>) = path
      OBVIOUS
    <3> QED
      BY <1>2, <1>4, <3>1, SaidIs
  <2> QED
    BY <1>2, <1>4, <1>5, <2>1, SaidIs
<1>7. /\ tool' \in Tools /\ tool'.out = <<>> /\ tool'.in = <<>>
      /\ tool'.state = tool.state /\ tool'.world = tool.world
      /\ tool'.generation = tool.generation
  BY <1>1, <1>6, ReadIs DEF NotFound
<1>8. /\ engine' = Remembered(engine, path) /\ Answered(path) /\ Asleep
      /\ UNCHANGED <<db, walked, count>> /\ unusable' = unusable
  BY <1>6 DEF NotFound, Asleep
<1>9. engine \in Engines /\ unusable \in BOOLEAN
  BY <1>1 DEF TypeOK
<1>10. path = Find(Wanted, Now)
  BY DEF path
<1> QED
  BY <1>1, <1>2, <1>7, <1>8, <1>9, <1>10, OwnChildRight

LEMMA SecondAnswerRight ==
  ASSUME FinderAssumption, FinderInv, SecondAnswer
  PROVE  FinderInv'
<1>1. TypeOK /\ PipeInv /\ phase = "second" /\ phase \in Talking
  BY DEF FinderInv, SecondAnswer, Talking
<1>2. tool.state \in {"running", "dead"}
  BY <1>1, AwaitedIs
<1>3. Half
  BY <1>1 DEF PipeInv
<1>4. tool.out # <<>>
  BY DEF SecondAnswer
<1>5. tool.out = <<Marker>> /\ tool.in = <<>>
  BY <1>3, <1>4 DEF Half, Quiets
<1>6. Tail(tool.out) = <<>>
  BY <1>5
<1>7. /\ tool' \in Tools /\ tool'.out = <<>> /\ tool'.in = <<>>
      /\ tool'.state = tool.state /\ tool'.world = tool.world
      /\ tool'.generation = tool.generation
  BY <1>1, <1>4, <1>5, <1>6, ReadIs DEF SecondAnswer
<1>8. /\ engine' = Remembered(engine, answer) /\ Answered(answer) /\ Asleep
      /\ UNCHANGED <<db, walked, count>> /\ unusable' = unusable
  BY DEF SecondAnswer, Asleep
<1>9. engine \in Engines /\ unusable \in BOOLEAN
  BY <1>1 DEF TypeOK
<1>10. answer = Find(Wanted, Now)
  BY <1>3 DEF Half
<1> QED
  BY <1>1, <1>2, <1>7, <1>8, <1>9, <1>10, OwnChildRight

\* Where the child alone changes, and says or hears something more.
LEMMA ChildSpeaks ==
  ASSUME FinderInv, Asleep, tool' \in Tools, ChildInv', PipeInv',
         UNCHANGED <<db, walked, unusable, engine, asking, phase, answer, count>>
  PROVE  FinderInv'
<1>1. TypeOK /\ DbInv /\ WalkInv /\ CacheInv /\ QuestionInv /\ AnswersRight
  BY DEF FinderInv
<1>2. TypeOK'
  BY <1>1 DEF TypeOK, Tools, Asleep
<1>3. DbInv' /\ WalkInv'
  BY <1>1, ListsStay
<1>4. QuestionInv' /\ CacheInv' /\ AnswersRight'
  BY <1>1, AskingStays DEF Asleep
<1> QED
  BY <1>2, <1>3, <1>4 DEF FinderInv

\* And where the question stays with the child, or is put to it.
LEMMA QuestionGoesOn ==
  ASSUME FinderInv, Asleep, phase \in Talking, phase' \in Talking, tool' \in Tools, ChildInv', PipeInv',
         UNCHANGED <<db, walked, unusable, engine, asking, count>>
  PROVE  FinderInv'
<1>1. /\ TypeOK /\ DbInv /\ WalkInv /\ CacheInv /\ QuestionInv /\ InQuestion
      /\ Direct(Wanted) = Nowhere /\ engine.cache[Wanted].path = Nowhere
  BY DEF FinderInv, InQuestion, QuestionInv
<1>2. TypeOK'
  BY <1>1 DEF TypeOK, Tools, Asleep, Phases, Talking
<1>3. DbInv' /\ WalkInv'
  BY <1>1, ListsStay
<1>4. UNCHANGED <<disk, lists, asking, engine>>
  BY DEF Asleep
<1>5. QuestionInv' /\ CacheInv' /\ AnswersRight'
  BY <1>1, <1>4, QuestionStays
<1> QED
  BY <1>2, <1>3, <1>5 DEF FinderInv

LEMMA StopOutdatedRight ==
  ASSUME FinderAssumption, FinderInv, StopOutdated
  PROVE  FinderInv'
<1>1. tool' = NoTool /\ NoTool \in Tools
  BY NoToolIs DEF StopOutdated, FinderInv, Tools
<1>2. phase = "tool" /\ Asleep
      /\ UNCHANGED <<db, walked, unusable, engine, asking, phase, answer, count>>
  BY DEF StopOutdated, CanTalk, Asleep
<1>3. ChildInv' /\ PipeInv'
  BY <1>1, <1>2, NoToolIs DEF ChildInv, PipeInv, Quiets
<1> QED
  BY <1>1, <1>2, <1>3, ChildSpeaks

LEMMA StartToolRight ==
  ASSUME FinderAssumption, FinderInv, StartTool
  PROVE  FinderInv'
<1>1. TypeOK
  BY DEF FinderInv
<1>2. /\ phase \in Talking /\ phase' = "greeting" /\ phase' \in Talking /\ Asleep
      /\ UNCHANGED <<db, walked, unusable, engine, asking, count>>
      /\ tool' = [NoTool EXCEPT !.state = "starting", !.world = Now]
  BY DEF StartTool, CanTalk, Talking, Asleep
<1>3. Now \in [disk : SUBSET MayStand(set), lists : {lists, {}}] /\ Now = [disk |-> disk, lists |-> lists]
  BY <1>1 DEF TypeOK, Now
<1> HIDE DEF Now
<1>4. NoTool \in Tools
  BY <1>1, NoToolIs DEF Tools
<1>5. /\ tool' \in Tools /\ tool'.world = Now /\ tool'.in = <<>> /\ tool'.out = <<>>
      /\ tool'.state = "starting" /\ tool'.generation = 0
  BY <1>2, <1>3, <1>4, NoToolIs DEF Tools
<1>6. ChildInv'
  <2>1. tool'.world.disk = disk /\ tool'.world.lists = lists
    BY <1>3, <1>5
  <2>2. 0 <= engine.external
    BY <1>1 DEF TypeOK, Engines
  <2> QED
    BY <1>2, <1>5, <2>1, <2>2 DEF ChildInv, Asleep
<1>7. PipeInv'
  BY <1>2, <1>5 DEF PipeInv, Greeting
<1> QED
  BY <1>2, <1>5, <1>6, <1>7, QuestionGoesOn

LEMMA GreetedRight ==
  ASSUME FinderAssumption, FinderInv, Greeted
  PROVE  FinderInv'
<1>1. TypeOK /\ ChildInv /\ PipeInv
  BY DEF FinderInv
<1>2. /\ phase = "greeting" /\ phase \in Talking /\ phase' = "tool" /\ phase' \in Talking /\ Asleep
      /\ UNCHANGED <<db, walked, unusable, engine, asking, count>> /\ tool.out # <<>>
      /\ tool' = [tool EXCEPT !.out = Tail(@), !.generation = engine.external]
  BY DEF Greeted, Talking, Asleep
<1>3. /\ tool.state # "none" /\ tool.in = <<>> /\ tool.out = <<Marker>>
      /\ tool.state # "starting"
  BY <1>1, <1>2 DEF PipeInv, Greeting
<1>4. Tail(tool.out) = <<>> /\ <<>> \in Seq(Found)
  BY <1>3
<1>5. /\ tool' \in Tools /\ tool'.world = tool.world /\ tool'.in = <<>> /\ tool'.out = <<>>
      /\ tool'.state = tool.state /\ tool'.generation = engine.external
  BY <1>1, <1>2, <1>3, <1>4, ZenonT(40) DEF TypeOK, Tools, Engines
<1>6. ChildInv'
  <2>1. engine.external <= engine.external
    BY <1>1 DEF TypeOK, Engines
  <2> QED
    BY <1>1, <1>2, <1>3, <1>5, <2>1 DEF ChildInv, Asleep
<1>7. PipeInv'
  BY <1>2, <1>3, <1>5 DEF PipeInv, Quiets
<1> QED
  BY <1>2, <1>5, <1>6, <1>7, QuestionGoesOn

LEMMA PutRight ==
  ASSUME FinderAssumption, FinderInv, PutQuestion
  PROVE  FinderInv'
<1>1. TypeOK /\ ChildInv /\ PipeInv /\ QuestionInv
  BY DEF FinderInv
<1>2. /\ phase = "tool" /\ phase \in Talking /\ phase' = "answer" /\ phase' \in Talking /\ Asleep
      /\ UNCHANGED <<db, walked, unusable, engine, asking, count>> /\ answer' = answer
      /\ tool.state = "running" /\ ~Outdated(tool) /\ Wanted # MarkerName
  BY DEF PutQuestion, CanTalk, Talking, Asleep, Wanted
<1>3. tool' = [tool EXCEPT !.in = @ \o <<Wanted, MarkerName>>]
  BY DEF PutQuestion, Wanted
<1>4. tool.in = <<>> /\ tool.out = <<>>
  BY <1>1, <1>2 DEF PipeInv, Quiets
<1>5. Wanted \in NamesTried
  BY <1>1, <1>2, WantedIs DEF InQuestion
<1>6. /\ tool.in \o <<Wanted, MarkerName>> = <<Wanted, MarkerName>>
      /\ <<Wanted, MarkerName>> \in Seq(NamesTried \cup {MarkerName})
  BY <1>4, <1>5
<1> DEFINE put == <<Wanted, MarkerName>>
<1>7. put \in Seq(NamesTried \cup {MarkerName}) /\ tool' = [tool EXCEPT !.in = put]
  BY <1>3, <1>6
<1> HIDE DEF put
<1>8. /\ tool' \in Tools /\ tool'.world = tool.world /\ tool'.in = put /\ tool'.out = <<>>
      /\ tool'.state = "running" /\ tool'.generation = tool.generation
  BY <1>1, <1>2, <1>4, <1>7, ZenonT(40) DEF TypeOK, Tools
<1>9. ChildInv'
  BY <1>1, <1>2, <1>8, ChildStays
<1>10. PipeInv'
  <2>1. Wanted' = Wanted
    BY <1>2 DEF Wanted
  <2>2. ~Outdated(tool)'
    BY <1>2, <1>8 DEF Outdated
  <2>3. Quiets(<<Wanted, MarkerName>>, <<>>)'
    BY <1>8, <2>1 DEF Quiets, put
  <2>4. Asked'
    BY <1>2, <1>8, <2>1, <2>2, <2>3 DEF Asked
  <2> QED
    BY <1>2, <2>4 DEF PipeInv
<1> QED
  BY <1>2, <1>8, <1>9, <1>10, QuestionGoesOn

LEMMA FirstAnswerRight ==
  ASSUME FinderAssumption, FinderInv, FirstAnswer
  PROVE  FinderInv'
<1> DEFINE path == Find(Wanted, Now)
<1>1. TypeOK /\ ChildInv /\ PipeInv
  BY DEF FinderInv
<1>2. /\ phase = "answer" /\ phase \in Talking /\ phase' = "second" /\ phase' \in Talking /\ Asleep
      /\ UNCHANGED <<disk, lists>> /\ UNCHANGED <<db, walked, unusable, engine, asking, count>>
      /\ tool.out # <<>> /\ Head(tool.out) # Marker /\ answer' = Head(tool.out)
      /\ tool' = [tool EXCEPT !.out = Tail(@)]
  BY DEF FirstAnswer, Talking, Asleep
<1>3. /\ tool.state \in {"running", "dead"} /\ ~Outdated(tool) /\ Wanted # MarkerName
  BY <1>2, AwaitedIs
<1>4. Asked
  BY <1>1, <1>2 DEF PipeInv
<1>5. \/ tool.out = Said(path) /\ tool.in = <<>> /\ tool.state = "dead"
      \/ tool.out = Said(path) /\ tool.in = <<MarkerName>> /\ tool.state = "running"
      \/ tool.out = Append(Said(path), Marker) /\ tool.in = <<>>
  BY <1>2, <1>3, <1>4 DEF Asked, Quiets
<1>6. /\ tool' \in Tools /\ tool'.out = Tail(tool.out) /\ tool'.in = tool.in
      /\ tool'.state = tool.state /\ tool'.world = tool.world
      /\ tool'.generation = tool.generation
  BY <1>1, <1>2, ReadIs
<1>7. \A e : Head(<<e>>) = e /\ Tail(<<e>>) = <<>>
  OBVIOUS
<1>8. Find(Wanted, Now)' = path
  <2>1. Wanted' = Wanted
    BY <1>2 DEF Wanted
  <2>2. Now' = Now
    BY <1>2 DEF Now
  <2> QED
    BY <2>1, <2>2
<1> HIDE DEF path
<1>9. /\ Head(tool.out) = path
      /\ \/ Tail(tool.out) = <<>> /\ tool.in = <<>> /\ tool.state = "dead"
         \/ Tail(tool.out) = <<>> /\ tool.in = <<MarkerName>> /\ tool.state = "running"
         \/ Tail(tool.out) = <<Marker>> /\ tool.in = <<>>
  <2>1. CASE tool.out = Said(path)
    <3>1. Said(path) = <<path>>
      BY <1>2, <2>1, SaidIs
    <3>2. Head(tool.out) = path /\ Tail(tool.out) = <<>>
      BY <1>7, <2>1, <3>1
    <3>3. \/ tool.in = <<>> /\ tool.state = "dead"
          \/ tool.in = <<MarkerName>> /\ tool.state = "running"
      <4>1. tool.out # Append(Said(path), Marker)
        BY <1>2, <2>1, <3>1, <1>7, SaidIs
      <4> QED
        BY <1>5, <4>1
    <3> QED
      BY <3>2, <3>3
  <2>2. CASE tool.out = Append(Said(path), Marker) /\ tool.in = <<>>
    BY <1>2, <2>2, SaidIs
  <2> QED
    BY <1>5, <2>1, <2>2
<1>10. ChildInv'
  BY <1>1, <1>2, <1>3, <1>6, ChildStays
<1>11. PipeInv'
  <2>1. Wanted' # MarkerName
    BY <1>2, <1>3 DEF Wanted
  <2>2. ~Outdated(tool)'
    BY <1>2, <1>3, <1>6 DEF Outdated
  <2>3. Half'
    BY <1>2, <1>3, <1>6, <1>8, <1>9, <2>1, <2>2 DEF Half, Quiets
  <2> QED
    BY <1>2, <2>3 DEF PipeInv
<1> QED
  BY <1>2, <1>6, <1>10, <1>11, QuestionGoesOn

LEMMA ToolGreetsRight ==
  ASSUME FinderAssumption, FinderInv, ToolGreets
  PROVE  FinderInv'
<1>1. TypeOK /\ ChildInv /\ PipeInv
  BY DEF FinderInv
<1>2. /\ tool.state = "starting" /\ tool' = [tool EXCEPT !.state = "running", !.out = Append(@, Marker)]
      /\ Asleep /\ UNCHANGED <<db, walked, unusable, engine, asking, phase, answer, count>>
  BY DEF ToolGreets, Asleep
<1>3. phase = "greeting" /\ tool.in = <<>> /\ tool.out = <<>>
  BY <1>1, <1>2 DEF PipeInv, Greeting, Asked, Half
<1>4. Append(tool.out, Marker) = <<Marker>> /\ <<Marker>> \in Seq(Found)
  BY <1>3 DEF Found
<1>5. /\ tool' \in Tools /\ tool'.world = tool.world /\ tool'.in = <<>> /\ tool'.out = <<Marker>>
      /\ tool'.state = "running" /\ tool'.generation = tool.generation
  BY <1>1, <1>2, <1>3, <1>4, ZenonT(40) DEF TypeOK, Tools
<1>6. ChildInv'
  BY <1>1, <1>2, <1>5, ChildStays
<1>7. PipeInv'
  BY <1>2, <1>3, <1>5 DEF PipeInv, Greeting
<1> QED
  BY <1>2, <1>5, <1>6, <1>7, ChildSpeaks

\* Whatever a child reads anew, it says what is so.
LEMMA ChildIsRight ==
  ASSUME FinderAssumption, ChildInv, tool.state # "none", tool.generation = engine.external,
         NEW world \in WorldsOf(tool), NEW name
  PROVE  Find(name, world) = Find(name, Now)
<1>1. /\ tool.world.lists = lists
      /\ \A f \in disk \cup tool.world.disk :
           f[1] \in Directories \ {Here} => (f \in disk <=> f \in tool.world.disk)
  BY DEF ChildInv
<1>2. Now.disk = disk /\ Now.lists = lists
  BY DEF Now
<1>3. CASE world = Now
  BY <1>3
<1>4. CASE world = [disk |-> {f \in disk : f[1] = Here} \cup {f \in tool.world.disk : f[1] # Here},
                    lists |-> tool.world.lists]
  <2>1. /\ world.lists = lists
        /\ world.disk = {f \in disk : f[1] = Here} \cup {f \in tool.world.disk : f[1] # Here}
    BY <1>1, <1>4
  <2>2. Alike(world, Now)
    BY <1>1, <1>2, <2>1 DEF Alike
  <2> QED
    BY <2>2, SameFind DEF FinderAssumption
<1> QED
  BY <1>3, <1>4 DEF WorldsOf

LEMMA ToolAnswersRight ==
  ASSUME FinderAssumption, FinderInv, ToolAnswers
  PROVE  FinderInv'
<1> DEFINE p == Find(Wanted, Now)
<1>1. TypeOK /\ ChildInv /\ PipeInv
  BY DEF FinderInv
<1>2. /\ tool.state = "running" /\ tool.in # <<>> /\ Asleep
      /\ UNCHANGED <<db, walked, unusable, engine, asking, phase, answer, count>>
  BY DEF ToolAnswers, Asleep
<1>3. phase \in {"answer", "second"}
  BY <1>1, <1>2 DEF PipeInv, Quiets, Greeting, TypeOK, Phases
<1>4. /\ Wanted # MarkerName /\ ~Outdated(tool) /\ tool.generation = engine.external
  BY <1>3, AwaitedIs
<1>5. PICK path : /\ path = Find(Head(tool.in), Now)
                  /\ tool' = [tool EXCEPT !.in = Tail(@),
                                          !.out = IF path = Nowhere THEN @ ELSE Append(@, path)]
  <2>1. PICK world \in WorldsOf(tool) :
           tool' = [tool EXCEPT !.in = Tail(@),
                                !.out = IF Find(Head(tool.in), world) = Nowhere THEN @
                                        ELSE Append(@, Find(Head(tool.in), world))]
    BY DEF ToolAnswers
  <2>2. Find(Head(tool.in), world) = Find(Head(tool.in), Now)
    BY <1>1, <1>2, <1>4, ChildIsRight
  <2> QED
    BY <2>1, <2>2
<1>6. Head(tool.in) \in NamesTried \cup {MarkerName} /\ Tail(tool.in) \in Seq(NamesTried \cup {MarkerName})
  BY <1>1, <1>2 DEF TypeOK
<1>7. path \in Found
  BY <1>5, <1>6, FindType DEF FinderAssumption
<1> DEFINE out == IF path = Nowhere THEN tool.out ELSE Append(tool.out, path)
<1>8. out \in Seq(Found)
  <2>1. tool.out \in Seq(Found)
    BY <1>1 DEF TypeOK
  <2>2. Append(tool.out, path) \in Seq(Found)
    BY <1>7, <2>1
  <2> QED
    BY <2>1, <2>2
<1>9. tool' = [tool EXCEPT !.in = Tail(tool.in), !.out = out]
  BY <1>5
<1>10. out = IF path = Nowhere THEN tool.out ELSE Append(tool.out, path)
  OBVIOUS
<1> HIDE DEF out, p
<1>11. /\ tool' \in Tools /\ tool'.world = tool.world /\ tool'.in = Tail(tool.in) /\ tool'.out = out
       /\ tool'.state = "running" /\ tool'.generation = tool.generation
  BY <1>1, <1>2, <1>6, <1>8, <1>9, ZenonT(40) DEF TypeOK, Tools
<1>12. ChildInv'
  BY <1>1, <1>2, <1>11, ChildStays
<1>13. /\ \A a : Head(<<a>>) = a /\ Tail(<<a>>) = <<>> /\ Append(<<>>, a) = <<a>>
       /\ \A a, b : Head(<<a, b>>) = a /\ Tail(<<a, b>>) = <<b>>
  OBVIOUS
<1>14. Find(MarkerName, Now) = Marker /\ Marker # Nowhere
  BY DEF Find, FinderAssumption, NamesAssumption
<1>15. /\ Wanted' = Wanted /\ Find(Wanted, Now)' = p /\ ~Outdated(tool)'
  <2>1. Wanted' = Wanted
    BY <1>2 DEF Wanted
  <2>2. Now' = Now
    BY <1>2 DEF Now, Asleep
  <2>3. Find(Wanted, Now)' = p
    BY <2>1, <2>2 DEF p
  <2>4. ~Outdated(tool)'
    BY <1>2, <1>4, <1>11 DEF Outdated
  <2> QED
    BY <2>1, <2>3, <2>4
<1>16. CASE phase = "answer"
  <2>1. Asked
    BY <1>1, <1>16 DEF PipeInv
  <2>2. \/ tool.in = <<Wanted, MarkerName>> /\ tool.out = <<>>
        \/ tool.in = <<MarkerName>> /\ tool.out = Said(p)
    BY <1>2, <2>1 DEF Asked, Quiets, p
  <2>3. \/ tool'.in = <<MarkerName>> /\ tool'.out = Said(p)
        \/ tool'.in = <<>> /\ tool'.out = Append(Said(p), Marker)
    <3>1. tool.in = <<Wanted, MarkerName>> /\ tool.out = <<>> =>
            tool'.in = <<MarkerName>> /\ tool'.out = Said(p)
      BY <1>11, <1>5, <1>10, <1>13 DEF p, Said
    <3>2. tool.in = <<MarkerName>> /\ tool.out = Said(p) =>
            tool'.in = <<>> /\ tool'.out = Append(Said(p), Marker)
      BY <1>11, <1>5, <1>10, <1>13, <1>14
    <3> QED
      BY <2>2, <3>1, <3>2
  <2>4. Asked'
    BY <1>4, <1>11, <1>15, <2>3 DEF Asked, Quiets, Said
  <2> QED
    BY <1>2, <1>11, <1>12, <1>16, <2>4, ChildSpeaks DEF PipeInv
<1>17. CASE phase = "second"
  <2>1. Half
    BY <1>1, <1>17 DEF PipeInv
  <2>2. tool.in = <<MarkerName>> /\ tool.out = <<>> /\ answer = p
    BY <1>2, <2>1 DEF Half, Quiets, p
  <2>3. path = Marker /\ tool'.in = <<>> /\ tool'.out = <<Marker>>
    BY <1>5, <1>10, <1>11, <1>13, <1>14, <2>2
  <2>4. Half'
    BY <1>2, <1>4, <1>11, <1>15, <2>2, <2>3 DEF Half, Quiets
  <2> QED
    BY <1>2, <1>11, <1>12, <1>17, <2>4, ChildSpeaks DEF PipeInv
<1> QED
  BY <1>3, <1>16, <1>17

LEMMA ToolDiesRight ==
  ASSUME FinderAssumption, FinderInv, ToolDies
  PROVE  FinderInv'
<1>1. TypeOK /\ ChildInv /\ PipeInv
  BY DEF FinderInv
<1>2. /\ tool.state \in {"starting", "running"} /\ tool' = [tool EXCEPT !.state = "dead", !.in = <<>>]
      /\ Asleep /\ UNCHANGED <<disk, lists>>
      /\ UNCHANGED <<db, walked, unusable, engine, asking, phase, answer, count>>
  BY DEF ToolDies, Asleep
<1>3. <<>> \in Seq(NamesTried \cup {MarkerName})
  OBVIOUS
<1>4. /\ tool' \in Tools /\ tool'.world = tool.world /\ tool'.in = <<>> /\ tool'.out = tool.out
      /\ tool'.state = "dead" /\ tool'.generation = tool.generation
  BY <1>1, <1>2, <1>3, ZenonT(40) DEF TypeOK, Tools
<1>5. ChildInv'
  BY <1>1, <1>2, <1>4, ChildStays
<1>6. Wanted' = Wanted /\ Find(Wanted, Now)' = Find(Wanted, Now)
  <2>1. Wanted' = Wanted
    BY <1>2 DEF Wanted
  <2>2. Now' = Now
    BY <1>2 DEF Now
  <2> QED
    BY <2>1, <2>2
<1>7. ~Outdated(tool) => ~Outdated(tool)'
  BY <1>2, <1>4 DEF Outdated
<1>8. PipeInv'
  <2>1. phase \notin {"greeting", "answer", "second"} => Quiets(<<>>, <<>>)'
    BY <1>1, <1>2, <1>4 DEF PipeInv, Quiets
  <2>2. phase = "greeting" => Greeting'
    BY <1>1, <1>4 DEF PipeInv, Greeting
  <2>3. phase = "answer" => Asked'
    <3>1. SUFFICES ASSUME Asked, tool.state = "running" PROVE Asked'
      BY <1>1, <1>2 DEF PipeInv, Asked
    <3>2. \/ tool.out = <<>> \/ tool.out = Said(Find(Wanted, Now))
          \/ tool.out = Append(Said(Find(Wanted, Now)), Marker)
      BY <3>1 DEF Asked, Quiets
    <3> QED
      BY <1>4, <1>6, <1>7, <3>1, <3>2 DEF Asked, Quiets, Said
  <2>4. phase = "second" => Half'
    BY <1>1, <1>2, <1>4, <1>6, <1>7 DEF PipeInv, Half, Quiets
  <2> QED
    BY <1>2, <1>4, <2>1, <2>2, <2>3, <2>4 DEF PipeInv
<1> QED
  BY <1>2, <1>4, <1>5, <1>8, ChildSpeaks

-----------------------------------------------------------------------------
(* Between questions.                                                      *)

LEMMA AskRight ==
  ASSUME FinderAssumption, FinderInv, NEW name \in Requests, NEW input \in BOOLEAN, Ask(name, input)
  PROVE  FinderInv'
<1> DEFINE all == IF input THEN Tries(name) ELSE <<Tries(name)[1]>>
<1>1. TypeOK /\ DbInv /\ WalkInv /\ CacheInv /\ ChildInv /\ PipeInv
  BY DEF FinderInv
<1>2. /\ phase \in {"idle", "told"} /\ phase' = "trying" /\ Asleep
      /\ UNCHANGED <<disk, lists, set, db, walked, unusable, engine, tool>>
      /\ asking' = [input |-> input, left |-> all, all |-> all, remembered |-> engine.cache]
      /\ count' = [count EXCEPT !.questions = @ + 1]
  BY DEF Ask, Asleep
<1>3. all \in Seq(NamesTried) /\ all # <<>>
  <2>1. Tries(name) \in Seq(NamesTried) /\ Tries(name) # <<>>
    BY DEF FinderAssumption, NamesAssumption
  <2> DEFINE t == Tries(name)
  <2>2. t \in Seq(NamesTried) /\ t # <<>>
    BY <2>1
  <2> HIDE DEF t
  <2>3. t[1] \in NamesTried
    BY <2>2
  <2>4. <<t[1]>> \in Seq(NamesTried) /\ <<t[1]>> # <<>>
    BY <2>3
  <2> QED
    BY <2>1, <2>4 DEF t
<1> HIDE DEF all
<1>4. count' \in [questions : Nat, writes : Nat, engines : Nat]
  <2>1. /\ count \in [questions : Nat, writes : Nat, engines : Nat]
        /\ count' = [count EXCEPT !.questions = @ + 1]
    BY <1>1, <1>2 DEF TypeOK
  <2> QED
    BY <2>1, SMTT(40)
<1>5. TypeOK'
  <2>1. asking' \in [input : BOOLEAN, left : Seq(NamesTried), all : Seq(NamesTried), remembered : Caches]
    BY <1>1, <1>2, <1>3 DEF TypeOK, Engines
  <2> QED
    BY <1>1, <1>2, <1>4, <2>1 DEF TypeOK, Phases
<1>6. CacheInv'
  BY <1>1, <1>2 DEF CacheInv, Now
<1>7. QuestionInv'
  <2>1. Remaining(0)'
    <3>1. asking'.all = all /\ asking'.left = all /\ Len(all) \in Nat
      BY <1>2, <1>3
    <3>2. Len(asking'.all) = 0 + Len(asking'.left)
      BY <3>1
    <3>3. \A i \in 1 .. Len(asking'.left) : asking'.left[i] = asking'.all[0 + i]
      BY <3>1
    <3> QED
      BY <3>2, <3>3 DEF Remaining
  <2>2. 0 \in 0 .. Len(asking'.all)
    BY <1>2, <1>3
  <2>3. asking'.left # <<>> /\ \A n \in NamesTried : engine'.cache[n].path = asking'.remembered[n].path
    BY <1>2, <1>3
  <2> QED
    BY <1>2, <2>1, <2>2, <2>3 DEF QuestionInv, Talking
<1>8. AnswersRight'
  BY <1>2 DEF AnswersRight
<1>9. DbInv' /\ WalkInv'
  BY <1>1, <1>2, ListsStay
<1>10. ChildInv' /\ PipeInv'
  BY <1>1, <1>2 DEF ChildInv, PipeInv, Quiets, Asleep
<1> QED
  BY <1>5, <1>6, <1>7, <1>8, <1>9, <1>10 DEF FinderInv

\* A later generation takes nothing that was not found for granted.
LEMMA LaterGeneration ==
  ASSUME TypeOK, CacheInv, engine'.cache = engine.cache, engine'.generation = engine.generation + 1
  PROVE  CacheInv'
<1> SUFFICES ASSUME NEW n \in NamesTried
             PROVE  /\ engine'.cache[n].generation <= engine'.generation
                    /\ engine'.cache[n].generation # engine'.generation
  BY DEF CacheInv
<1>1. engine.generation \in Nat /\ engine.cache[n].generation \in Int
  BY DEF TypeOK, Engines, Caches, Entries
<1>2. engine.cache[n].generation <= engine.generation
  BY DEF CacheInv
<1>3. \A g \in Int, h \in Nat : g <= h => g <= h + 1 /\ g # h + 1
  OBVIOUS
<1> QED
  BY <1>1, <1>2, <1>3

\* The end of a wait is the same whoever writes.
LEMMA QuietIs ==
  ASSUME FinderInv, Quiet, phase' = "idle"
  PROVE  /\ phase \in {"idle", "told"} /\ tool.state # "starting" /\ Quiets(<<>>, <<>>)
         /\ count.writes \in Nat /\ QuestionInv' /\ AnswersRight'
BY DEF FinderInv, Quiet, PipeInv, TypeOK, QuestionInv, InQuestion, Talking, AnswersRight

LEMMA OpenOutRight ==
  ASSUME FinderAssumption, FinderInv, NEW name \in Requests, OpenOut(name)
  PROVE  FinderInv'
<1> DEFINE file == <<WriteDir, Suffixed(name)[1]>>
<1>1. TypeOK /\ DbInv /\ WalkInv /\ CacheInv /\ ChildInv /\ PipeInv
  BY DEF FinderInv
<1>2. /\ disk' = disk \cup {file} /\ Quiet /\ phase' = "idle"
      /\ engine' = [engine EXCEPT !.generation = @ + 1]
      /\ count' = [count EXCEPT !.writes = @ + 1]
      /\ UNCHANGED <<lists, set, db, walked, unusable, tool, asking>>
  BY DEF OpenOut
<1>3. file[1] = WriteDir /\ file \in MayStand(set)
  BY DEF MayStand
<1>4. /\ engine' \in Engines /\ engine'.cache = engine.cache /\ engine'.external = engine.external
      /\ engine'.generation = engine.generation + 1
  <2>1. engine \in Engines /\ engine' = [engine EXCEPT !.generation = @ + 1]
    BY <1>1, <1>2 DEF TypeOK
  <2> QED
    BY <2>1 DEF Engines
<1> HIDE DEF file
<1>5. /\ phase \in {"idle", "told"} /\ tool.state # "starting" /\ Quiets(<<>>, <<>>)
      /\ QuestionInv' /\ AnswersRight'
  BY <1>2, QuietIs
<1>6. count' \in [questions : Nat, writes : Nat, engines : Nat]
  <2>1. /\ count \in [questions : Nat, writes : Nat, engines : Nat]
        /\ count' = [count EXCEPT !.writes = @ + 1]
    BY <1>1, <1>2 DEF TypeOK
  <2> QED
    BY <2>1
<1>7. TypeOK'
  BY <1>1, <1>2, <1>3, <1>4, <1>6 DEF TypeOK, Phases
<1>8. CacheInv'
  BY <1>1, <1>4, LaterGeneration
<1>9. DbInv'
  BY <1>1, <1>2 DEF DbInv
<1>10. WalkInv'
  <2>1. ASSUME NEW i \in DOMAIN SearchPath, IsWalked(i)
        PROVE  {f \in disk' : f[1] \in ToSet(SearchPath[i].dirs)}
                 = {f \in disk : f[1] \in ToSet(SearchPath[i].dirs)}
    <3>1. WriteDir \notin ToSet(SearchPath[i].dirs)
      BY <2>1 DEF FinderAssumption, PathAssumption
    <3> QED
      BY <1>2, <1>3, <3>1
  <2> QED
    BY <1>1, <1>2, <2>1 DEF WalkInv
<1>11. ChildInv'
  <2>1. file[1] \notin Directories \ {Here}
    BY <1>3 DEF FinderAssumption, PathAssumption
  <2> QED
    BY <1>1, <1>2, <1>4, <1>5, <2>1 DEF ChildInv
<1>12. PipeInv'
  BY <1>2, <1>5 DEF PipeInv, Quiets
<1> QED
  BY <1>5, <1>7, <1>8, <1>9, <1>10, <1>11, <1>12 DEF FinderInv

LEMMA ShellCommandRight ==
  ASSUME FinderAssumption, FinderInv, NEW file, ShellCommand(file)
  PROVE  FinderInv'
<1>1. TypeOK /\ DbInv /\ WalkInv /\ CacheInv /\ ChildInv /\ PipeInv
  BY DEF FinderInv
<1>2. /\ disk' = disk \cup {file} \/ disk' = disk \ {file}
      /\ file \in Installed(set) /\ Quiet /\ phase' = "idle"
      /\ engine' = [engine EXCEPT !.generation = @ + 1, !.external = @ + 1]
      /\ count' = [count EXCEPT !.writes = @ + 1]
      /\ UNCHANGED <<lists, set, db, walked, unusable, tool, asking>>
  BY DEF ShellCommand
<1>3. disk' \subseteq MayStand(set)
  BY <1>1, <1>2 DEF MayStand, TypeOK
<1>4. /\ engine' \in Engines /\ engine'.cache = engine.cache
      /\ engine'.external = engine.external + 1 /\ engine'.generation = engine.generation + 1
  <2>1. engine \in Engines /\ engine' = [engine EXCEPT !.generation = @ + 1, !.external = @ + 1]
    BY <1>1, <1>2 DEF TypeOK
  <2> DEFINE later == engine.generation + 1
             outer == engine.external + 1
  <2>2. later \in Nat /\ outer \in Nat
    BY <2>1 DEF Engines
  <2>3. engine' = [engine EXCEPT !.generation = later, !.external = outer]
    BY <2>1 DEF Engines
  <2> HIDE DEF later, outer
  <2>4. /\ engine' \in Engines /\ engine'.cache = engine.cache
        /\ engine'.external = outer /\ engine'.generation = later
    BY <2>1, <2>2, <2>3 DEF Engines
  <2> QED
    BY <2>4 DEF later, outer
<1>5. /\ phase \in {"idle", "told"} /\ tool.state # "starting" /\ Quiets(<<>>, <<>>)
      /\ QuestionInv' /\ AnswersRight'
  BY <1>2, QuietIs
<1>6. count' \in [questions : Nat, writes : Nat, engines : Nat]
  <2>1. /\ count \in [questions : Nat, writes : Nat, engines : Nat]
        /\ count' = [count EXCEPT !.writes = @ + 1]
    BY <1>1, <1>2 DEF TypeOK
  <2> QED
    BY <2>1
<1>7. TypeOK'
  BY <1>1, <1>2, <1>3, <1>4, <1>6 DEF TypeOK, Phases
<1>8. CacheInv'
  BY <1>1, <1>4, LaterGeneration
<1>9. DbInv'
  BY <1>1, <1>2 DEF DbInv
<1>10. WalkInv'
  <2>1. ASSUME NEW i \in DOMAIN SearchPath, IsWalked(i), set.plain
        PROVE  {f \in disk' : f[1] \in ToSet(SearchPath[i].dirs)}
                 = {f \in disk : f[1] \in ToSet(SearchPath[i].dirs)}
    <3>1. file[1] \notin ToSet(SearchPath[i].dirs)
      BY <1>1, <1>2, <2>1 DEF TypeOK, FinderAssumption, WorldAssumption
    <3> QED
      BY <1>2, <3>1
  <2> QED
    BY <1>1, <1>2, <2>1 DEF WalkInv
<1>11. ChildInv'
  <2>1. /\ engine.external \in Nat /\ tool.generation \in Nat
    BY <1>1 DEF TypeOK, Engines
  <2>2. \A g, e \in Nat : g <= e => g <= e + 1 /\ g # e + 1
    OBVIOUS
  <2>3. tool.state # "none" => tool.generation <= engine.external
    BY <1>1 DEF ChildInv
  <2> QED
    BY <1>1, <1>2, <1>4, <2>1, <2>2, <2>3 DEF ChildInv
<1>12. PipeInv'
  BY <1>2, <1>5 DEF PipeInv, Quiets
<1> QED
  BY <1>5, <1>7, <1>8, <1>9, <1>10, <1>11, <1>12 DEF FinderInv

LEMMA NextEngineRight ==
  ASSUME FinderAssumption, FinderInv, NextEngine
  PROVE  FinderInv'
<1>1. TypeOK /\ DbInv /\ WalkInv
  BY DEF FinderInv
<1>2. /\ engine' = NewEngine /\ tool' = NoTool /\ phase' = "idle" /\ Asleep
      /\ count' = [count EXCEPT !.engines = @ + 1]
      /\ UNCHANGED <<disk, lists, set, db, walked, unusable, asking>>
  BY DEF NextEngine, Asleep
<1>3. count' \in [questions : Nat, writes : Nat, engines : Nat]
  <2>1. /\ count \in [questions : Nat, writes : Nat, engines : Nat]
        /\ count' = [count EXCEPT !.engines = @ + 1]
    BY <1>1, <1>2 DEF TypeOK
  <2> QED
    BY <2>1, SMTT(40)
<1>4. NoTool \in Tools
  BY <1>1, NoToolIs DEF Tools
<1>5. TypeOK'
  BY <1>1, <1>2, <1>3, <1>4, NewEngineIs DEF TypeOK, Phases, Tools
<1>6. CacheInv'
  BY <1>2, NewEngineIs DEF CacheInv
<1>7. DbInv' /\ WalkInv'
  BY <1>1, <1>2, ListsStay
<1>8. ChildInv' /\ PipeInv' /\ QuestionInv' /\ AnswersRight'
  BY <1>2, NoToolIs DEF ChildInv, PipeInv, Quiets, QuestionInv, InQuestion, Talking, AnswersRight
<1> QED
  BY <1>5, <1>6, <1>7, <1>8 DEF FinderInv

-----------------------------------------------------------------------------
(* The theorems.                                                           *)

LEMMA StepFinder ==
  ASSUME FinderAssumption, FinderInv, [FindingNext]_findingVars
  PROVE  FinderInv'
<1>1. ASSUME NEW name \in Requests, NEW input \in BOOLEAN, Ask(name, input) PROVE FinderInv'
  BY <1>1, AskRight
<1>2. CASE Looks
  BY <1>2, ReadListsRight, FoundDirectlyRight, FoundInCacheRight, SettledByListsRight,
     LeftToToolRight DEF Looks
<1>3. CASE Talks
  BY <1>3, OwnChildrenRight, StopOutdatedRight, StartToolRight, GreetedRight, PutRight,
     NotFoundRight, FirstAnswerRight, SecondAnswerRight DEF Talks
<1>4. CASE ToolGreets \/ ToolAnswers \/ ToolDies
  BY <1>4, ToolGreetsRight, ToolAnswersRight, ToolDiesRight
<1>5. ASSUME NEW name \in Requests, OpenOut(name) PROVE FinderInv'
  BY <1>5, OpenOutRight
<1>6. ASSUME NEW file \in Installed(set), ShellCommand(file) PROVE FinderInv'
  BY <1>6, ShellCommandRight
<1>7. CASE NextEngine
  BY <1>7, NextEngineRight
<1>8. CASE UNCHANGED findingVars
  <2>1. /\ UNCHANGED <<disk, lists, engine, asking, phase, answer>>
        /\ UNCHANGED <<set, db, walked, unusable, tool, count>>
    BY <1>8 DEF findingVars
  <2>2. TypeOK /\ DbInv /\ WalkInv /\ CacheInv /\ QuestionInv /\ ChildInv /\ PipeInv /\ AnswersRight
    BY DEF FinderInv
  <2>3. QuestionInv' /\ CacheInv' /\ AnswersRight'
    BY <2>1, <2>2, AskingStays
  <2>4. Asleep /\ tool' = tool
    BY <2>1 DEF Asleep
  <2>5. TypeOK' /\ DbInv' /\ WalkInv'
    BY <2>1, <2>2 DEF TypeOK, DbInv, WalkInv
  <2>6. ChildInv' /\ PipeInv'
    BY <2>1, <2>2 DEF ChildInv, PipeInv, Quiets, Greeting, Asked, Half, Wanted, Outdated, Now
  <2> QED
    BY <2>3, <2>5, <2>6 DEF FinderInv
<1> QED
  BY <1>1, <1>2, <1>3, <1>4, <1>5, <1>6, <1>7, <1>8 DEF FindingNext

LEMMA FinderIsSound ==
  ASSUME FinderAssumption
  PROVE  FindingSpec => []FinderInv
<1>1. FindingInit => FinderInv
  BY InitFinder
<1>2. FinderInv /\ [FindingNext]_findingVars => FinderInv'
  BY StepFinder
<1> QED
  BY <1>1, <1>2, PTL DEF FindingSpec

\* Whoever answers a question of the finder, in whatever order the child
\* speaks, falls silent, dies or is started anew between commands and files
\* written, the answer is the one the tool would give now, or one found
\* before (engine.c, resolve_file and the finder; filedb.c).
THEOREM AnswersAreRight ==
  ASSUME FinderAssumption
  PROVE  FindingSpec => []AnswersRight
<1>1. FinderInv => AnswersRight
  BY DEF FinderInv
<1> QED
  BY <1>1, FinderIsSound, PTL

\* The pipes hold nothing of an earlier question: while a name is asked after
\* they hold its question and as much of its answer and the marker's as has
\* been said, and otherwise nothing (engine.c, finder_ask).
THEOREM PipesAreClean ==
  ASSUME FinderAssumption
  PROVE  FindingSpec => []PipeInv
<1>1. FinderInv => PipeInv
  BY DEF FinderInv
<1> QED
  BY <1>1, FinderIsSound, PTL

\* What a directory held when it was walked it holds still, where walks are
\* believed (filedb.c, the index of a directory searched on disk).
THEOREM WalksAreFresh ==
  ASSUME FinderAssumption
  PROVE  FindingSpec => [](TypeOK /\ WalkInv)
<1>1. FinderInv => TypeOK /\ WalkInv
  BY DEF FinderInv
<1> QED
  BY <1>1, FinderIsSound, PTL
=============================================================================
