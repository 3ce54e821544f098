------------------------------ MODULE ListLemmas ------------------------------
(***************************************************************************)
(* Lemmas about lists: what FlattenSeq joins, how a list spreads when each *)
(* node gives several elements, and how many elements of a set a list      *)
(* holds.                                                                  *)
(* They are what the proofs about the page builder's lists rest on.        *)
(* NatInd stands for the induction theorem, whose operator parameter the   *)
(* provers cannot instantiate.                                             *)
(***************************************************************************)
EXTENDS Integers, Sequences, SequencesExt, TLAPS, WellFoundedInduction, SequenceTheorems, FiniteSetTheorems

\* Induction over the naturals for a set: one that holds 0 and, with a number,
\* the next one, holds every number. It follows from < being well-founded.
LEMMA NatInd ==
  ASSUME NEW S, 0 \in S, \A n \in Nat : n \in S => n+1 \in S
  PROVE  Nat \subseteq S
<1> DEFINE T == Nat \ S
           R == OpToRel(<, Nat)
<1>1. SUFFICES ASSUME T # {} PROVE FALSE
  OBVIOUS
<1>2. IsWellFoundedOn(R, Nat)
  BY NatLessThanWellFounded
<1>3. PICK x \in T : \A y \in T : ~(<<y,x>> \in R)
  <2> HIDE DEF R, T
  <2>1. T \subseteq Nat BY DEF T
  <2> QED BY <1>1, <1>2, <2>1, WFMin
<1>4. x # 0 OBVIOUS
<1>5. x-1 \in Nat BY <1>4
<1>6. x - 1 \notin T
  <2>1. <<x-1, x>> \in R
    BY <1>5 DEF OpToRel
  <2> QED BY <2>1, <1>3
<1> QED BY <1>5, <1>6

\* f is the function FlattenSeq defines by recursion: f[i] joins the first i parts of s.
IsFlattening(f, s) == f = [i \in 1 .. Len(s) |-> IF i = 1 THEN s[i] ELSE f[i-1] \o s[i]]

\* Such a function exists for every sequence of sequences.
LEMMA FlatteningExists ==
  ASSUME NEW S, NEW s \in Seq(Seq(S))
  PROVE  \E f \in [1 .. Len(s) -> Seq(S)] : IsFlattening(f, s)
<1> DEFINE Up(f, n) == \A i \in 1 .. n : f[i] = IF i = 1 THEN s[i] ELSE f[i-1] \o s[i]
           Q(n) == n <= Len(s) => \E f \in [1 .. n -> Seq(S)] : Up(f, n)
           T == {n \in Nat : Q(n)}
<1>0. Len(s) \in Nat /\ \A i \in 1 .. Len(s) : s[i] \in Seq(S)
  OBVIOUS
<1>1. Q(0)
  <2>1. [i \in 1 .. 0 |-> <<>>] \in [1 .. 0 -> Seq(S)] OBVIOUS
  <2>2. Up([i \in 1 .. 0 |-> <<>>], 0) OBVIOUS
  <2> QED BY <2>1, <2>2
<1>2. ASSUME NEW n \in Nat, Q(n) PROVE Q(n + 1)
  <2> SUFFICES ASSUME n + 1 <= Len(s) PROVE \E f \in [1 .. n+1 -> Seq(S)] : Up(f, n+1)
    OBVIOUS
  <2>0. n <= Len(s) /\ n + 1 \in 1 .. Len(s) BY <1>0
  <2>1. PICK f \in [1 .. n -> Seq(S)] : Up(f, n)
    BY <1>2, <2>0
  <2> DEFINE new == IF n = 0 THEN s[1] ELSE f[n] \o s[n+1]
             g == [i \in 1 .. n+1 |-> IF i <= n THEN f[i] ELSE new]
  <2>2. new \in Seq(S)
    <3>1. CASE n = 0 BY <3>1, <1>0, <2>0
    <3>2. CASE n # 0
      <4>1. f[n] \in Seq(S) /\ s[n+1] \in Seq(S) BY <3>2, <1>0, <2>0
      <4>2. f[n] \o s[n+1] \in Seq(S) BY <4>1
      <4> QED BY <4>2, <3>2
    <3> QED BY <3>1, <3>2
  <2>3. g \in [1 .. n+1 -> Seq(S)]
    <3> HIDE DEF new
    <3> QED BY <2>2
  <2>4. ASSUME NEW i \in 1 .. n+1 PROVE g[i] = IF i = 1 THEN s[i] ELSE g[i-1] \o s[i]
    <3>1. CASE i <= n
      <4>1. i \in 1 .. n /\ (i # 1 => i-1 \in 1 .. n) BY <3>1
      <4>2. g[i] = f[i] /\ (i # 1 => g[i-1] = f[i-1]) BY <4>1
      <4>3. f[i] = IF i = 1 THEN s[i] ELSE f[i-1] \o s[i] BY <4>1, <2>1
      <4> QED BY <4>2, <4>3
    <3>2. CASE i = n + 1
      <4>1. g[i] = new BY <3>2
      <4>2. n # 0 => g[i-1] = f[n] BY <3>2
      <4> QED BY <4>1, <4>2, <3>2
    <3> QED BY <3>1, <3>2
  <2> HIDE DEF g
  <2> QED BY <2>3, <2>4
<1>3. Q(Len(s))
  <2> HIDE DEF Q
  <2>1. 0 \in T /\ \A n \in Nat : n \in T => n+1 \in T BY <1>1, <1>2
  <2>2. Nat \subseteq T
    <3> HIDE DEF T
    <3> QED BY <2>1, NatInd
  <2> QED BY <2>2, <1>0
<1>4. PICK f \in [1 .. Len(s) -> Seq(S)] : Up(f, Len(s))
  BY <1>3, <1>0
<1>5. IsFlattening(f, s)
  BY <1>4 DEF IsFlattening
<1> QED BY <1>5

\* There is only one such function.
LEMMA FlatteningUnique ==
  ASSUME NEW s, Len(s) \in Nat, NEW f, NEW g, IsFlattening(f, s), IsFlattening(g, s)
  PROVE  f = g
<1> DEFINE Q(n) == n \in 1 .. Len(s) => f[n] = g[n]
           T == {n \in Nat : Q(n)}
           Step(h, i) == IF i = 1 THEN s[i] ELSE h[i-1] \o s[i]
<1>0. /\ DOMAIN f = 1 .. Len(s) /\ f = [i \in DOMAIN f |-> f[i]]
      /\ DOMAIN g = 1 .. Len(s) /\ g = [i \in DOMAIN g |-> g[i]]
      /\ \A i \in 1 .. Len(s) : f[i] = Step(f, i) /\ g[i] = Step(g, i)
  BY DEF IsFlattening
<1>1. Q(0) OBVIOUS
<1>2. ASSUME NEW n \in Nat, Q(n) PROVE Q(n+1)
  <2> SUFFICES ASSUME n+1 \in 1 .. Len(s) PROVE f[n+1] = g[n+1]
    OBVIOUS
  <2>1. Step(f, n+1) = Step(g, n+1)
    <3>1. CASE n = 0 BY <3>1
    <3>2. CASE n # 0
      <4>1. n \in 1 .. Len(s) BY <3>2
      <4>2. f[n] = g[n] BY <4>1, <1>2
      <4>3. n + 1 - 1 = n OBVIOUS
      <4> QED BY <4>2, <4>3
    <3> QED BY <3>1, <3>2
  <2> HIDE DEF Step
  <2> QED BY <2>1, <1>0
<1>3. \A n \in Nat : Q(n)
  <2> HIDE DEF Q
  <2>1. 0 \in T /\ \A n \in Nat : n \in T => n+1 \in T BY <1>1, <1>2
  <2>2. Nat \subseteq T
    <3> HIDE DEF T
    <3> QED BY <2>1, NatInd
  <2> QED BY <2>2
<1>4. \A n \in 1 .. Len(s) : f[n] = g[n]
  BY <1>3
<1> QED BY <1>0, <1>4

\* what FlattenSeq of a nonempty sequence is
LEMMA FlattenIs ==
  ASSUME NEW S, NEW s \in Seq(Seq(S)), NEW f, IsFlattening(f, s), s # <<>>
  PROVE  FlattenSeq(s) = f[Len(s)]
<1> DEFINE c == CHOOSE h : h = [i \in 1 .. Len(s) |-> IF i = 1 THEN s[i] ELSE h[i-1] \o s[i]]
<1>1. Len(s) # 0 /\ Len(s) \in Nat OBVIOUS
<1>2. FlattenSeq(s) = c[Len(s)]
  BY <1>1 DEF FlattenSeq
<1>3. IsFlattening(c, s)
  BY DEF IsFlattening
<1>4. c = f
  <2> HIDE DEF c
  <2> QED BY <1>1, <1>3, FlatteningUnique
<1> QED BY <1>2, <1>4

\* A list that is not empty, and its last element.
LEMMA SplitLast ==
  ASSUME NEW S, NEW n \in Nat, NEW u \in Seq(S), Len(u) = n + 1
  PROVE  \E v \in Seq(S), x \in S : u = Append(v, x) /\ Len(v) = n
<1>1. SubSeq(u, 1, n) \in Seq(S) /\ u[n+1] \in S /\ u = Append(SubSeq(u, 1, n), u[n+1])
      /\ Len(SubSeq(u, 1, n)) = n
  OBVIOUS
<1> QED BY <1>1

\* Nothing flattens to nothing.
LEMMA FlattenEmpty == FlattenSeq(<<>>) = <<>>
BY DEF FlattenSeq

\* Flattening lists of S gives a list of S.
LEMMA FlattenType ==
  ASSUME NEW S, NEW s \in Seq(Seq(S))
  PROVE  FlattenSeq(s) \in Seq(S)
<1>1. CASE s = <<>>
  <2>1. <<>> \in Seq(S) OBVIOUS
  <2> QED BY <2>1, <1>1, FlattenEmpty
<1>2. CASE s # <<>>
  <2>1. PICK f \in [1 .. Len(s) -> Seq(S)] : IsFlattening(f, s) BY FlatteningExists
  <2>2. FlattenSeq(s) = f[Len(s)] BY <2>1, <1>2, FlattenIs
  <2>3. Len(s) \in 1 .. Len(s) BY <1>2
  <2> QED BY <2>1, <2>2, <2>3
<1> QED BY <1>1, <1>2

\* One more part adds its elements at the end.
LEMMA FlattenAppend ==
  ASSUME NEW S, NEW s \in Seq(Seq(S)), NEW x \in Seq(S)
  PROVE  FlattenSeq(Append(s, x)) = FlattenSeq(s) \o x
<1> DEFINE t == Append(s, x)
<1>0. t \in Seq(Seq(S)) /\ Len(t) = Len(s) + 1 /\ t # <<>> /\ Len(s) \in Nat
      /\ (\A i \in 1 .. Len(s) : t[i] = s[i]) /\ t[Len(s)+1] = x
  <2> DEFINE E == Seq(S)
  <2> HIDE DEF E
  <2>1. s \in Seq(E) /\ x \in E BY DEF E
  <2>2. t \in Seq(E) /\ Len(t) = Len(s) + 1 /\ t # <<>> /\ Len(s) \in Nat
        /\ (\A i \in 1 .. Len(s) : t[i] = s[i]) /\ t[Len(s)+1] = x
    BY <2>1, AppendProperties
  <2> QED BY <2>2 DEF E
<1> HIDE DEF t
<1>1. PICK f \in [1 .. Len(t) -> Seq(S)] : IsFlattening(f, t)
  BY <1>0, FlatteningExists
<1>2. FlattenSeq(t) = f[Len(t)]
  BY <1>0, <1>1, FlattenIs
<1>3. CASE s = <<>>
  <2>1. f[1] = x BY <1>0, <1>1, <1>3 DEF IsFlattening
  <2>2. <<>> \o x = x OBVIOUS
  <2> QED BY <2>1, <2>2, <1>2, <1>3, <1>0, FlattenEmpty DEF t
<1>4. CASE s # <<>>
  <2> DEFINE g == [i \in 1 .. Len(s) |-> f[i]]
  <2>0. \A i \in 1 .. Len(t) : f[i] = IF i = 1 THEN t[i] ELSE f[i-1] \o t[i]
    BY <1>1 DEF IsFlattening
  <2>1. IsFlattening(g, s)
    <3>1. ASSUME NEW i \in 1 .. Len(s) PROVE f[i] = IF i = 1 THEN s[i] ELSE g[i-1] \o s[i]
      <4>1. i \in 1 .. Len(t) /\ t[i] = s[i] BY <1>0
      <4>2. f[i] = IF i = 1 THEN s[i] ELSE f[i-1] \o s[i] BY <4>1, <2>0
      <4>3. i # 1 => i - 1 \in 1 .. Len(s) /\ g[i-1] = f[i-1] BY <1>0
      <4> QED BY <4>2, <4>3
    <3> QED BY <3>1 DEF IsFlattening
  <2>2. FlattenSeq(s) = g[Len(s)]
    <3> HIDE DEF g
    <3> QED BY <2>1, <1>4, FlattenIs
  <2>3. Len(s) \in 1 .. Len(s) /\ Len(s) + 1 \in 1 .. Len(t) /\ Len(s) + 1 # 1
    BY <1>4, <1>0
  <2>4. f[Len(s)+1] = f[Len(s)] \o t[Len(s)+1]
    <3>1. Len(s) + 1 - 1 = Len(s) BY <1>0
    <3>2. PICK k : k = Len(s) + 1 OBVIOUS
    <3>3. k \in 1 .. Len(t) /\ k # 1 BY <2>3, <3>2
    <3>4. f[k] = f[k-1] \o t[k] BY <2>0, <3>3
    <3>5. k - 1 = Len(s) BY <3>1, <3>2
    <3> QED BY <3>2, <3>4, <3>5
  <2> QED BY <2>2, <2>3, <2>4, <1>2, <1>0 DEF t
<1> QED BY <1>3, <1>4

\* Joining lists is associative.
LEMMA Associative ==
  \A S : \A a, b, c \in Seq(S) : (a \o b) \o c = a \o (b \o c)
BY ConcatAssociative

\* The step of the induction for FlattenConcat.
LEMMA FlattenLonger ==
  ASSUME NEW S, NEW s \in Seq(Seq(S)), NEW v \in Seq(Seq(S)), NEW x \in Seq(S),
         FlattenSeq(s \o v) = FlattenSeq(s) \o FlattenSeq(v)
  PROVE  FlattenSeq(s \o Append(v, x)) = FlattenSeq(s) \o FlattenSeq(Append(v, x))
<1>1. s \o Append(v, x) = Append(s \o v, x) /\ s \o v \in Seq(Seq(S))
  <2> DEFINE E == Seq(S)
  <2> HIDE DEF E
  <2>1. s \in Seq(E) /\ v \in Seq(E) /\ x \in E BY DEF E
  <2>2. s \o Append(v, x) = Append(s \o v, x) /\ s \o v \in Seq(E) BY <2>1, SMTT(40)
  <2> QED BY <2>2 DEF E
<1>2. FlattenSeq(s) \in Seq(S) /\ FlattenSeq(v) \in Seq(S)
  BY FlattenType
<1>3. FlattenSeq(Append(v, x)) = FlattenSeq(v) \o x
  BY FlattenAppend
<1>4. FlattenSeq(s \o Append(v, x)) = FlattenSeq(s \o v) \o x
  BY <1>1, FlattenAppend
<1>5. (FlattenSeq(s) \o FlattenSeq(v)) \o x = FlattenSeq(s) \o (FlattenSeq(v) \o x)
  <2> DEFINE a == FlattenSeq(s)
             b == FlattenSeq(v)
  <2>1. a \in Seq(S) /\ b \in Seq(S) /\ x \in Seq(S) BY <1>2
  <2> HIDE DEF a, b
  <2>2. (a \o b) \o x = a \o (b \o x) BY <2>1, Associative, SMTT(40)
  <2> QED BY <2>2 DEF a, b
<1> QED BY <1>3, <1>4, <1>5

\* Flattening two lists of parts one after the other joins what each flattens to.
LEMMA FlattenConcat ==
  ASSUME NEW S, NEW s \in Seq(Seq(S)), NEW t \in Seq(Seq(S))
  PROVE  FlattenSeq(s \o t) = FlattenSeq(s) \o FlattenSeq(t)
<1> DEFINE Same(u) == FlattenSeq(s \o u) = FlattenSeq(s) \o FlattenSeq(u)
           Q(n) == \A u \in Seq(Seq(S)) : Len(u) = n => Same(u)
           T == {n \in Nat : Q(n)}
<1>1. Q(0)
  <2> SUFFICES ASSUME NEW u \in Seq(Seq(S)), Len(u) = 0 PROVE Same(u)
    OBVIOUS
  <2>1. u = <<>> /\ s \o u = s OBVIOUS
  <2>2. FlattenSeq(s) \in Seq(S) BY FlattenType
  <2>3. FlattenSeq(s) \o <<>> = FlattenSeq(s) BY <2>2
  <2> QED BY <2>1, <2>3, FlattenEmpty
<1>2. ASSUME NEW n \in Nat, Q(n) PROVE Q(n+1)
  <2> SUFFICES ASSUME NEW u \in Seq(Seq(S)), Len(u) = n+1 PROVE Same(u)
    OBVIOUS
  <2>1. PICK v \in Seq(Seq(S)), x \in Seq(S) : u = Append(v, x) /\ Len(v) = n
    BY SplitLast
  <2>2. Same(v)
    BY <1>2, <2>1
  <2> QED BY <2>1, <2>2, FlattenLonger
<1>3. Q(Len(t))
  <2> HIDE DEF Q
  <2>1. 0 \in T /\ \A n \in Nat : n \in T => n+1 \in T BY <1>1, <1>2
  <2>2. Nat \subseteq T
    <3> HIDE DEF T
    <3> QED BY <2>1, NatInd
  <2> QED BY <2>2
<1> QED BY <1>3

------------------------------------------------------------------------------
\* What a function makes of each element of a list, and all that in one list.
\* (The set of functions has a name for the provers' sake.)
Maps(g, N, E) == g \in [N -> E]
\* The list of what g gives for each element, and these joined into one list.
Mapped(g, list) == [i \in DOMAIN list |-> g[list[i]]]
Spread(g, list) == FlattenSeq(Mapped(g, list))

\* Mapped has the length of its list and g's value at each place.
LEMMA MappedIs ==
  ASSUME NEW N, NEW E, NEW g, Maps(g, N, E), NEW s \in Seq(N)
  PROVE  /\ Mapped(g, s) \in Seq(E)
         /\ Len(Mapped(g, s)) = Len(s)
         /\ \A i \in 1 .. Len(s) : Mapped(g, s)[i] = g[s[i]]
BY DEF Mapped, Maps

\* Mapping distributes over joining.
LEMMA MappedConcat ==
  ASSUME NEW N, NEW E, NEW g, Maps(g, N, E), NEW s \in Seq(N), NEW t \in Seq(N)
  PROVE  Mapped(g, s \o t) = Mapped(g, s) \o Mapped(g, t)
<1> DEFINE st == s \o t
           gs == Mapped(g, s)
           gt == Mapped(g, t)
           gst == Mapped(g, st)
<1>2. st \in Seq(N) /\ Len(st) = Len(s) + Len(t)
      /\ \A i \in 1 .. Len(st) : st[i] = IF i <= Len(s) THEN s[i] ELSE t[i - Len(s)]
  BY ConcatProperties
<1>3. gs \in Seq(E) /\ gt \in Seq(E) /\ Len(gs) = Len(s) /\ Len(gt) = Len(t)
      /\ (\A i \in 1 .. Len(s) : gs[i] = g[s[i]]) /\ (\A i \in 1 .. Len(t) : gt[i] = g[t[i]])
  BY MappedIs
<1> HIDE DEF gs, gt, st
<1>4. gst \in Seq(E) /\ Len(gst) = Len(st) /\ \A i \in 1 .. Len(st) : gst[i] = g[st[i]]
  <2>1. st \in Seq(N) BY <1>2
  <2> QED BY <2>1, SMTT(40) DEF Mapped, Maps
<1> HIDE DEF gst
<1>5. gs \o gt \in Seq(E) /\ Len(gs \o gt) = Len(gs) + Len(gt)
      /\ \A i \in 1 .. Len(gs) + Len(gt) : (gs \o gt)[i] = IF i <= Len(gs) THEN gs[i] ELSE gt[i - Len(gs)]
  BY <1>3, ConcatProperties, ZenonT(40)
<1>6. ASSUME NEW i \in 1 .. Len(gst) PROVE gst[i] = (gs \o gt)[i]
  <2>1. CASE i <= Len(s)
    <3>0. Len(s) \in Nat /\ Len(t) \in Nat OBVIOUS
    <3>1. i \in 1 .. Len(s) /\ i \in 1 .. Len(st) BY <2>1, <3>0, <1>2, <1>4
    <3>2. gst[i] = g[s[i]] BY <2>1, <3>1, <1>2, <1>4
    <3>3. (gs \o gt)[i] = gs[i] BY <2>1, <3>0, <3>1, <1>2, <1>3, <1>5
    <3> QED BY <3>1, <3>2, <3>3, <1>3
  <2>2. CASE ~(i <= Len(s))
    <3>0. Len(s) \in Nat /\ Len(t) \in Nat OBVIOUS
    <3>1. i - Len(s) \in 1 .. Len(t) BY <2>2, <3>0, <1>2, <1>4
    <3>2. gst[i] = g[t[i - Len(s)]] BY <2>2, <1>2, <1>4
    <3>3. (gs \o gt)[i] = gt[i - Len(s)] BY <2>2, <1>2, <1>3, <1>4, <1>5
    <3> QED BY <3>1, <3>2, <3>3, <1>3
  <2> QED BY <2>1, <2>2
<1>7. gst = gs \o gt
  BY <1>2, <1>3, <1>4, <1>5, <1>6, SeqEqual
<1> QED BY <1>7 DEF gst, st, gs, gt

\* A set of sequences under a name of its own, so that sequences of sequences
\* are sequences of its elements.
LEMMA SpreadIsSeq ==
  ASSUME NEW N, NEW S, NEW g, Maps(g, N, Seq(S)), NEW s \in Seq(N)
  PROVE  Mapped(g, s) \in Seq(Seq(S))
<1> DEFINE E == Seq(S)
<1> HIDE DEF E
<1>1. Maps(g, N, E) BY DEF E
<1>2. Mapped(g, s) \in Seq(E) BY <1>1, MappedIs
<1> QED BY <1>2 DEF E

\* Spreading a list of N by a g that gives lists of S is a list of S.
LEMMA SpreadType ==
  ASSUME NEW N, NEW S, NEW g, Maps(g, N, Seq(S)), NEW s \in Seq(N)
  PROVE  Spread(g, s) \in Seq(S)
<1>1. Mapped(g, s) \in Seq(Seq(S)) BY SpreadIsSeq
<1>2. FlattenSeq(Mapped(g, s)) \in Seq(S) BY <1>1, FlattenType
<1> QED BY <1>2 DEF Spread

\* An empty list spreads to nothing.
LEMMA SpreadEmpty ==
  ASSUME NEW g PROVE Spread(g, <<>>) = <<>>
<1>1. Mapped(g, <<>>) = <<>> BY DEF Mapped
<1> QED BY <1>1, FlattenEmpty DEF Spread

\* Spreading distributes over joining.
LEMMA SpreadConcat ==
  ASSUME NEW N, NEW S, NEW g, Maps(g, N, Seq(S)), NEW s \in Seq(N), NEW t \in Seq(N)
  PROVE  Spread(g, s \o t) = Spread(g, s) \o Spread(g, t)
<1>1. Mapped(g, s \o t) = Mapped(g, s) \o Mapped(g, t)
  <2> DEFINE E == Seq(S)
  <2> HIDE DEF E
  <2>1. Maps(g, N, E) BY DEF E
  <2> QED BY <2>1, MappedConcat
<1>2. Mapped(g, s) \in Seq(Seq(S)) /\ Mapped(g, t) \in Seq(Seq(S)) BY SpreadIsSeq
<1>3. FlattenSeq(Mapped(g, s) \o Mapped(g, t))
      = FlattenSeq(Mapped(g, s)) \o FlattenSeq(Mapped(g, t)) BY <1>2, FlattenConcat
<1> QED BY <1>1, <1>3 DEF Spread

\* A list of one element spreads to what g gives for it.
LEMMA SpreadOne ==
  ASSUME NEW N, NEW S, NEW g, Maps(g, N, Seq(S)), NEW x \in N
  PROVE  Spread(g, <<x>>) = g[x]
<1> DEFINE E == Seq(S)
<1>1. Mapped(g, <<x>>) = Append(<<>>, g[x])
  <2> HIDE DEF E
  <2>1. Maps(g, N, E) BY DEF E
  <2> QED BY <2>1 DEF Mapped, Maps
<1>2. g[x] \in Seq(S) /\ <<>> \in Seq(Seq(S)) BY DEF Maps
<1>3. FlattenSeq(Append(<<>>, g[x])) = FlattenSeq(<<>>) \o g[x] BY <1>2, FlattenAppend
<1>4. <<>> \o g[x] = g[x] BY <1>2
<1> QED BY <1>1, <1>3, <1>4, FlattenEmpty DEF Spread

\* One more element adds what g gives for it.
LEMMA SpreadAppend ==
  ASSUME NEW N, NEW S, NEW g, Maps(g, N, Seq(S)), NEW s \in Seq(N), NEW x \in N
  PROVE  Spread(g, Append(s, x)) = Spread(g, s) \o g[x]
<1> DEFINE one == <<x>>
<1>1. one \in Seq(N) /\ Append(s, x) = s \o one OBVIOUS
<1>2. Spread(g, one) = g[x] BY SpreadOne
<1> HIDE DEF one
<1>3. Spread(g, s \o one) = Spread(g, s) \o Spread(g, one) BY <1>1, SpreadConcat
<1> QED BY <1>1, <1>2, <1>3

\* What each of several lists spreads to.
Spreads(g, p) == [i \in DOMAIN p |-> Spread(g, p[i])]

\* To join lists and spread the result is to spread each and join the results.
LEMMA SpreadFlatten ==
  ASSUME NEW N, NEW S, NEW g, Maps(g, N, Seq(S)), NEW p \in Seq(Seq(N))
  PROVE  /\ Spreads(g, p) \in Seq(Seq(S)) /\ Len(Spreads(g, p)) = Len(p)
         /\ \A i \in 1 .. Len(p) : Spreads(g, p)[i] = Spread(g, p[i])
         /\ Spread(g, FlattenSeq(p)) = FlattenSeq(Spreads(g, p))
<1> DEFINE Each(u) == Spreads(g, u)
           Same(u) == Each(u) \in Seq(Seq(S)) /\ Spread(g, FlattenSeq(u)) = FlattenSeq(Each(u))
           Q(n) == \A u \in Seq(Seq(N)) : Len(u) = n => Same(u)
           T == {n \in Nat : Q(n)}
<1>1. Q(0)
  <2> SUFFICES ASSUME NEW u \in Seq(Seq(N)), Len(u) = 0 PROVE Same(u)
    OBVIOUS
  <2>1. u = <<>> OBVIOUS
  <2>2. Each(<<>>) = <<>> BY DEF Spreads
  <2>3. <<>> \in Seq(Seq(S)) OBVIOUS
  <2> QED BY <2>1, <2>2, <2>3, FlattenEmpty, SpreadEmpty
<1>2. ASSUME NEW n \in Nat, Q(n) PROVE Q(n+1)
  <2> SUFFICES ASSUME NEW u \in Seq(Seq(N)), Len(u) = n+1 PROVE Same(u)
    OBVIOUS
  <2>1. PICK v \in Seq(Seq(N)), x \in Seq(N) : u = Append(v, x) /\ Len(v) = n
    BY SplitLast
  <2>2. Same(v)
    BY <1>2, <2>1
  <2>3. Spread(g, x) \in Seq(S) BY SpreadType
  <2>4. Each(u) = Append(Each(v), Spread(g, x))
    <3> DEFINE E == Seq(N)
               G(z) == Spread(g, z)
    <3> HIDE DEF E, G
    <3>1. v \in Seq(E) /\ x \in E /\ u = Append(v, x) BY <2>1 DEF E
    <3>2. [i \in DOMAIN u |-> G(u[i])] = Append([i \in DOMAIN v |-> G(v[i])], G(x)) BY <3>1
    <3> QED BY <3>2 DEF G, Spreads
  <2>5. FlattenSeq(u) = FlattenSeq(v) \o x
    BY <2>1, FlattenAppend
  <2>6. FlattenSeq(v) \in Seq(N) BY FlattenType
  <2>7. Spread(g, FlattenSeq(u)) = Spread(g, FlattenSeq(v)) \o Spread(g, x)
    <3> DEFINE f == FlattenSeq(v)
    <3> HIDE DEF f, Q, T, Same, Each
    <3>1. f \in Seq(N) BY <2>6 DEF f
    <3>2. Spread(g, f \o x) = Spread(g, f) \o Spread(g, x) BY <3>1, SpreadConcat, SMTT(40)
    <3> QED BY <3>2, <2>5 DEF f
  <2> HIDE DEF Each
  <2>8. FlattenSeq(Each(u)) = FlattenSeq(Each(v)) \o Spread(g, x)
    BY <2>2, <2>3, <2>4, FlattenAppend
  <2>9. Each(u) \in Seq(Seq(S))
    <3> DEFINE E == Seq(S)
    <3> HIDE DEF E
    <3>1. Each(v) \in Seq(E) /\ Spread(g, x) \in E BY <2>2, <2>3 DEF E
    <3>2. Each(u) \in Seq(E) BY <3>1, <2>4
    <3> QED BY <3>2 DEF E
  <2> QED BY <2>2, <2>7, <2>8, <2>9
<1>3. Q(Len(p))
  <2> HIDE DEF Q
  <2>1. 0 \in T /\ \A n \in Nat : n \in T => n+1 \in T BY <1>1, <1>2
  <2>2. Nat \subseteq T
    <3> HIDE DEF T
    <3> QED BY <2>1, NatInd
  <2> QED BY <2>2
<1>4. Len(p) \in Nat /\ DOMAIN p = 1 .. Len(p)
  <2> DEFINE E == Seq(N)
  <2> HIDE DEF E
  <2>1. p \in Seq(E) BY DEF E
  <2> QED BY <2>1
<1>5. Len(Spreads(g, p)) = Len(p) /\ \A i \in 1 .. Len(p) : Spreads(g, p)[i] = Spread(g, p[i])
  BY <1>4 DEF Spreads
<1> QED BY <1>3, <1>5

------------------------------------------------------------------------------
\* How many of the elements of a list are of a set.
Tally(s, X) == Cardinality({i \in DOMAIN s : s[i] \in X})

\* The number of places of a list that lie in X is a number.
LEMMA TallyNat ==
  ASSUME NEW S, NEW s \in Seq(S), NEW X
  PROVE  Tally(s, X) \in Nat /\ IsFiniteSet({i \in DOMAIN s : s[i] \in X})
<1>1. IsFiniteSet(1 .. Len(s)) BY FS_Interval
<1>2. {i \in DOMAIN s : s[i] \in X} \subseteq 1 .. Len(s) OBVIOUS
<1>3. IsFiniteSet({i \in DOMAIN s : s[i] \in X}) BY <1>1, <1>2, FS_Subset
<1> QED BY <1>3, FS_CardinalityType DEF Tally

\* An empty list holds none of X.
LEMMA TallyEmpty == \A X : Tally(<<>>, X) = 0
<1> TAKE X
<1>1. {i \in DOMAIN <<>> : <<>>[i] \in X} = {} OBVIOUS
<1> QED BY <1>1, FS_EmptySet DEF Tally

\* One more element counts once if it lies in X.
LEMMA TallyAppend ==
  ASSUME NEW S, NEW s \in Seq(S), NEW x \in S, NEW X
  PROVE  Tally(Append(s, x), X) = Tally(s, X) + IF x \in X THEN 1 ELSE 0
<1> DEFINE t == Append(s, x)
           A == {i \in DOMAIN s : s[i] \in X}
           B == {i \in DOMAIN t : t[i] \in X}
<1>1. IsFiniteSet(A) BY TallyNat
<1>2. CASE x \in X
  <2>1. B = A \cup {Len(s) + 1} /\ Len(s) + 1 \notin A BY <1>2
  <2> HIDE DEF A, B
  <2>2. Cardinality(B) = Cardinality(A) + 1 BY <1>1, <2>1, FS_AddElement
  <2> QED BY <2>2, <1>2 DEF Tally, A, B
<1>3. CASE x \notin X
  <2>1. B = A BY <1>3
  <2>2. Tally(s, X) \in Nat BY TallyNat
  <2>3. Tally(t, X) = Tally(s, X) BY <2>1 DEF Tally
  <2> HIDE DEF t
  <2>4. Tally(t, X) = Tally(s, X) + 0 BY <2>2, <2>3
  <2> QED BY <2>4, <1>3 DEF t
<1> QED BY <1>2, <1>3

\* A list all of whose elements lie in X counts every place.
LEMMA TallyAll ==
  ASSUME NEW S, NEW s \in Seq(S), NEW X, S \subseteq X
  PROVE  Tally(s, X) = Len(s)
<1>0. \A i \in 1 .. Len(s) : s[i] \in X OBVIOUS
<1>1. {i \in DOMAIN s : s[i] \in X} = 1 .. Len(s) BY <1>0
<1>2. Cardinality(1 .. Len(s)) = Len(s)
  <2>1. \A n \in Nat : Cardinality(1 .. n) = n BY FS_Interval
  <2> QED BY <2>1
<1> QED BY <1>1, <1>2 DEF Tally

\* Two lists joined hold what each holds.
LEMMA TallyConcat ==
  ASSUME NEW S, NEW s \in Seq(S), NEW t \in Seq(S), NEW X
  PROVE  Tally(s \o t, X) = Tally(s, X) + Tally(t, X)
<1> DEFINE Same(u) == Tally(s \o u, X) = Tally(s, X) + Tally(u, X)
           Q(n) == \A u \in Seq(S) : Len(u) = n => Same(u)
           T == {n \in Nat : Q(n)}
<1>0. Tally(s, X) \in Nat BY TallyNat
<1>1. Q(0)
  <2> SUFFICES ASSUME NEW u \in Seq(S), Len(u) = 0 PROVE Same(u)
    OBVIOUS
  <2>1. u = <<>> /\ s \o u = s OBVIOUS
  <2> QED BY <2>1, <1>0, TallyEmpty
<1>2. ASSUME NEW n \in Nat, Q(n) PROVE Q(n+1)
  <2> SUFFICES ASSUME NEW u \in Seq(S), Len(u) = n+1 PROVE Same(u)
    OBVIOUS
  <2>1. PICK v \in Seq(S), x \in S : u = Append(v, x) /\ Len(v) = n
    BY SplitLast
  <2>2. Same(v) BY <1>2, <2>1
  <2>3. s \o u = Append(s \o v, x) /\ s \o v \in Seq(S) BY <2>1
  <2>4. Tally(s \o u, X) = Tally(s \o v, X) + IF x \in X THEN 1 ELSE 0
    <3> DEFINE w == s \o v
    <3> HIDE DEF w, Q
    <3>1. w \in Seq(S) /\ s \o u = Append(w, x) BY <2>3 DEF w
    <3>2. Tally(Append(w, x), X) = Tally(w, X) + IF x \in X THEN 1 ELSE 0 BY <3>1, TallyAppend
    <3> QED BY <3>1, <3>2 DEF w
  <2>5. Tally(u, X) = Tally(v, X) + IF x \in X THEN 1 ELSE 0
    BY <2>1, TallyAppend
  <2>6. Tally(v, X) \in Nat BY TallyNat
  <2> HIDE DEF Q
  <2> QED BY <2>2, <2>4, <2>5, <2>6, <1>0
<1>3. Q(Len(t))
  <2> HIDE DEF Q
  <2>1. 0 \in T /\ \A n \in Nat : n \in T => n+1 \in T BY <1>1, <1>2
  <2>2. Nat \subseteq T
    <3> HIDE DEF T
    <3> QED BY <2>1, NatInd
  <2> QED BY <2>2
<1> QED BY <1>3

\* One more part adds what it holds.
LEMMA TallyFlattenAppend ==
  ASSUME NEW S, NEW X
  PROVE  \A u \in Seq(Seq(S)), v \in Seq(S) :
            /\ Tally(FlattenSeq(Append(u, v)), X) = Tally(FlattenSeq(u), X) + Tally(v, X)
            /\ Tally(FlattenSeq(u), X) \in Nat /\ Tally(v, X) \in Nat
<1> TAKE u \in Seq(Seq(S)), v \in Seq(S)
<1>1. FlattenSeq(Append(u, v)) = FlattenSeq(u) \o v BY FlattenAppend
<1>2. FlattenSeq(u) \in Seq(S) BY FlattenType
<1>3. Tally(FlattenSeq(u) \o v, X) = Tally(FlattenSeq(u), X) + Tally(v, X) BY <1>2, TallyConcat
<1>4. Tally(FlattenSeq(u), X) \in Nat /\ Tally(v, X) \in Nat BY <1>2, TallyNat
<1> QED BY <1>1, <1>3, <1>4

------------------------------------------------------------------------------
(* More of what is spread. *)

\* What is made of nothing but <<n>> for each n is the list itself.
LEMMA SpreadSame ==
  ASSUME NEW N, NEW g, \A n \in N : g[n] = <<n>>, Maps(g, N, Seq(N)), NEW s \in Seq(N)
  PROVE  Spread(g, s) = s
<1> DEFINE Q(n) == \A u \in Seq(N) : Len(u) = n => Spread(g, u) = u
           T == {n \in Nat : Q(n)}
<1>1. Q(0)
  <2> SUFFICES ASSUME NEW u \in Seq(N), Len(u) = 0 PROVE Spread(g, u) = u
    OBVIOUS
  <2>1. u = <<>> OBVIOUS
  <2> QED BY <2>1, SpreadEmpty
<1>2. ASSUME NEW n \in Nat, Q(n) PROVE Q(n+1)
  <2> SUFFICES ASSUME NEW u \in Seq(N), Len(u) = n+1 PROVE Spread(g, u) = u
    OBVIOUS
  <2>1. PICK v \in Seq(N), x \in N : u = Append(v, x) /\ Len(v) = n
    BY SplitLast
  <2>2. Spread(g, v) = v
    BY <2>1, <1>2
  <2>3. Spread(g, u) = Spread(g, v) \o g[x]
    BY <2>1, SpreadAppend
  <2>4. v \o <<x>> = Append(v, x)
    OBVIOUS
  <2> QED BY <2>1, <2>2, <2>3, <2>4
<1>3. Q(Len(s))
  <2> HIDE DEF Q
  <2>1. 0 \in T /\ \A n \in Nat : n \in T => n+1 \in T BY <1>1, <1>2
  <2>2. Nat \subseteq T
    <3> HIDE DEF T
    <3> QED BY <2>1, NatInd
  <2> QED BY <2>2
<1> QED BY <1>3

\* What h makes of all that g makes.
LEMMA SpreadTwice ==
  ASSUME NEW N, NEW M, NEW S, NEW g, Maps(g, N, Seq(M)), NEW h, Maps(h, M, Seq(S)),
         NEW f, Maps(f, N, Seq(S)), \A n \in N : Spread(h, g[n]) = f[n], NEW s \in Seq(N)
  PROVE  Spread(h, Spread(g, s)) = Spread(f, s)
<1> DEFINE Same(u) == Spread(h, Spread(g, u)) = Spread(f, u)
           Q(n) == \A u \in Seq(N) : Len(u) = n => Same(u)
           T == {n \in Nat : Q(n)}
<1>1. Q(0)
  <2> SUFFICES ASSUME NEW u \in Seq(N), Len(u) = 0 PROVE Same(u)
    OBVIOUS
  <2>1. u = <<>> OBVIOUS
  <2> QED BY <2>1, SpreadEmpty
<1>2. ASSUME NEW n \in Nat, Q(n) PROVE Q(n+1)
  <2> SUFFICES ASSUME NEW u \in Seq(N), Len(u) = n+1 PROVE Same(u)
    OBVIOUS
  <2>1. PICK v \in Seq(N), x \in N : u = Append(v, x) /\ Len(v) = n
    BY SplitLast
  <2>2. Same(v)
    BY <2>1, <1>2
  <2>3. Spread(g, u) = Spread(g, v) \o g[x] /\ Spread(f, u) = Spread(f, v) \o f[x]
    BY <2>1, SpreadAppend
  <2>4. Spread(g, v) \in Seq(M) /\ g[x] \in Seq(M)
    BY SpreadType DEF Maps
  <2>5. Spread(h, Spread(g, v) \o g[x]) = Spread(h, Spread(g, v)) \o Spread(h, g[x])
    <3> DEFINE a == Spread(g, v)
               b == g[x]
    <3> HIDE DEF a, b, Q, T, Same
    <3>1. a \in Seq(M) /\ b \in Seq(M) BY <2>4 DEF a, b
    <3>m. Maps(h, M, Seq(S)) OBVIOUS
    <3>2. Spread(h, a \o b) = Spread(h, a) \o Spread(h, b) BY <3>1, <3>m, SpreadConcat, SMTT(40)
    <3> QED BY <3>2 DEF a, b
  <2> HIDE DEF Q
  <2> QED BY <2>2, <2>3, <2>5
<1>3. Q(Len(s))
  <2> HIDE DEF Q
  <2>1. 0 \in T /\ \A n \in Nat : n \in T => n+1 \in T BY <1>1, <1>2
  <2>2. Nat \subseteq T
    <3> HIDE DEF T
    <3> QED BY <2>1, NatInd
  <2> QED BY <2>2
<1> QED BY <1>3

\* As many as there were, if each gives itself or nothing that counts.
CountsOne(g, N, X) == \A n \in N : Tally(g[n], X) = IF n \in X THEN 1 ELSE 0

\* When g gives for every element of N exactly one element of X if it lies in X
\* and none otherwise, spreading a list keeps the count.
LEMMA TallySpread ==
  ASSUME NEW N, NEW S, NEW X, NEW g, Maps(g, N, Seq(S)), CountsOne(g, N, X), NEW s \in Seq(N)
  PROVE  Tally(Spread(g, s), X) = Tally(s, X)
<1> DEFINE Same(u) == Tally(Spread(g, u), X) = Tally(u, X)
           Q(n) == \A u \in Seq(N) : Len(u) = n => Same(u)
           T == {n \in Nat : Q(n)}
<1>1. Q(0)
  <2> SUFFICES ASSUME NEW u \in Seq(N), Len(u) = 0 PROVE Same(u)
    OBVIOUS
  <2>1. u = <<>> OBVIOUS
  <2> QED BY <2>1, SpreadEmpty
<1>2. ASSUME NEW n \in Nat, Q(n) PROVE Q(n+1)
  <2> SUFFICES ASSUME NEW u \in Seq(N), Len(u) = n+1 PROVE Same(u)
    OBVIOUS
  <2>1. PICK v \in Seq(N), x \in N : u = Append(v, x) /\ Len(v) = n
    BY SplitLast
  <2>2. Same(v)
    BY <2>1, <1>2
  <2>3. Spread(g, u) = Spread(g, v) \o g[x]
    BY <2>1, SpreadAppend
  <2>4. Spread(g, v) \in Seq(S) /\ g[x] \in Seq(S)
    BY SpreadType DEF Maps
  <2>5. Tally(Spread(g, v) \o g[x], X) = Tally(Spread(g, v), X) + Tally(g[x], X)
    BY <2>4, TallyConcat
  <2>6. Tally(u, X) = Tally(v, X) + IF x \in X THEN 1 ELSE 0
    BY <2>1, TallyAppend
  <2>7. Tally(g[x], X) = IF x \in X THEN 1 ELSE 0
    BY DEF CountsOne
  <2> HIDE DEF Q
  <2> QED BY <2>2, <2>3, <2>5, <2>6, <2>7
<1>3. Q(Len(s))
  <2> HIDE DEF Q
  <2>1. 0 \in T /\ \A n \in Nat : n \in T => n+1 \in T BY <1>1, <1>2
  <2>2. Nat \subseteq T
    <3> HIDE DEF T
    <3> QED BY <2>1, NatInd
  <2> QED BY <2>2
<1> QED BY <1>3

\* If each of some lists holds as many as two others do together, so do all of
\* them in one.
LEMMA TallyFlattenAdd ==
  ASSUME NEW S, NEW X, NEW q \in Seq(Seq(S)), NEW p1 \in Seq(Seq(S)), NEW p2 \in Seq(Seq(S)),
         Len(p1) = Len(q), Len(p2) = Len(q),
         \A i \in 1 .. Len(q) : Tally(q[i], X) = Tally(p1[i], X) + Tally(p2[i], X)
  PROVE  Tally(FlattenSeq(q), X) = Tally(FlattenSeq(p1), X) + Tally(FlattenSeq(p2), X)
<1> DEFINE E == Seq(S)
           Like(a, b, c) == /\ Len(b) = Len(a) /\ Len(c) = Len(a)
                            /\ \A i \in 1 .. Len(a) : Tally(a[i], X) = Tally(b[i], X) + Tally(c[i], X)
           Q(n) == \A a, b, c \in Seq(E) : Len(a) = n /\ Like(a, b, c) =>
                      Tally(FlattenSeq(a), X) = Tally(FlattenSeq(b), X) + Tally(FlattenSeq(c), X)
           T == {n \in Nat : Q(n)}
<1> HIDE DEF E
<1>0. q \in Seq(E) /\ p1 \in Seq(E) /\ p2 \in Seq(E) BY DEF E
<1>1. Q(0)
  <2> SUFFICES ASSUME NEW a \in Seq(E), NEW b \in Seq(E), NEW c \in Seq(E), Len(a) = 0, Like(a, b, c)
               PROVE  Tally(FlattenSeq(a), X) = Tally(FlattenSeq(b), X) + Tally(FlattenSeq(c), X)
    OBVIOUS
  <2>1. a = <<>> /\ b = <<>> /\ c = <<>> OBVIOUS
  <2> QED BY <2>1, FlattenEmpty, TallyEmpty
<1>2. ASSUME NEW n \in Nat, Q(n) PROVE Q(n+1)
  <2> SUFFICES ASSUME NEW a \in Seq(E), NEW b \in Seq(E), NEW c \in Seq(E), Len(a) = n+1, Like(a, b, c)
               PROVE  Tally(FlattenSeq(a), X) = Tally(FlattenSeq(b), X) + Tally(FlattenSeq(c), X)
    OBVIOUS
  <2>1. PICK a1 \in Seq(E), x \in E : a = Append(a1, x) /\ Len(a1) = n
    BY SplitLast
  <2>0. Len(b) = n + 1 /\ Len(c) = n + 1 OBVIOUS
  <2>2. PICK b1 \in Seq(E), y \in E : b = Append(b1, y) /\ Len(b1) = n
    BY <2>0, SplitLast
  <2>3. PICK c1 \in Seq(E), z \in E : c = Append(c1, z) /\ Len(c1) = n
    BY <2>0, SplitLast
  <2>4. Like(a1, b1, c1)
    <3>1. ASSUME NEW i \in 1 .. n PROVE i \in 1 .. n+1 /\ a[i] = a1[i] /\ b[i] = b1[i] /\ c[i] = c1[i]
      BY <2>1, <2>2, <2>3
    <3> QED BY <3>1, <2>1, <2>2, <2>3
  <2>5. Tally(FlattenSeq(a1), X) = Tally(FlattenSeq(b1), X) + Tally(FlattenSeq(c1), X)
    BY <2>4, <2>1, <1>2, ZenonT(40)
  <2>6. Tally(x, X) = Tally(y, X) + Tally(z, X)
    <3>1. n + 1 \in 1 .. n + 1 OBVIOUS
    <3>2. a[n+1] = x /\ b[n+1] = y /\ c[n+1] = z BY <2>1, <2>2, <2>3
    <3> QED BY <3>1, <3>2
  <2>7. \A u \in Seq(E), v \in E : /\ Tally(FlattenSeq(Append(u, v)), X) = Tally(FlattenSeq(u), X) + Tally(v, X)
                                  /\ Tally(FlattenSeq(u), X) \in Nat /\ Tally(v, X) \in Nat
    BY TallyFlattenAppend DEF E
  <2>8. /\ Tally(FlattenSeq(a), X) = Tally(FlattenSeq(a1), X) + Tally(x, X)
        /\ Tally(FlattenSeq(b), X) = Tally(FlattenSeq(b1), X) + Tally(y, X)
        /\ Tally(FlattenSeq(c), X) = Tally(FlattenSeq(c1), X) + Tally(z, X)
    BY <2>7, <2>1, <2>2, <2>3
  <2>9. /\ Tally(FlattenSeq(b1), X) \in Nat /\ Tally(y, X) \in Nat
        /\ Tally(FlattenSeq(c1), X) \in Nat /\ Tally(z, X) \in Nat
    BY <2>7
  <2> HIDE DEF Q, Like
  <2> QED BY <2>5, <2>6, <2>8, <2>9
<1>3. Q(Len(q))
  <2> HIDE DEF Q
  <2>1. 0 \in T /\ \A n \in Nat : n \in T => n+1 \in T BY <1>1, <1>2
  <2>2. Nat \subseteq T
    <3> HIDE DEF T
    <3> QED BY <2>1, NatInd
  <2>3. Len(q) \in Nat BY <1>0
  <2> QED BY <2>2, <2>3
<1> QED BY <1>0, <1>3

------------------------------------------------------------------------------
\* Of lists with labels, those with a label of this set, and nothing for the others.
Picked(p, w, A) == [i \in DOMAIN p |-> IF w[i] \in A THEN p[i] ELSE <<>>]

\* Picking the parts with a label of A keeps their places and empties the others.
LEMMA PickedIs ==
  ASSUME NEW S, NEW p \in Seq(Seq(S)), NEW w, NEW A
  PROVE  /\ Picked(p, w, A) \in Seq(Seq(S)) /\ Len(Picked(p, w, A)) = Len(p)
         /\ \A i \in 1 .. Len(p) : Picked(p, w, A)[i] = IF w[i] \in A THEN p[i] ELSE <<>>
<1> DEFINE E == Seq(S)
<1>1. <<>> \in E OBVIOUS
<1> HIDE DEF E
<1>2. p \in Seq(E) BY DEF E
<1>3. /\ Picked(p, w, A) \in Seq(E) /\ Len(Picked(p, w, A)) = Len(p)
      /\ \A i \in 1 .. Len(p) : Picked(p, w, A)[i] = IF w[i] \in A THEN p[i] ELSE <<>>
  BY <1>1, <1>2, SMTT(40) DEF Picked
<1> QED BY <1>3 DEF E

\* A label more adds the parts that carry it.
LEMMA TallyPicked ==
  ASSUME NEW S, NEW X, NEW p \in Seq(Seq(S)), NEW w, NEW A, NEW c, c \notin A
  PROVE  Tally(FlattenSeq(Picked(p, w, A \cup {c})), X)
         = Tally(FlattenSeq(Picked(p, w, A)), X) + Tally(FlattenSeq(Picked(p, w, {c})), X)
<1> DEFINE q  == Picked(p, w, A \cup {c})
           p1 == Picked(p, w, A)
           p2 == Picked(p, w, {c})
<1>1. /\ q \in Seq(Seq(S)) /\ Len(q) = Len(p)
      /\ \A i \in 1 .. Len(p) : q[i] = IF w[i] \in A \cup {c} THEN p[i] ELSE <<>>
  BY PickedIs, SMTT(40)
<1>2. /\ p1 \in Seq(Seq(S)) /\ Len(p1) = Len(p)
      /\ \A i \in 1 .. Len(p) : p1[i] = IF w[i] \in A THEN p[i] ELSE <<>>
  BY PickedIs
<1>3. /\ p2 \in Seq(Seq(S)) /\ Len(p2) = Len(p)
      /\ \A i \in 1 .. Len(p) : p2[i] = IF w[i] \in {c} THEN p[i] ELSE <<>>
  BY PickedIs
<1>4. ASSUME NEW i \in 1 .. Len(p) PROVE Tally(q[i], X) = Tally(p1[i], X) + Tally(p2[i], X)
  <2>1. Tally(p[i], X) \in Nat
    <3> DEFINE E == Seq(S)
    <3> HIDE DEF E
    <3>1. p \in Seq(E) BY DEF E
    <3>2. p[i] \in E BY <3>1
    <3>3. p[i] \in Seq(S) BY <3>2 DEF E
    <3> QED BY <3>3, TallyNat
  <2> HIDE DEF q, p1, p2
  <2>2. CASE w[i] \in A
    <3>1. q[i] = p[i] /\ p1[i] = p[i] /\ p2[i] = <<>> BY <2>2, <1>1, <1>2, <1>3
    <3> QED BY <3>1, <2>1, TallyEmpty
  <2>3. CASE w[i] = c
    <3>1. q[i] = p[i] /\ p1[i] = <<>> /\ p2[i] = p[i] BY <2>3, <1>1, <1>2, <1>3
    <3> QED BY <3>1, <2>1, TallyEmpty
  <2>4. CASE w[i] \notin A /\ w[i] # c
    <3>1. q[i] = <<>> /\ p1[i] = <<>> /\ p2[i] = <<>> BY <2>4, <1>1, <1>2, <1>3
    <3> QED BY <3>1, TallyEmpty
  <2> QED BY <2>2, <2>3, <2>4
<1> HIDE DEF q, p1, p2
<1>5. Tally(FlattenSeq(q), X) = Tally(FlattenSeq(p1), X) + Tally(FlattenSeq(p2), X)
  BY <1>1, <1>2, <1>3, <1>4, TallyFlattenAdd
<1> QED BY <1>5 DEF q, p1, p2

\* No label picks nothing.
LEMMA PickedNone ==
  ASSUME NEW S, NEW X, NEW p \in Seq(Seq(S)), NEW w
  PROVE  Tally(FlattenSeq(Picked(p, w, {})), X) = 0
<1> DEFINE q == Picked(p, w, {})
<1>1. q \in Seq(Seq(S)) /\ Len(q) = Len(p) /\ \A i \in 1 .. Len(p) : q[i] = <<>>
  BY PickedIs
<1> HIDE DEF q
<1>2. \A i \in 1 .. Len(q) : Tally(q[i], X) = Tally(q[i], X) + Tally(q[i], X)
  BY <1>1, TallyEmpty
<1>3. Tally(FlattenSeq(q), X) = Tally(FlattenSeq(q), X) + Tally(FlattenSeq(q), X)
  BY <1>1, <1>2, TallyFlattenAdd
<1>4. Tally(FlattenSeq(q), X) \in Nat
  <2>1. FlattenSeq(q) \in Seq(S) BY <1>1, FlattenType
  <2> QED BY <2>1, TallyNat
<1>5. Tally(FlattenSeq(q), X) = 0 BY <1>3, <1>4
<1> QED BY <1>5 DEF q

\* Lists with labels that are dealt to their labels are all of them dealt.
Dealt(D, C, p, w) == \A c \in C : D[c] = FlattenSeq(Picked(p, w, {c}))
\* A list without repetition, and its elements.
Apart(k)   == \A i, j \in 1 .. Len(k) : k[i] = k[j] => i = j
Members(k) == {k[i] : i \in 1 .. Len(k)}

\* Parts dealt by label: what each label of k is dealt, all joined, counts as
\* much as the parts with those labels.
LEMMA TallyDealt ==
  ASSUME NEW S, NEW X, NEW C, NEW p \in Seq(Seq(S)), NEW w,
         NEW D, Maps(D, C, Seq(S)), Dealt(D, C, p, w),
         NEW k \in Seq(C), Apart(k)
  PROVE  Tally(Spread(D, k), X) = Tally(FlattenSeq(Picked(p, w, Members(k))), X)
<1> USE DEF Apart, Members, Dealt
<1> DEFINE Of(u) == Members(u)
           All(A) == Tally(FlattenSeq(Picked(p, w, A)), X)
           Q(n) == \A u \in Seq(C) : Len(u) = n /\ Apart(u) => Tally(Spread(D, u), X) = All(Of(u))
           T == {n \in Nat : Q(n)}
<1>1. Q(0)
  <2> SUFFICES ASSUME NEW u \in Seq(C), Len(u) = 0 PROVE Tally(Spread(D, u), X) = All(Of(u))
    OBVIOUS
  <2>1. u = <<>> /\ Of(u) = {} OBVIOUS
  <2>2. All({}) = 0 BY PickedNone
  <2> HIDE DEF All, Of, Members
  <2> QED BY <2>1, <2>2, SpreadEmpty, TallyEmpty
<1>2. ASSUME NEW n \in Nat, Q(n) PROVE Q(n+1)
  <2> SUFFICES ASSUME NEW u \in Seq(C), Len(u) = n+1, Apart(u)
               PROVE  Tally(Spread(D, u), X) = All(Of(u))
    OBVIOUS
  <2>1. PICK v \in Seq(C), c \in C : u = Append(v, c) /\ Len(v) = n
    BY SplitLast
  <2>2. (\A i \in 1 .. n : u[i] = v[i]) /\ u[n+1] = c
    BY <2>1
  <2>3. Apart(v)
    BY <2>1, <2>2
  <2>4. Of(u) = Of(v) \cup {c}
    <3>1. 1 .. n+1 = 1 .. n \cup {n+1} OBVIOUS
    <3> QED BY <3>1, <2>1, <2>2
  <2>5. c \notin Of(v)
    <3>1. SUFFICES ASSUME NEW i \in 1 .. n, v[i] = c PROVE FALSE
      BY <2>1
    <3>2. i \in 1 .. n+1 /\ n+1 \in 1 .. n+1 /\ u[i] = u[n+1] /\ i # n+1 BY <3>1, <2>2
    <3> QED BY <3>2
  <2>6. Tally(Spread(D, v), X) = All(Of(v))
    BY <2>1, <2>3, <1>2
  <2> HIDE DEF Of, Members
  <2>7. All(Of(v) \cup {c}) = All(Of(v)) + All({c})
    BY <2>5, TallyPicked
  <2>8. Spread(D, u) = Spread(D, v) \o D[c]
    BY <2>1, SpreadAppend
  <2>9. Spread(D, v) \in Seq(S) /\ D[c] \in Seq(S)
    BY SpreadType DEF Maps
  <2>10. Tally(Spread(D, v) \o D[c], X) = Tally(Spread(D, v), X) + Tally(D[c], X)
    BY <2>9, TallyConcat
  <2>11. Tally(D[c], X) = All({c})
    OBVIOUS
  <2> HIDE DEF All
  <2> QED BY <2>4, <2>6, <2>7, <2>8, <2>10, <2>11
<1>3. Q(Len(k))
  <2> HIDE DEF Q
  <2>1. 0 \in T /\ \A n \in Nat : n \in T => n+1 \in T BY <1>1, <1>2
  <2>2. Nat \subseteq T
    <3> HIDE DEF T
    <3> QED BY <2>1, NatInd
  <2> QED BY <2>2
<1> QED BY <1>3

------------------------------------------------------------------------------
\* The members of a finite set in a list.
LEMMA SetToSeqIs ==
  ASSUME NEW C, IsFiniteSet(C)
  PROVE  /\ SetToSeq(C) \in Seq(C)
         /\ Apart(SetToSeq(C)) /\ Members(SetToSeq(C)) = C
<1> USE DEF Apart, Members
<1> DEFINE n == Cardinality(C)
           k == SetToSeq(C)
<1>1. n \in Nat /\ ExistsBijection(1 .. n, C)
  BY FS_CardinalityType
<1>2. \E f \in [1 .. n -> C] : IsInjective(f)
  BY <1>1 DEF ExistsBijection, Bijection, Injection
<1>3. k \in [1 .. n -> C] /\ IsInjective(k)
  BY <1>2 DEF SetToSeq
<1> HIDE DEF k
<1>4. k \in Seq(C) /\ Len(k) = n /\ DOMAIN k = 1 .. n
  BY <1>1, <1>3
<1>5. k \in Injection(1 .. n, C)
  BY <1>3 DEF Injection
<1>6. k \in Surjection(1 .. n, C)
  <2>1. IsFiniteSet(1 .. n) /\ Cardinality(1 .. n) = n
    <3>1. \A m \in Nat : IsFiniteSet(1 .. m) /\ Cardinality(1 .. m) = m BY FS_Interval
    <3> QED BY <3>1, <1>1
  <2> QED BY <2>1, <1>5, FS_Injection
<1>7. {k[i] : i \in 1 .. n} = C
  BY <1>3, <1>6 DEF Surjection
<1> QED BY <1>3, <1>4, <1>7 DEF IsInjective, k
=============================================================================
