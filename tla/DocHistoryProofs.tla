--------------------------- MODULE DocHistoryProofs ---------------------------
(***************************************************************************)
(* For stacks, brackets, sessions and trees of any size.  First the stacks *)
(* alone: what the saved mark and an open bracket take from them by number *)
(* is what they meant.  Then the tree: every entry of both stacks takes    *)
(* the document from one state it was in to the next, so undo and redo     *)
(* give it back, a document that reads clean is the one on disk, and a     *)
(* session that is left leaves at the top level what was there.            *)
(***************************************************************************)
EXTENDS DocHistory, SequenceTheorems, FiniteSetTheorems, WellFoundedInduction, TLAPS

-----------------------------------------------------------------------------
(* Sequences of entries                                                    *)

IsSeq(s) == s \in Seq(Stack(s))

LEMMA SeqOfOwn ==
  ASSUME NEW T, NEW s \in Seq(T)
  PROVE  IsSeq(s) /\ Stack(s) \subseteq T
<1>1. Len(s) \in Nat /\ s \in [1 .. Len(s) -> T] /\ DOMAIN s = 1 .. Len(s)
  BY LenProperties
<1>2. s \in [1 .. Len(s) -> Stack(s)] /\ Stack(s) \subseteq T
  BY <1>1 DEF Stack
<1>. QED
  BY <1>1, <1>2, SeqDef DEF IsSeq

LEMMA SeqFacts ==
  ASSUME NEW s, IsSeq(s)
  PROVE  /\ Len(s) \in Nat /\ DOMAIN s = 1 .. Len(s)
         /\ \A i \in 1 .. Len(s) : s[i] \in Stack(s)
         /\ s # <<>> => Len(s) >= 1 /\ Last(s) \in Stack(s)
<1>1. Len(s) \in Nat /\ DOMAIN s = 1 .. Len(s)
  BY LenProperties DEF IsSeq
<1>2. s # <<>> => Len(s) \in Nat \ {0}
  BY EmptySeq DEF IsSeq
<1>. QED
  BY <1>1, <1>2 DEF Stack, Last

LEMMA AppendFacts ==
  ASSUME NEW s, IsSeq(s), NEW e
  PROVE  /\ IsSeq(Append(s, e)) /\ Append(s, e) # <<>>
         /\ Len(Append(s, e)) = Len(s) + 1 /\ Len(s) \in Nat
         /\ Stack(Append(s, e)) = Stack(s) \cup {e}
         /\ \A i \in 1 .. Len(s) : Append(s, e)[i] = s[i]
         /\ Append(s, e)[Len(s) + 1] = e
         /\ Front(Append(s, e)) = s /\ Last(Append(s, e)) = e
<1>. DEFINE T == Stack(s) \cup {e}  t == Append(s, e)
<1>1. s \in Seq(T) /\ Len(s) \in Nat /\ DOMAIN s = 1 .. Len(s)
  BY SeqMonotonic, LenProperties DEF IsSeq
<1>2. /\ t \in Seq(T) /\ Len(t) = Len(s) + 1
      /\ \A i \in 1 .. Len(s) : t[i] = s[i]
      /\ t[Len(s) + 1] = e
  BY <1>1
<1>3. IsSeq(t) /\ t # <<>> /\ DOMAIN t = 1 .. Len(s) + 1
  <2>. HIDE DEF t, T
  <2>1. IsSeq(t)
    BY <1>2, SeqOfOwn
  <2>2. DOMAIN t = 1 .. Len(s) + 1
    BY <1>2, LenProperties
  <2>3. t # <<>>
    BY <1>1, <1>2, EmptySeq
  <2>. QED
    BY <2>1, <2>2, <2>3
<1>4. Stack(t) = T
  BY <1>1, <1>2, <1>3 DEF Stack
<1>5. Front(t) = s
  <2>1. \A i \in 1 .. Len(s) : t[i] \in T
    BY <1>1, <1>2, ElementOfSeq
  <2>2. /\ SubSeq(t, 1, Len(s)) \in Seq(T)
        /\ Len(SubSeq(t, 1, Len(s))) = (IF 1 <= Len(s) THEN Len(s) - 1 + 1 ELSE 0)
        /\ \A i \in 1 .. Len(s) - 1 + 1 : SubSeq(t, 1, Len(s))[i] = t[1 + i - 1]
    BY <1>1, <2>1, SubSeqProperties
  <2>3. Len(SubSeq(t, 1, Len(s))) = Len(s) /\ \A i \in 1 .. Len(s) : SubSeq(t, 1, Len(s))[i] = s[i]
    BY <1>1, <1>2, <2>2
  <2>4. SubSeq(t, 1, Len(s)) = s
    BY <1>1, <2>2, <2>3, SeqEqual
  <2>5. Len(t) - 1 = Len(s)
    BY <1>1, <1>2
  <2>. QED
    BY <2>4, <2>5 DEF Front
<1>6. Last(t) = e
  BY <1>2 DEF Last
<1>. QED
  BY <1>1, <1>2, <1>3, <1>4, <1>5, <1>6

LEMMA PrefixFacts ==
  ASSUME NEW s, IsSeq(s), NEW n \in 0 .. Len(s)
  PROVE  /\ IsSeq(SubSeq(s, 1, n)) /\ Len(SubSeq(s, 1, n)) = n
         /\ Stack(SubSeq(s, 1, n)) \subseteq Stack(s)
         /\ \A i \in 1 .. n : SubSeq(s, 1, n)[i] = s[i]
<1>1. Len(s) \in Nat /\ n \in Nat /\ n <= Len(s)
  BY SeqFacts
<1>2. \A i \in 1 .. n : s[i] \in Stack(s)
  BY <1>1, SeqFacts
<1>3. /\ SubSeq(s, 1, n) \in Seq(Stack(s))
      /\ Len(SubSeq(s, 1, n)) = (IF 1 <= n THEN n - 1 + 1 ELSE 0)
      /\ \A i \in 1 .. n - 1 + 1 : SubSeq(s, 1, n)[i] = s[1 + i - 1]
  BY <1>1, <1>2, SubSeqProperties
<1>. DEFINE p == SubSeq(s, 1, n)
<1>4. Len(p) = n /\ \A i \in 1 .. n : p[i] = s[i]
  BY <1>1, <1>3
<1>. HIDE DEF p
<1>5. IsSeq(p) /\ Stack(p) \subseteq Stack(s)
  BY <1>3, SeqOfOwn DEF p
<1>. QED
  BY <1>4, <1>5 DEF p

LEMMA FrontFacts ==
  ASSUME NEW s, IsSeq(s), s # <<>>
  PROVE  /\ IsSeq(Front(s)) /\ Len(Front(s)) = Len(s) - 1 /\ Len(s) \in Nat /\ Len(s) >= 1
         /\ Stack(Front(s)) \subseteq Stack(s) /\ Last(s) \in Stack(s)
         /\ \A i \in 1 .. Len(s) - 1 : Front(s)[i] = s[i]
         /\ s = Append(Front(s), Last(s))
<1>1. Len(s) \in Nat /\ Len(s) >= 1 /\ Last(s) \in Stack(s) /\ Len(s) - 1 \in 0 .. Len(s)
  BY SeqFacts
<1>2. /\ IsSeq(Front(s)) /\ Len(Front(s)) = Len(s) - 1 /\ Stack(Front(s)) \subseteq Stack(s)
      /\ \A i \in 1 .. Len(s) - 1 : Front(s)[i] = s[i]
  BY <1>1, PrefixFacts DEF Front
<1>3. s = Append(Front(s), Last(s))
  <2>. DEFINE t == Append(Front(s), Last(s))
  <2>1. /\ IsSeq(t) /\ Len(t) = Len(s) /\ Stack(t) \subseteq Stack(s)
        /\ \A i \in 1 .. Len(s) - 1 : t[i] = s[i]
        /\ t[Len(s)] = s[Len(s)]
    BY <1>1, <1>2, AppendFacts DEF Last
  <2>2. t \in Seq(Stack(s)) /\ s \in Seq(Stack(s))
    BY <2>1, SeqMonotonic DEF IsSeq
  <2>3. \A i \in 1 .. Len(s) : t[i] = s[i]
    BY <1>1, <2>1
  <2>. HIDE DEF t
  <2>4. t = s
    BY <2>1, <2>2, <2>3, SeqEqual
  <2>. QED
    BY <2>4 DEF t
<1>. QED
  BY <1>1, <1>2, <1>3

LEMMA EmptyFacts == IsSeq(<<>>) /\ Len(<<>>) = 0 /\ Stack(<<>>) = {}
<1>. DEFINE s == <<>>
<1>1. s \in Seq({0}) /\ Len(s) = 0
  BY EmptySeq
<1>. HIDE DEF s
<1>2. DOMAIN s = 1 .. 0
  BY <1>1, LenProperties
<1>3. Stack(s) = {}
  BY <1>2 DEF Stack
<1>4. IsSeq(s)
  BY <1>1, SeqOfOwn
<1>. QED
  BY <1>1, <1>3, <1>4 DEF s

-----------------------------------------------------------------------------
(* What FlattenSeq returns is a sequence, and not an empty one.            *)

\* FlattenSeq's own recursion, up to n.
Flattens(seqs, n, g) ==
  g = [i \in 1 .. n |-> IF i = 1 THEN seqs[i] ELSE g[i - 1] \o seqs[i]]

LEMMA FlatteningExists ==
  ASSUME NEW seqs, NEW n \in Nat
  PROVE  \E g : Flattens(seqs, n, g)
<1>. DEFINE Bad == {k \in Nat : ~ \E g : Flattens(seqs, k, g)}
<1>1. SUFFICES ASSUME Bad # {} PROVE FALSE
  OBVIOUS
<1>2. \E x \in Bad : \A y \in Bad : ~ (<<y, x>> \in OpToRel(<, Nat))
  BY <1>1, NatLessThanWellFounded, WFMin
<1>3. PICK k \in Bad : \A y \in Bad : ~ (y < k)
  BY <1>2 DEF OpToRel
<1>4. CASE k = 0
  <2>. DEFINE h == [i \in 1 .. 0 |-> seqs[i]]
  <2>1. h = [i \in 1 .. k |-> IF i = 1 THEN seqs[i] ELSE h[i - 1] \o seqs[i]]
    BY <1>4
  <2>. QED
    BY <2>1, <1>3 DEF Flattens
<1>5. CASE k # 0
  <2>1. k - 1 \in Nat /\ k - 1 < k /\ k - 1 \notin Bad
    BY <1>3, <1>5
  <2>2. PICK g : Flattens(seqs, k - 1, g)
    BY <2>1
  <2>. DEFINE x == IF k = 1 THEN seqs[k] ELSE g[k - 1] \o seqs[k]
              h == [i \in 1 .. k |-> IF i = k THEN x ELSE g[i]]
  <2>3. \A i \in 1 .. k - 1 : g[i] = IF i = 1 THEN seqs[i] ELSE g[i - 1] \o seqs[i]
    BY <2>2 DEF Flattens
  <2>4. ASSUME NEW i \in 1 .. k PROVE h[i] = IF i = 1 THEN seqs[i] ELSE h[i - 1] \o seqs[i]
    <3>1. CASE i = 1
      BY <3>1, <2>1, <2>3
    <3>2. CASE i # 1
      <4>1. i - 1 \in 1 .. k /\ i - 1 # k /\ h[i - 1] = g[i - 1]
        BY <3>2, <2>1
      <4>2. h[i] = g[i - 1] \o seqs[i]
        <5>1. CASE i = k
          BY <5>1, <3>2
        <5>2. CASE i # k
          <6>1. i \in 1 .. k - 1
            BY <5>2, <2>1
          <6>2. g[i] = g[i - 1] \o seqs[i]
            BY <6>1, <3>2, <2>3
          <6>. QED
            BY <6>2, <5>2
        <5>. QED
          BY <5>1, <5>2
      <4>. QED
        BY <3>2, <4>1, <4>2
    <3>. QED
      BY <3>1, <3>2
  <2>5. h = [i \in 1 .. k |-> IF i = 1 THEN seqs[i] ELSE h[i - 1] \o seqs[i]]
    <3>. DEFINE hh == [i \in 1 .. k |-> IF i = 1 THEN seqs[i] ELSE h[i - 1] \o seqs[i]]
    <3>1. \A i \in 1 .. k : h[i] = hh[i]
      BY <2>4
    <3>. QED
      BY <3>1
  <2>6. Flattens(seqs, k, h)
    BY <2>5 DEF Flattens
  <2>. QED
    BY <2>6, <1>3
<1>. QED
  BY <1>4, <1>5

LEMMA FlattenIsSeq ==
  ASSUME NEW S, NEW seqs \in Seq(Seq(S)), \A i \in 1 .. Len(seqs) : seqs[i] # <<>>, seqs # <<>>
  PROVE  FlattenSeq(seqs) \in Seq(S) /\ FlattenSeq(seqs) # <<>>
<1>. DEFINE n == Len(seqs)
            g == CHOOSE f : f = [i \in 1 .. n |-> IF i = 1 THEN seqs[i] ELSE f[i - 1] \o seqs[i]]
<1>1. n \in Nat /\ n # 0 /\ \A i \in 1 .. n : seqs[i] \in Seq(S)
  BY EmptySeq, LenProperties, ElementOfSeq
<1>2. FlattenSeq(seqs) = g[n]
  BY <1>1 DEF FlattenSeq
<1>3. \E f : f = [i \in 1 .. n |-> IF i = 1 THEN seqs[i] ELSE f[i - 1] \o seqs[i]]
  BY <1>1, FlatteningExists DEF Flattens
<1>4. g = [i \in 1 .. n |-> IF i = 1 THEN seqs[i] ELSE g[i - 1] \o seqs[i]]
  BY <1>3, Zenon
<1>. HIDE DEF g, n
<1>5. \A i \in 1 .. n : g[i] = IF i = 1 THEN seqs[i] ELSE g[i - 1] \o seqs[i]
  BY <1>4
<1>. DEFINE Bad == {k \in 1 .. n : ~ (g[k] \in Seq(S) /\ g[k] # <<>>)}
<1>6. Bad = {}
  <2>1. SUFFICES ASSUME Bad # {} PROVE FALSE
    OBVIOUS
  <2>2. Bad \subseteq Nat
    BY <1>1
  <2>3. \E x \in Bad : \A y \in Bad : ~ (<<y, x>> \in OpToRel(<, Nat))
    BY <2>1, <2>2, NatLessThanWellFounded, WFMin
  <2>4. PICK k \in Bad : \A y \in Bad : ~ (y < k)
    BY <2>2, <2>3 DEF OpToRel
  <2>5. CASE k = 1
    <3>1. g[k] = seqs[k]
      BY <1>5, <2>5
    <3>2. seqs[k] \in Seq(S) /\ seqs[k] # <<>>
      BY <1>1 DEF n
    <3>. QED
      BY <3>1, <3>2
  <2>6. CASE k # 1
    <3>1. k - 1 \in 1 .. n /\ k - 1 < k
      BY <1>1, <2>6
    <3>2. k - 1 \notin Bad
      BY <2>4, <3>1
    <3>3. g[k - 1] \in Seq(S) /\ g[k - 1] # <<>> /\ seqs[k] \in Seq(S)
      BY <1>1, <3>1, <3>2
    <3>4. g[k] = g[k - 1] \o seqs[k]
      BY <1>5, <2>6
    <3>5. g[k] \in Seq(S) /\ g[k] # <<>>
      BY <3>3, <3>4, ConcatProperties, ConcatSimplifications
    <3>. QED
      BY <3>5
  <2>. QED
    BY <2>5, <2>6
<1>. QED
  BY <1>1, <1>2, <1>6

-----------------------------------------------------------------------------
(* What a stack counts, and what the beginning of a stack counts.          *)

Rank(stack, i) == Cardinality({j \in Counted(stack) : j <= i})

\* The entries that count, up to a depth.
Cut(stack, depth) == {x \in Content(stack) : x[1] <= depth}

Begins(p, t) == Len(p) <= Len(t) /\ \A i \in 1 .. Len(p) : p[i] = t[i]

LEMMA CountedFinite ==
  ASSUME NEW s, IsSeq(s)
  PROVE  /\ Counted(s) \subseteq 1 .. Len(s) /\ IsFiniteSet(Counted(s))
         /\ ContentDepth(s) \in Nat /\ ContentDepth(s) <= Len(s)
         /\ \A i \in Nat : Rank(s, i) \in Nat /\ Rank(s, i) <= ContentDepth(s)
<1>1. Counted(s) \subseteq 1 .. Len(s) /\ Len(s) \in Nat
  BY SeqFacts DEF Counted
<1>2. IsFiniteSet(1 .. Len(s)) /\ Cardinality(1 .. Len(s)) = Len(s)
  <2>. DEFINE n == Len(s)
  <2>1. n \in Int /\ 1 \in Int /\ n >= 0
    BY <1>1
  <2>. HIDE DEF n
  <2>2. IsFiniteSet(1 .. n) /\ Cardinality(1 .. n) = IF 1 > n THEN 0 ELSE n - 1 + 1
    BY <2>1, FS_Interval
  <2>3. Cardinality(1 .. n) = n
    BY <2>1, <2>2
  <2>. QED
    BY <2>2, <2>3 DEF n
<1>3. IsFiniteSet(Counted(s)) /\ Cardinality(Counted(s)) <= Len(s)
  BY <1>1, <1>2, FS_Subset
<1>4. Cardinality(Counted(s)) \in Nat
  BY <1>3, FS_CardinalityType
<1>5. ASSUME NEW i \in Nat
      PROVE  Rank(s, i) \in Nat /\ Rank(s, i) <= Cardinality(Counted(s))
  <2>. DEFINE below == {j \in Counted(s) : j <= i}
  <2>1. IsFiniteSet(below) /\ Cardinality(below) <= Cardinality(Counted(s))
    BY <1>3, FS_Subset
  <2>2. Cardinality(below) \in Nat
    BY <2>1, FS_CardinalityType
  <2>. QED
    BY <2>1, <2>2 DEF Rank
<1>. QED
  BY <1>1, <1>3, <1>4, <1>5 DEF ContentDepth

LEMMA ContentIs ==
  ASSUME NEW s
  PROVE  Content(s) = {<<Rank(s, i), s[i]>> : i \in Counted(s)}
BY DEF Content, Rank

\* The beginning of a stack counts the same entries at the same depths, and
\* what comes after it lies deeper.
LEMMA BeginningCounts ==
  ASSUME NEW p, IsSeq(p), NEW t, IsSeq(t), Begins(p, t)
  PROVE  /\ ContentDepth(p) <= ContentDepth(t)
         /\ Content(p) = Cut(t, ContentDepth(p))
<1>1. /\ Len(p) \in Nat /\ Len(t) \in Nat /\ Len(p) <= Len(t)
      /\ \A i \in 1 .. Len(p) : p[i] = t[i]
      /\ DOMAIN p = 1 .. Len(p) /\ DOMAIN t = 1 .. Len(t)
  BY SeqFacts DEF Begins
<1>2. Counted(p) = Counted(t) \cap (1 .. Len(p))
  BY <1>1 DEF Counted
<1>3. /\ Counted(t) \subseteq 1 .. Len(t) /\ IsFiniteSet(Counted(t))
      /\ Counted(p) \subseteq 1 .. Len(p) /\ IsFiniteSet(Counted(p))
      /\ ContentDepth(p) \in Nat /\ ContentDepth(t) \in Nat
  BY CountedFinite
<1>4. ContentDepth(p) <= ContentDepth(t)
  BY <1>2, <1>3, FS_Subset DEF ContentDepth
<1>5. ASSUME NEW i \in Counted(p)
      PROVE  i \in Counted(t) /\ p[i] = t[i] /\ Rank(t, i) = Rank(p, i) /\ Rank(p, i) <= ContentDepth(p)
  <2>1. i \in Nat /\ i <= Len(p) /\ i \in Counted(t) /\ p[i] = t[i]
    BY <1>1, <1>2, <1>3
  <2>2. {j \in Counted(t) : j <= i} = {j \in Counted(p) : j <= i}
    BY <1>1, <1>2, <1>3, <2>1
  <2>. QED
    BY <2>1, <2>2, CountedFinite DEF Rank
<1>6. ASSUME NEW i \in Counted(t) \ Counted(p)
      PROVE  ~ (Rank(t, i) <= ContentDepth(p))
  <2>. DEFINE below == {j \in Counted(t) : j <= i}
  <2>1. i \in Nat /\ i > Len(p)
    BY <1>1, <1>2, <1>3
  <2>2. Counted(p) \subseteq below \ {i} /\ i \in below
    BY <1>1, <1>2, <1>3, <2>1
  <2>3. IsFiniteSet(below)
    BY <1>3, FS_Subset
  <2>. HIDE DEF below
  <2>4. /\ IsFiniteSet(below \ {i}) /\ Cardinality(below) \in Nat
        /\ Cardinality(below \ {i}) = Cardinality(below) - 1
    BY <2>2, <2>3, FS_RemoveElement, FS_CardinalityType
  <2>5. Cardinality(Counted(p)) <= Cardinality(below \ {i})
    BY <2>2, <2>4, FS_Subset
  <2>. QED
    BY <1>3, <2>4, <2>5 DEF below, Rank, ContentDepth
<1>7. Content(p) \subseteq Cut(t, ContentDepth(p))
  <2>1. SUFFICES ASSUME NEW i \in Counted(p)
                 PROVE  <<Rank(p, i), p[i]>> \in Cut(t, ContentDepth(p))
    BY ContentIs
  <2>2. <<Rank(p, i), p[i]>> = <<Rank(t, i), t[i]>> /\ i \in Counted(t)
    BY <1>5
  <2>3. <<Rank(t, i), t[i]>> \in Content(t)
    BY <2>2, ContentIs
  <2>. QED
    BY <2>2, <2>3, <1>5 DEF Cut
<1>8. Cut(t, ContentDepth(p)) \subseteq Content(p)
  <2>1. SUFFICES ASSUME NEW i \in Counted(t), Rank(t, i) <= ContentDepth(p)
                 PROVE  <<Rank(t, i), t[i]>> \in Content(p)
    BY ContentIs DEF Cut
  <2>2. i \in Counted(p)
    BY <2>1, <1>6
  <2>3. <<Rank(p, i), p[i]>> \in Content(p)
    BY <2>2, ContentIs
  <2>. QED
    BY <2>2, <2>3, <1>5
<1>. QED
  BY <1>4, <1>7, <1>8

LEMMA BeginningCut ==
  ASSUME NEW p, IsSeq(p), NEW t, IsSeq(t), Begins(p, t),
         NEW depth \in Int, depth <= ContentDepth(p)
  PROVE  Cut(t, depth) = Cut(p, depth)
<1>1. ContentDepth(p) \in Nat /\ Counted(t) \subseteq 1 .. Len(t) /\ Len(t) \in Nat
  BY CountedFinite, SeqFacts
<1>2. \A x \in Content(t) : x[1] \in Nat
  <2>1. \A i \in Counted(t) : Rank(t, i) \in Nat
    BY <1>1, CountedFinite
  <2>. QED
    BY <2>1, ContentIs
<1>3. \A x \in Content(t) : x[1] <= depth => x[1] <= ContentDepth(p)
  BY <1>1, <1>2
<1>4. Content(p) = Cut(t, ContentDepth(p))
  BY BeginningCounts
<1>. QED
  BY <1>3, <1>4 DEF Cut

LEMMA WholeCut ==
  ASSUME NEW s, IsSeq(s)
  PROVE  Cut(s, ContentDepth(s)) = Content(s)
<1>1. Begins(s, s)
  BY SeqFacts DEF Begins
<1>. QED
  BY <1>1, BeginningCounts

LEMMA EmptyCounts == ContentDepth(<<>>) = 0 /\ Content(<<>>) = {}
<1>1. Counted(<<>>) = {}
  <2>1. Len(<<>>) = 0 /\ IsSeq(<<>>)
    BY EmptyFacts
  <2>2. Counted(<<>>) \subseteq 1 .. Len(<<>>)
    BY <2>1, CountedFinite
  <2>. QED
    BY <2>1, <2>2
<1>. QED
  BY <1>1, FS_EmptySet, ContentIs DEF ContentDepth

-----------------------------------------------------------------------------
(* The line of edits that the two stacks hold between them.                *)

\* The undo stack, and on it what redo would put back.
Timeline(u, r) ==
  [i \in 1 .. Len(u) + Len(r) |->
     IF i <= Len(u) THEN u[i] ELSE r[Len(u) + Len(r) + 1 - i]]

LEMMA TimelineFacts ==
  ASSUME NEW u, IsSeq(u), NEW r, IsSeq(r)
  PROVE  IsSeq(Timeline(u, r)) /\ Begins(u, Timeline(u, r))
<1>. DEFINE T == Stack(u) \cup Stack(r)  n == Len(u) + Len(r)
<1>1. /\ Len(u) \in Nat /\ Len(r) \in Nat
      /\ \A i \in 1 .. Len(u) : u[i] \in Stack(u)
      /\ \A i \in 1 .. Len(r) : r[i] \in Stack(r)
  BY SeqFacts
<1>2. n \in Nat /\ Len(u) <= n
  BY <1>1
<1>3. Timeline(u, r) \in [1 .. n -> T]
  <2>1. ASSUME NEW i \in 1 .. n
        PROVE  (IF i <= Len(u) THEN u[i] ELSE r[n + 1 - i]) \in T
    <3>1. CASE i <= Len(u)
      BY <3>1, <1>1
    <3>2. CASE ~ (i <= Len(u))
      <4>1. n + 1 - i \in 1 .. Len(r)
        BY <3>2, <1>1
      <4>. QED
        BY <3>2, <4>1, <1>1
    <3>. QED
      BY <3>1, <3>2
  <2>. QED
    BY <2>1 DEF Timeline
<1>4. Timeline(u, r) \in Seq(T) /\ Len(Timeline(u, r)) = n
  <2>. HIDE DEF T, n
  <2>1. Timeline(u, r) \in Seq(T)
    BY <1>2, <1>3, SeqDef
  <2>. QED
    BY <2>1, <1>2, <1>3, LenProperties
<1>5. \A i \in 1 .. Len(u) : Timeline(u, r)[i] = u[i]
  BY <1>1, <1>2 DEF Timeline
<1>. QED
  BY <1>2, <1>4, <1>5, SeqOfOwn DEF Begins

LEMMA TimelineOfUndo ==
  ASSUME NEW u, IsSeq(u)
  PROVE  Timeline(u, <<>>) = u
<1>1. Len(u) \in Nat /\ DOMAIN u = 1 .. Len(u) /\ Len(<<>>) = 0
  BY SeqFacts, EmptyFacts
<1>2. u = [i \in DOMAIN u |-> u[i]]
  BY DEF IsSeq
<1>3. Timeline(u, <<>>) = [i \in 1 .. Len(u) |-> u[i]]
  <2>. DEFINE f == Timeline(u, <<>>)
  <2>1. f = [i \in 1 .. Len(u) |-> IF i <= Len(u) THEN u[i] ELSE <<>>[Len(u) + 1 - i]]
    BY <1>1 DEF Timeline
  <2>. HIDE DEF f
  <2>2. \A i \in 1 .. Len(u) : f[i] = u[i]
    BY <1>1, <2>1
  <2>3. f = [i \in 1 .. Len(u) |-> f[i]]
    BY <2>1
  <2>. QED
    BY <2>2, <2>3 DEF f
<1>. QED
  BY <1>1, <1>2, <1>3

\* Undo and redo move an entry between the stacks, and the line stays.
LEMMA TimelineMoves ==
  ASSUME NEW u, IsSeq(u), NEW r, IsSeq(r), NEW e
  PROVE  Timeline(Append(u, e), r) = Timeline(u, Append(r, e))
<1>. DEFINE ue == Append(u, e)  re == Append(r, e)  n == Len(u) + Len(r) + 1
<1>1. /\ Len(u) \in Nat /\ Len(r) \in Nat
      /\ Len(ue) = Len(u) + 1 /\ Len(re) = Len(r) + 1
      /\ \A i \in 1 .. Len(u) : ue[i] = u[i]
      /\ \A i \in 1 .. Len(r) : re[i] = r[i]
      /\ ue[Len(u) + 1] = e /\ re[Len(r) + 1] = e
  BY AppendFacts
<1>. HIDE DEF ue, re
<1>2. Len(ue) + Len(r) = n /\ Len(u) + Len(re) = n
  BY <1>1
<1>3. ASSUME NEW i \in 1 .. n
      PROVE  (IF i <= Len(ue) THEN ue[i] ELSE r[n + 1 - i])
               = (IF i <= Len(u) THEN u[i] ELSE re[n + 1 - i])
  <2>1. CASE i <= Len(u)
    BY <2>1, <1>1
  <2>2. CASE i = Len(u) + 1
    <3>1. n + 1 - i = Len(r) + 1
      BY <2>2, <1>1
    <3>. QED
      BY <2>2, <3>1, <1>1
  <2>3. CASE i > Len(u) + 1
    <3>1. n + 1 - i \in 1 .. Len(r)
      BY <2>3, <1>1
    <3>. QED
      BY <2>3, <3>1, <1>1
  <2>. QED
    BY <2>1, <2>2, <2>3, <1>1
<1>4. Timeline(ue, r) = Timeline(u, re)
  BY <1>2, <1>3 DEF Timeline
<1>. QED
  BY <1>4 DEF ue, re

-----------------------------------------------------------------------------
(* The stacks, their counts and the open bracket.                          *)

Whole(e) == IsSeq(e.steps) /\ e.steps # <<>>
Entries(s) == IsSeq(s) /\ \A e \in Stack(s) : Whole(e)

\* A stack never holds more than was ever pushed, nor the bound of pushes.
Counts(u, p) ==
  /\ p \in [undo : Nat, redo : Nat]
  /\ p.undo + p.redo <= MaxPushes
  /\ Len(u) <= p.undo

\* A snapshot, or none.
Snapshots(b) ==
  \/ b = Closed
  \/ /\ b = [x \in DOMAIN b |-> b[x]]
     /\ DOMAIN b = {"open", "tree", "fresh", "sessions", "undo", "redo", "pushes",
                    "saved", "undid"}
     /\ b.open = TRUE

StacksHold ==
  /\ Entries(undo) /\ Entries(redo)
  /\ Counts(undo, pushes)
  /\ saved \in Unreachable .. MaxPushes

\* What a bracket can be put back to is as good as what there is now.
SnapshotHolds ==
  bracket.open =>
    /\ Entries(bracket.undo) /\ Entries(bracket.redo)
    /\ Counts(bracket.undo, bracket.pushes)
    /\ bracket.saved \in Unreachable .. MaxPushes

\* The redo counter never falls under the bracket's, an undo lifts it for
\* good, and while it stands still the entries from before are in place.
UndisturbedHolds ==
  bracket.open =>
    /\ bracket.pushes.redo <= pushes.redo
    /\ bracket.undid => bracket.pushes.redo # pushes.redo
    /\ bracket.pushes.redo = pushes.redo => Begins(bracket.undo, undo)

StackInv == Snapshots(bracket) /\ StacksHold /\ SnapshotHolds /\ UndisturbedHolds

LEMMA EntriesFacts ==
  ASSUME NEW s, Entries(s)
  PROVE  /\ Len(s) \in Nat
         /\ \A e : Whole(e) => Entries(Append(s, e))
         /\ s # <<>> => /\ Entries(Front(s)) /\ Whole(Last(s))
                        /\ Len(Front(s)) = Len(s) - 1
         /\ \A n \in 0 .. Len(s) : Entries(SubSeq(s, 1, n))
<1>1. IsSeq(s) /\ Len(s) \in Nat
  BY SeqFacts DEF Entries
<1>2. ASSUME NEW e, Whole(e) PROVE Entries(Append(s, e))
  BY <1>1, <1>2, AppendFacts DEF Entries
<1>3. ASSUME s # <<>>
      PROVE Entries(Front(s)) /\ Whole(Last(s)) /\ Len(Front(s)) = Len(s) - 1
  BY <1>1, <1>3, FrontFacts DEF Entries
<1>4. ASSUME NEW n \in 0 .. Len(s) PROVE Entries(SubSeq(s, 1, n))
  BY <1>1, <1>4, PrefixFacts DEF Entries
<1>. QED
  BY <1>1, <1>2, <1>3, <1>4

LEMMA EmptyEntries == Entries(<<>>) /\ Len(<<>>) = 0
BY EmptyFacts DEF Entries

LEMMA OneStep ==
  ASSUME NEW step
  PROVE  IsSeq(<<step>>) /\ <<step>> # <<>> /\ Stack(<<step>>) = {step}
<1>. DEFINE s == <<>>
<1>1. Append(s, step) = <<step>>
  OBVIOUS
<1>2. IsSeq(s) /\ Stack(s) = {}
  BY EmptyFacts
<1>. HIDE DEF s
<1>3. /\ IsSeq(Append(s, step)) /\ Append(s, step) # <<>>
      /\ Stack(Append(s, step)) = {step}
  BY <1>2, AppendFacts
<1>. QED
  BY <1>1, <1>3

LEMMA ReplayedFacts ==
  ASSUME NEW e, Whole(e)
  PROVE  Replayed(e) \in Nat
BY SeqFacts DEF Whole, Replayed

LEMMA BeginsFacts ==
  ASSUME NEW p, IsSeq(p), NEW t, IsSeq(t), Begins(p, t)
  PROVE  /\ SubSeq(t, 1, Len(p)) = p
         /\ Len(p) = Len(t) => p = t
         /\ \A e : Begins(p, Append(t, e))
<1>1. /\ Len(p) \in Nat /\ Len(t) \in Nat /\ Len(p) \in 0 .. Len(t)
      /\ DOMAIN p = 1 .. Len(p) /\ DOMAIN t = 1 .. Len(t)
      /\ \A i \in 1 .. Len(p) : p[i] = t[i]
  BY SeqFacts DEF Begins
<1>. DEFINE T == Stack(p) \cup Stack(t)
<1>2. p \in Seq(T) /\ t \in Seq(T)
  BY SeqMonotonic DEF IsSeq
<1>. HIDE DEF T
<1>3. SubSeq(t, 1, Len(p)) = p
  <2>. DEFINE q == SubSeq(t, 1, Len(p))
  <2>1. IsSeq(q) /\ Len(q) = Len(p) /\ Stack(q) \subseteq Stack(t) /\ \A i \in 1 .. Len(p) : q[i] = t[i]
    BY <1>1, PrefixFacts
  <2>. HIDE DEF q
  <2>2. q \in Seq(T)
    BY <2>1, SeqMonotonic DEF IsSeq, T
  <2>3. q = p
    BY <1>1, <1>2, <2>1, <2>2, SeqEqual
  <2>. QED
    BY <2>3 DEF q
<1>4. Len(p) = Len(t) => p = t
  BY <1>1, <1>2, SeqEqual
<1>5. ASSUME NEW e PROVE Begins(p, Append(t, e))
  <2>1. Len(Append(t, e)) = Len(t) + 1 /\ \A i \in 1 .. Len(t) : Append(t, e)[i] = t[i]
    BY AppendFacts
  <2>. QED
    BY <1>1, <2>1 DEF Begins
<1>. QED
  BY <1>3, <1>4, <1>5

-----------------------------------------------------------------------------
(* The steps, as the stacks see them.                                      *)

\* A step that puts one new entry on the undo stack, k pushes long.
NewEntry(e, k) ==
  /\ MayPush(k)
  /\ undo' = Append(undo, e)
  /\ redo' = <<>>
  /\ pushes' = [pushes EXCEPT !.undo = @ + k]
  /\ UNCHANGED <<bracket, marked>>

LEMMA RecordStep ==
  ASSUME NEW t, NEW step, RecordOn(t, step)
  PROVE  \E e : Whole(e) /\ NewEntry(e, 1) /\ saved' = MarkAfter(Append(undo, e))
<1>. DEFINE e == [Child(step) EXCEPT !.before = Look(tree, sessions, undo)]
<1>1. NewEntry(e, 1) /\ saved' = MarkAfter(Append(undo, e))
  BY Zenon DEF RecordOn, NewEntry
<1>2. e.steps = <<step>>
  BY DEF Child
<1>3. Whole(e)
  BY <1>2, OneStep DEF Whole
<1>. QED
  BY <1>1, <1>3, Zenon

\* The steps that record one entry and commit it.
Edits ==
  \/ \E n \in Objects : Draw(n) \/ Delete(n)
  \/ \E g \in Groups : Ungroup(g) \/ OpenGroupSession(g)
  \/ \E g \in Groups, ms \in SUBSET Nodes : Group(g, ms)
  \/ CloseGroupSession

Moves == \E n \in Nodes, p \in Parents : Reparent(n, p)

LEMMA EditStep ==
  ASSUME Edits
  PROVE  \E e : Whole(e) /\ NewEntry(e, 1) /\ saved' = MarkAfter(Append(undo, e))
<1>1. \E t, step : RecordOn(t, step)
  <2>1. CASE \E n \in Objects : Draw(n) \/ Delete(n)
    BY <2>1, Zenon DEF Draw, Delete, Record
  <2>2. CASE \E g \in Groups : Ungroup(g) \/ OpenGroupSession(g)
    BY <2>2, Zenon DEF Ungroup, OpenGroupSession, Record
  <2>3. CASE \E g \in Groups, ms \in SUBSET Nodes : Group(g, ms)
    BY <2>3, Zenon DEF Group
  <2>4. CASE CloseGroupSession
    BY <2>4, Zenon DEF CloseGroupSession, Record
  <2>. QED
    BY <2>1, <2>2, <2>3, <2>4, Zenon DEF Edits
<1>. QED
  BY <1>1, RecordStep, Zenon

LEMMA MoveStep ==
  ASSUME Moves
  PROVE  /\ "reparent" \in Ops
         /\ \E e : Whole(e) /\ NewEntry(e, 2) /\ saved' = saved
<1>1. PICK n \in Nodes, p \in Parents : Reparent(n, p)
  BY Zenon DEF Moves
<1>. DEFINE lists == {tree.parent[n], p} \ {Top}
            after == [g \in lists |-> IF g = p THEN tree.members[g] \cup {n}
                                      ELSE tree.members[g] \ {n}]
            step == [op |-> "move", node |-> n, from |-> tree.parent[n], next |-> p,
                     before |-> [g \in lists |-> tree.members[g]], after |-> after]
            e == [Child(step) EXCEPT !.before = Look(tree, sessions, undo)]
<1>2. "reparent" \in Ops /\ NewEntry(e, 2) /\ saved' = saved
  BY <1>1, Zenon DEF Reparent, NewEntry
<1>3. e.steps = <<step>>
  BY DEF Child
<1>4. Whole(e)
  BY <1>3, OneStep DEF Whole
<1>. QED
  BY <1>2, <1>4, Zenon

LEMMA UndoStep ==
  ASSUME Undo
  PROVE  /\ undo # <<>> /\ MayPush(2 * Replayed(Last(undo)) + 1)
         /\ undo' = Front(undo) /\ redo' = Append(redo, Last(undo))
         /\ pushes' = [undo |-> pushes.undo + Replayed(Last(undo)),
                       redo |-> pushes.redo + Replayed(Last(undo)) + 1]
         /\ bracket' = (IF bracket.open THEN [bracket EXCEPT !.undid = TRUE] ELSE bracket)
         /\ UNCHANGED <<saved, marked>>
<1>1. UndoEntry(tree, sessions, undo).stack = Front(undo)
  BY DEF UndoEntry, State
<1>. QED
  BY <1>1, Zenon DEF Undo

LEMMA RedoStep ==
  ASSUME Redo
  PROVE  /\ redo # <<>> /\ MayPush(2 * Replayed(Last(redo)) + 1)
         /\ bracket.open => RedoInBracket
         /\ undo' = Append(undo, Last(redo)) /\ redo' = Front(redo)
         /\ pushes' = [undo |-> pushes.undo + Replayed(Last(redo)) + 1,
                       redo |-> pushes.redo + Replayed(Last(redo))]
         /\ UNCHANGED <<saved, bracket, marked>>
<1>1. RedoEntry(tree, sessions, undo, Last(redo)).stack = Append(undo, Last(redo))
  BY DEF RedoEntry, State
<1>. QED
  BY <1>1, Zenon DEF Redo

\* The collapse of a bracket that grew the stack: one entry, not empty, on
\* what the stack held before.
LEMMA CollapseIs ==
  ASSUME Entries(undo), Len(bracket.undo) \in Nat, Len(bracket.undo) < Len(undo)
  PROVE  \E e : /\ Whole(e)
                /\ Collapse = Append(SubSeq(undo, 1, Len(bracket.undo)), e)
<1>. DEFINE start == Len(bracket.undo)
            drained == SubSeq(undo, start + 1, Len(undo))
            seqs == [i \in DOMAIN drained |-> drained[i].steps]
            e == [compound |-> TRUE, steps |-> FlattenSeq(seqs),
                  before |-> Look(bracket.tree, bracket.sessions, bracket.undo)]
<1>1. /\ Len(undo) \in Nat /\ start \in Nat /\ start + 1 <= Len(undo)
      /\ \A i \in 1 .. Len(undo) : undo[i] \in Stack(undo)
  BY SeqFacts DEF Entries
<1>2. drained \in Seq(Stack(undo)) /\ Len(drained) \in Nat \ {0}
  <2>. DEFINE a == start + 1
  <2>1. a \in Nat /\ a \in 1 .. Len(undo) /\ \A i \in a .. Len(undo) : undo[i] \in Stack(undo)
    BY <1>1
  <2>. DEFINE z == Len(undo)  T == Stack(undo)
  <2>2. z \in Int /\ a \in Int /\ a <= z /\ \A i \in a .. z : undo[i] \in T
    BY <1>1, <2>1
  <2>. HIDE DEF a, z, T
  <2>3. /\ SubSeq(undo, a, z) \in Seq(T)
        /\ Len(SubSeq(undo, a, z)) = (IF a <= z THEN z - a + 1 ELSE 0)
    BY <2>2, SubSeqProperties
  <2>4. Len(SubSeq(undo, a, z)) \in Nat \ {0}
    BY <2>2, <2>3
  <2>. QED
    BY <2>3, <2>4 DEF a, z, T
<1>3. Collapse = Append(SubSeq(undo, 1, start), e)
  BY DEF Collapse
<1>. HIDE DEF drained
<1>4. IsSeq(drained) /\ Stack(drained) \subseteq Stack(undo) /\ DOMAIN drained = 1 .. Len(drained)
  BY <1>2, SeqOfOwn, SeqFacts
<1>5. \A i \in 1 .. Len(drained) : Whole(drained[i])
  BY <1>4, SeqFacts DEF Entries
<1>. DEFINE S == UNION {Stack(d.steps) : d \in Stack(drained)}
<1>6. \A i \in 1 .. Len(drained) : drained[i].steps \in Seq(S) /\ drained[i].steps # <<>>
  <2>1. TAKE i \in 1 .. Len(drained)
  <2>2. drained[i].steps \in Seq(Stack(drained[i].steps)) /\ drained[i].steps # <<>>
    BY <1>5 DEF Whole, IsSeq
  <2>3. Stack(drained[i].steps) \subseteq S
    BY <1>4, SeqFacts
  <2>. HIDE DEF S
  <2>. QED
    BY <2>2, <2>3, SeqMonotonic
<1>7. seqs \in [1 .. Len(drained) -> Seq(S)]
  BY <1>4, <1>6
<1>8. \A i \in 1 .. Len(drained) : seqs[i] # <<>>
  BY <1>4, <1>6
<1>. HIDE DEF seqs, S
<1>9. seqs \in Seq(Seq(S)) /\ Len(seqs) = Len(drained)
  <2>1. seqs \in Seq(Seq(S))
    BY <1>2, <1>7, SeqDef
  <2>. QED
    BY <2>1, <1>2, <1>7, LenProperties
<1>10. seqs # <<>>
  BY <1>2, <1>9, EmptySeq
<1>11. FlattenSeq(seqs) \in Seq(S) /\ FlattenSeq(seqs) # <<>>
  BY <1>8, <1>9, <1>10, FlattenIsSeq
<1>12. Whole(e)
  BY <1>11, SeqOfOwn DEF Whole
<1>. QED
  BY <1>3, <1>12, Zenon

LEMMA SnapshotFacts ==
  ASSUME NEW b, Snapshots(b)
  PROVE  /\ b.open \in BOOLEAN
         /\ b.open =>
              LET c == [b EXCEPT !.undid = TRUE]
              IN  /\ Snapshots(c) /\ c.open = TRUE /\ c.undid = TRUE
                  /\ c.undo = b.undo /\ c.redo = b.redo /\ c.pushes = b.pushes
                  /\ c.saved = b.saved
                  /\ c.tree = b.tree /\ c.fresh = b.fresh /\ c.sessions = b.sessions
<1>1. CASE b = Closed
  BY <1>1 DEF Closed
<1>2. CASE b # Closed
  <2>. DEFINE c == [b EXCEPT !.undid = TRUE]
  <2>1. /\ b = [x \in DOMAIN b |-> b[x]] /\ b.open = TRUE
        /\ DOMAIN b = {"open", "tree", "fresh", "sessions", "undo", "redo", "pushes",
                       "saved", "undid"}
    BY <1>2 DEF Snapshots
  <2>2. /\ c = [x \in DOMAIN c |-> c[x]] /\ DOMAIN c = DOMAIN b
        /\ c.open = TRUE /\ c.undid = TRUE
        /\ c.undo = b.undo /\ c.redo = b.redo /\ c.pushes = b.pushes
        /\ c.saved = b.saved
        /\ c.tree = b.tree /\ c.fresh = b.fresh /\ c.sessions = b.sessions
    BY <2>1
  <2>. HIDE DEF c
  <2>3. Snapshots(c)
    BY <2>1, <2>2 DEF Snapshots
  <2>. QED
    BY <2>1, <2>2, <2>3 DEF c
<1>. QED
  BY <1>1, <1>2

-----------------------------------------------------------------------------
(* Every step keeps the stacks.                                            *)

LEMMA StackInit == ASSUME Init PROVE StackInv
<1>1. /\ undo = <<>> /\ redo = <<>> /\ pushes = [undo |-> 0, redo |-> 0]
      /\ saved = 0 /\ bracket = Closed /\ bracket.open = FALSE
  BY DEF Init, Closed
<1>2. Entries(undo) /\ Entries(redo) /\ Len(undo) = 0
  BY <1>1, EmptyEntries
<1>3. Counts(undo, pushes) /\ saved \in Unreachable .. MaxPushes
  BY <1>1, <1>2, HomeAssumption DEF Counts, Unreachable
<1>. QED
  BY <1>1, <1>2, <1>3 DEF StackInv, Snapshots, StacksHold, SnapshotHolds, UndisturbedHolds

LEMMA NewEntryKeeps ==
  ASSUME StackInv, NEW e, Whole(e), NEW k \in Nat \ {0}, NewEntry(e, k),
         saved' = saved \/ saved' = Unreachable
  PROVE  StackInv'
<1>1. /\ bracket' = bracket /\ undo' = Append(undo, e) /\ redo' = <<>>
      /\ pushes.undo + pushes.redo + k <= MaxPushes
      /\ pushes' = [pushes EXCEPT !.undo = @ + k]
  BY DEF NewEntry, MayPush
<1>2. Snapshots(bracket)' /\ SnapshotHolds'
  BY <1>1 DEF StackInv, SnapshotHolds
<1>3. /\ IsSeq(undo) /\ Len(undo) \in Nat /\ Entries(undo')
      /\ Len(undo') = Len(undo) + 1 /\ Entries(redo')
  BY <1>1, EntriesFacts, EmptyEntries, AppendFacts DEF StackInv, StacksHold, Entries
<1>4. pushes' = [undo |-> pushes.undo + k, redo |-> pushes.redo] /\ Counts(undo, pushes)
  BY <1>1 DEF StackInv, StacksHold, Counts
<1>5. Counts(undo', pushes')
  BY <1>1, <1>3, <1>4 DEF Counts
<1>6. saved' \in Unreachable .. MaxPushes
  BY HomeAssumption DEF StackInv, StacksHold, Unreachable
<1>7. UndisturbedHolds'
  <2>1. ASSUME bracket.open, Begins(bracket.undo, undo) PROVE Begins(bracket.undo, undo')
    BY <1>1, <1>3, <2>1, BeginsFacts DEF StackInv, SnapshotHolds, Entries
  <2>. QED
    BY <1>1, <1>4, <2>1 DEF StackInv, UndisturbedHolds
<1>. QED
  BY <1>2, <1>3, <1>5, <1>6, <1>7 DEF StackInv, StacksHold

LEMMA UndoKeeps == ASSUME StackInv, Undo PROVE StackInv'
<1>. DEFINE e == Last(undo)  k == Replayed(e)
<1>1. /\ undo # <<>> /\ pushes.undo + pushes.redo + (2 * k + 1) <= MaxPushes
      /\ undo' = Front(undo) /\ redo' = Append(redo, e)
      /\ pushes' = [undo |-> pushes.undo + k, redo |-> pushes.redo + k + 1]
      /\ bracket' = (IF bracket.open THEN [bracket EXCEPT !.undid = TRUE] ELSE bracket)
      /\ saved' = saved
  BY UndoStep DEF MayPush
<1>2. Whole(e) /\ k \in Nat
  BY <1>1, EntriesFacts, ReplayedFacts DEF StackInv, StacksHold
<1>3. Entries(undo') /\ Entries(redo') /\ Len(undo') = Len(undo) - 1 /\ Len(undo) \in Nat
  BY <1>1, <1>2, EntriesFacts DEF StackInv, StacksHold
<1>. HIDE DEF e, k
<1>4. Counts(undo, pushes) /\ saved' \in Unreachable .. MaxPushes
  BY <1>1 DEF StackInv, StacksHold
<1>5. Counts(undo', pushes')
  BY <1>1, <1>2, <1>3, <1>4 DEF Counts
<1>6. /\ Snapshots(bracket') /\ bracket'.open = bracket.open
      /\ bracket.open => /\ bracket'.undo = bracket.undo /\ bracket'.redo = bracket.redo
                         /\ bracket'.pushes = bracket.pushes
                         /\ bracket'.saved = bracket.saved
  BY <1>1, SnapshotFacts DEF StackInv
<1>7. SnapshotHolds'
  BY <1>6 DEF StackInv, SnapshotHolds
<1>8. UndisturbedHolds'
  <2>1. SUFFICES ASSUME bracket.open
                 PROVE  /\ bracket.pushes.redo <= pushes'.redo
                        /\ bracket.pushes.redo # pushes'.redo
    BY <1>6 DEF UndisturbedHolds
  <2>2. bracket.pushes.redo <= pushes.redo /\ Counts(bracket.undo, bracket.pushes)
    BY <2>1 DEF StackInv, UndisturbedHolds, SnapshotHolds
  <2>3. pushes'.redo = pushes.redo + k + 1
    BY <1>1
  <2>4. pushes.redo \in Nat /\ bracket.pushes.redo \in Nat
    BY <1>4, <2>2 DEF Counts
  <2>. QED
    BY <1>2, <2>2, <2>3, <2>4
<1>. QED
  BY <1>3, <1>4, <1>5, <1>6, <1>7, <1>8 DEF StackInv, StacksHold

LEMMA RedoKeeps == ASSUME StackInv, Redo PROVE StackInv'
<1>. DEFINE e == Last(redo)  k == Replayed(e)
<1>1. /\ redo # <<>> /\ pushes.undo + pushes.redo + (2 * k + 1) <= MaxPushes
      /\ undo' = Append(undo, e) /\ redo' = Front(redo)
      /\ pushes' = [undo |-> pushes.undo + k + 1, redo |-> pushes.redo + k]
      /\ bracket' = bracket /\ saved' = saved
  BY RedoStep DEF MayPush
<1>2. Whole(e) /\ k \in Nat
  BY <1>1, EntriesFacts, ReplayedFacts DEF StackInv, StacksHold
<1>3. /\ IsSeq(undo) /\ Entries(undo') /\ Entries(redo')
      /\ Len(undo') = Len(undo) + 1 /\ Len(undo) \in Nat
  BY <1>1, <1>2, EntriesFacts, AppendFacts DEF StackInv, StacksHold, Entries
<1>. HIDE DEF e, k
<1>4. Counts(undo, pushes) /\ saved' \in Unreachable .. MaxPushes
  BY <1>1 DEF StackInv, StacksHold
<1>5. Counts(undo', pushes')
  BY <1>1, <1>2, <1>3, <1>4 DEF Counts
<1>6. Snapshots(bracket') /\ SnapshotHolds'
  BY <1>1 DEF StackInv, SnapshotHolds
<1>7. UndisturbedHolds'
  <2>1. SUFFICES ASSUME bracket.open
                 PROVE  /\ bracket.pushes.redo <= pushes'.redo
                        /\ bracket.undid => bracket.pushes.redo # pushes'.redo
                        /\ bracket.pushes.redo = pushes'.redo => Begins(bracket.undo, undo')
    BY <1>1 DEF UndisturbedHolds
  <2>2. /\ bracket.pushes.redo <= pushes.redo /\ Counts(bracket.undo, bracket.pushes)
        /\ IsSeq(bracket.undo)
        /\ bracket.undid => bracket.pushes.redo # pushes.redo
        /\ bracket.pushes.redo = pushes.redo => Begins(bracket.undo, undo)
    BY <2>1 DEF StackInv, UndisturbedHolds, SnapshotHolds, Entries
  <2>3. Begins(bracket.undo, undo) => Begins(bracket.undo, undo')
    BY <1>1, <1>3, <2>2, BeginsFacts
  <2>4. pushes'.redo = pushes.redo + k
    BY <1>1
  <2>5. pushes.redo \in Nat /\ bracket.pushes.redo \in Nat
    BY <1>4, <2>2 DEF Counts
  <2>. QED
    BY <1>2, <2>2, <2>3, <2>4, <2>5
<1>. QED
  BY <1>3, <1>4, <1>5, <1>6, <1>7 DEF StackInv, StacksHold

LEMMA RestoreKeeps == ASSUME StackInv, bracket.open, Restore PROVE StackInv'
<1>1. /\ undo' = bracket.undo /\ redo' = bracket.redo /\ pushes' = bracket.pushes
      /\ saved' = bracket.saved /\ bracket' = Closed
  BY DEF Restore
<1>2. StacksHold'
  BY <1>1 DEF StackInv, SnapshotHolds, StacksHold
<1>. QED
  BY <1>1, <1>2 DEF StackInv, Snapshots, SnapshotHolds, UndisturbedHolds, Closed

LEMMA BeginKeeps == ASSUME StackInv, BeginTransaction PROVE StackInv'
<1>1. /\ bracket' = [open |-> TRUE, tree |-> tree, fresh |-> fresh, sessions |-> sessions,
                     undo |-> undo, redo |-> redo, pushes |-> pushes,
                     saved |-> saved, undid |-> FALSE]
      /\ undo' = undo /\ redo' = redo /\ pushes' = pushes /\ saved' = saved
  BY DEF BeginTransaction
<1>2. Snapshots(bracket')
  BY <1>1 DEF Snapshots
<1>3. /\ bracket'.undo = undo /\ bracket'.redo = redo /\ bracket'.pushes = pushes
      /\ bracket'.saved = saved /\ bracket'.undid = FALSE
  BY <1>1
<1>4. StacksHold' /\ SnapshotHolds'
  BY <1>1, <1>3 DEF StackInv, StacksHold, SnapshotHolds
<1>5. UndisturbedHolds'
  <2>1. Begins(undo, undo) /\ pushes.redo <= pushes.redo
    BY SeqFacts DEF StackInv, StacksHold, Entries, Begins, Counts
  <2>. QED
    BY <1>1, <1>3, <2>1 DEF UndisturbedHolds
<1>. QED
  BY <1>2, <1>4, <1>5 DEF StackInv

LEMMA CommitStep ==
  ASSUME StackInv, CommitTransaction
  PROVE  \E e : /\ Whole(e)
                /\ IsSeq(bracket.undo) /\ Begins(bracket.undo, undo)
                /\ Len(bracket.undo) < Len(undo) /\ bracket.pushes.redo = pushes.redo
                /\ Collapse = Append(bracket.undo, e)
                /\ undo' = Append(bracket.undo, e) /\ redo' = <<>>
                /\ pushes.undo + pushes.redo + 1 <= MaxPushes
                /\ pushes' = [pushes EXCEPT !.undo = @ + 1]
                /\ saved' = MarkAfter(Append(bracket.undo, e))
                /\ bracket' = Closed /\ marked' = marked
<1>1. /\ bracket.open /\ bracket.pushes.redo = pushes.redo
      /\ Len(undo) > Len(bracket.undo)
      /\ pushes.undo + pushes.redo + 1 <= MaxPushes
      /\ undo' = Collapse /\ redo' = <<>> /\ pushes' = [pushes EXCEPT !.undo = @ + 1]
      /\ saved' = MarkAfter(Collapse) /\ bracket' = Closed /\ marked' = marked
  BY DEF CommitTransaction, Disturbed, MayPush
<1>2. /\ Entries(undo) /\ IsSeq(undo) /\ IsSeq(bracket.undo) /\ Begins(bracket.undo, undo)
      /\ Len(bracket.undo) \in Nat /\ Len(undo) \in Nat
  BY <1>1, SeqFacts DEF StackInv, StacksHold, SnapshotHolds, UndisturbedHolds, Entries
<1>3. Len(bracket.undo) < Len(undo)
  BY <1>1, <1>2
<1>4. PICK e : Whole(e) /\ Collapse = Append(SubSeq(undo, 1, Len(bracket.undo)), e)
  BY <1>2, <1>3, CollapseIs
<1>5. SubSeq(undo, 1, Len(bracket.undo)) = bracket.undo
  BY <1>2, BeginsFacts
<1>6. Collapse = Append(bracket.undo, e)
  BY <1>4, <1>5
<1>. QED
  BY <1>1, <1>2, <1>3, <1>4, <1>6

LEMMA MarkAfterIs ==
  ASSUME NEW s PROVE MarkAfter(s) = saved \/ MarkAfter(s) = Unreachable
BY DEF MarkAfter

LEMMA CommitKeeps == ASSUME StackInv, CommitTransaction PROVE StackInv'
<1>1. PICK e :
        /\ Whole(e) /\ IsSeq(bracket.undo)
        /\ Len(bracket.undo) < Len(undo)
        /\ undo' = Append(bracket.undo, e) /\ redo' = <<>>
        /\ pushes.undo + pushes.redo + 1 <= MaxPushes
        /\ pushes' = [pushes EXCEPT !.undo = @ + 1]
        /\ saved' = MarkAfter(Append(bracket.undo, e)) /\ bracket' = Closed
  BY CommitStep, Zenon
<1>2. bracket.open /\ Entries(bracket.undo)
  BY DEF CommitTransaction, StackInv, SnapshotHolds
<1>3. /\ Entries(undo') /\ Entries(redo') /\ Len(bracket.undo) \in Nat
      /\ Len(undo') = Len(bracket.undo) + 1
  BY <1>1, <1>2, EntriesFacts, EmptyEntries, AppendFacts
<1>4. Counts(undo, pushes) /\ Len(undo) \in Nat
  BY EntriesFacts DEF StackInv, StacksHold
<1>5. Counts(undo', pushes')
  BY <1>1, <1>3, <1>4 DEF Counts
<1>6. saved' \in Unreachable .. MaxPushes
  BY <1>1, MarkAfterIs, HomeAssumption DEF StackInv, StacksHold, Unreachable
<1>7. Snapshots(bracket') /\ SnapshotHolds' /\ UndisturbedHolds'
  BY <1>1 DEF Snapshots, SnapshotHolds, UndisturbedHolds, Closed
<1>. QED
  BY <1>3, <1>5, <1>6, <1>7 DEF StackInv, StacksHold

LEMMA ForgetKeeps == ASSUME StackInv, ForgetHistory PROVE StackInv'
<1>1. /\ undo' = <<>> /\ redo' = <<>> /\ saved' = 0 /\ pushes' = pushes
      /\ bracket' = bracket /\ ~ bracket.open
  BY DEF ForgetHistory
<1>2. Entries(undo') /\ Entries(redo') /\ Len(undo') = 0
  BY <1>1, EmptyEntries
<1>3. Counts(undo', pushes') /\ saved' \in Unreachable .. MaxPushes
  BY <1>1, <1>2, HomeAssumption DEF Counts, Unreachable, StackInv, StacksHold
<1>. QED
  BY <1>1, <1>2, <1>3 DEF StackInv, StacksHold, SnapshotHolds, UndisturbedHolds

LEMMA SaveKeeps == ASSUME StackInv, Save PROVE StackInv'
<1>1. /\ undo' = undo /\ redo' = redo /\ pushes' = pushes /\ bracket' = bracket
      /\ saved' = ContentDepth(undo) /\ ~ bracket.open
  BY DEF Save
<1>2. /\ ContentDepth(undo) \in Nat /\ ContentDepth(undo) <= Len(undo) /\ Len(undo) \in Nat
      /\ Counts(undo, pushes)
  BY CountedFinite, SeqFacts DEF StackInv, StacksHold, Entries
<1>3. saved' \in Unreachable .. MaxPushes
  BY <1>1, <1>2, HomeAssumption DEF Counts, Unreachable
<1>. QED
  BY <1>1, <1>3 DEF StackInv, StacksHold, SnapshotHolds, UndisturbedHolds

LEMMA RefusedUndoKeeps == ASSUME StackInv, UndoRefused PROVE StackInv'
<1>1. /\ undo' = undo /\ redo' = redo /\ bracket' = bracket /\ saved' = saved
      /\ pushes' = [pushes EXCEPT !.undo = @ + 1]
      /\ pushes.undo + pushes.redo + 1 <= MaxPushes
  BY DEF UndoRefused, MayPush
<1>2. Counts(undo, pushes) /\ Len(undo) \in Nat
  BY EntriesFacts DEF StackInv, StacksHold
<1>3. Counts(undo', pushes') /\ pushes'.redo = pushes.redo
  BY <1>1, <1>2 DEF Counts
<1>. QED
  BY <1>1, <1>3 DEF StackInv, StacksHold, SnapshotHolds, UndisturbedHolds

LEMMA CommitNothingKeeps == ASSUME StackInv, CommitNothing PROVE StackInv'
<1>1. /\ undo' = undo /\ redo' = redo /\ saved' = saved /\ pushes' = pushes
      /\ bracket' = Closed
  BY DEF CommitNothing
<1>. QED
  BY <1>1 DEF StackInv, Snapshots, StacksHold, SnapshotHolds, UndisturbedHolds, Closed

LEMMA StackStutter == ASSUME StackInv, UNCHANGED vars PROVE StackInv'
BY DEF vars, StackInv, StacksHold, SnapshotHolds, UndisturbedHolds

LEMMA NextCases ==
  ASSUME Next
  PROVE  \/ Edits \/ Moves \/ Undo \/ UndoRefused \/ Redo \/ Save \/ ForgetHistory
         \/ BeginTransaction \/ (bracket.open /\ Restore) \/ CommitNothing
         \/ CommitTransaction
BY Zenon DEF Next, Edits, Moves, AbortTransaction, CommitRefused

LEMMA StackNext == ASSUME StackInv, [Next]_vars PROVE StackInv'
<1>1. CASE UNCHANGED vars
  BY <1>1, StackStutter
<1>2. CASE Edits
  BY <1>2, EditStep, MarkAfterIs, NewEntryKeeps
<1>3. CASE Moves
  BY <1>3, MoveStep, NewEntryKeeps
<1>4. CASE Undo
  BY <1>4, UndoKeeps
<1>5. CASE UndoRefused
  BY <1>5, RefusedUndoKeeps
<1>6. CASE Redo
  BY <1>6, RedoKeeps
<1>7. CASE Save
  BY <1>7, SaveKeeps
<1>8. CASE ForgetHistory
  BY <1>8, ForgetKeeps
<1>9. CASE BeginTransaction
  BY <1>9, BeginKeeps
<1>10. CASE bracket.open /\ Restore
  BY <1>10, RestoreKeeps
<1>11. CASE CommitNothing
  BY <1>11, CommitNothingKeeps
<1>12. CASE CommitTransaction
  BY <1>12, CommitKeeps
<1>. QED
  BY <1>1, <1>2, <1>3, <1>4, <1>5, <1>6, <1>7, <1>8, <1>9, <1>10, <1>11, <1>12, NextCases

LEMMA StackInvAlways == Spec => []StackInv
<1>1. Init => StackInv
  BY StackInit
<1>2. StackInv /\ [Next]_vars => StackInv'
  BY StackNext
<1>. QED
  BY <1>1, <1>2, PTL DEF Spec

-----------------------------------------------------------------------------
(* The saved mark.                                                         *)

\* A mark that can be reached counts entries of the line that undo and redo
\* move along, and they are those the document was saved with.
MarkHolds(u, r, mark, held) ==
  mark = Unreachable \/
    /\ mark \in 0 .. ContentDepth(Timeline(u, r))
    /\ Cut(Timeline(u, r), mark) = held

\* An open bracket's snapshot is marked right; and once an undisturbed
\* bracket has an entry of its own, nothing is left to redo and the mark is
\* below that entry.
BracketMarked ==
  bracket.open =>
    /\ MarkHolds(bracket.undo, bracket.redo, bracket.saved, marked)
    /\ bracket.pushes.redo = pushes.redo /\ Len(bracket.undo) < Len(undo)
         => redo = <<>> /\ saved <= ContentDepth(bracket.undo)

MarkInv == StackInv /\ MarkHolds(undo, redo, saved, marked) /\ BracketMarked

LEMMA DepthFacts ==
  ASSUME NEW s, Entries(s)
  PROVE  ContentDepth(s) \in Nat /\ IsSeq(s)
BY CountedFinite DEF Entries

\* The mark a new entry leaves is not above what the entry stands on.
LEMMA MarkStaysBelow ==
  ASSUME NEW u, Entries(u), NEW e, saved \in Int,
         MarkHolds(u, redo, saved, marked)
  PROVE  /\ MarkAfter(Append(u, e)) = Unreachable \/
              (MarkAfter(Append(u, e)) = saved /\ saved <= ContentDepth(u))
         /\ MarkAfter(Append(u, e)) <= ContentDepth(u)
<1>1. Front(Append(u, e)) = u /\ ContentDepth(u) \in Nat /\ IsSeq(u)
  BY AppendFacts, DepthFacts DEF Entries
<1>2. MarkAfter(Append(u, e))
        = (IF redo # <<>> /\ saved > ContentDepth(u) THEN Unreachable ELSE saved)
  BY <1>1 DEF MarkAfter
<1>3. CASE redo = <<>>
  <2>1. Timeline(u, redo) = u
    BY <1>1, <1>3, TimelineOfUndo
  <2>2. saved = Unreachable \/ saved <= ContentDepth(u)
    BY <1>1, <2>1 DEF MarkHolds
  <2>. QED
    BY <1>1, <1>2, <1>3, <2>2 DEF Unreachable
<1>4. CASE redo # <<>>
  BY <1>1, <1>2, <1>4 DEF Unreachable
<1>. QED
  BY <1>3, <1>4

\* The mark of a line holds on another line that begins with the same
\* entries, when it is not above them.
LEMMA MarkCarries ==
  ASSUME NEW u, Entries(u), NEW r, Entries(r), NEW p, IsSeq(p),
         NEW v, IsSeq(v), Begins(p, Timeline(u, r)), Begins(p, v),
         NEW held, NEW mark, MarkHolds(u, r, mark, held), mark <= ContentDepth(p)
  PROVE  MarkHolds(v, <<>>, mark, held)
<1>1. IsSeq(Timeline(u, r)) /\ Timeline(v, <<>>) = v
  BY TimelineFacts, TimelineOfUndo DEF Entries
<1>2. CASE mark = Unreachable
  BY <1>2 DEF MarkHolds
<1>3. CASE mark # Unreachable
  <2>1. /\ mark \in 0 .. ContentDepth(Timeline(u, r))
        /\ Cut(Timeline(u, r), mark) = held
    BY <1>3 DEF MarkHolds
  <2>2. mark \in Int /\ mark >= 0
    BY <1>1, <2>1, CountedFinite
  <2>3. Cut(Timeline(u, r), mark) = Cut(p, mark) /\ Cut(v, mark) = Cut(p, mark)
    BY <1>1, <2>2, BeginningCut
  <2>4. /\ ContentDepth(p) <= ContentDepth(v)
        /\ ContentDepth(p) \in Nat /\ ContentDepth(v) \in Nat
    BY BeginningCounts, CountedFinite
  <2>5. mark \in 0 .. ContentDepth(v)
    BY <2>2, <2>4
  <2>. QED
    BY <1>1, <2>1, <2>3, <2>5 DEF MarkHolds
<1>. QED
  BY <1>2, <1>3

LEMMA BeginsTimeline ==
  ASSUME NEW u, Entries(u), NEW r, Entries(r)
  PROVE  Begins(u, Timeline(u, r))
BY TimelineFacts DEF Entries

LEMMA BeginsAppend ==
  ASSUME NEW u, Entries(u), NEW e
  PROVE  Begins(u, Append(u, e))
<1>1. IsSeq(u) /\ Begins(u, u)
  BY SeqFacts DEF Entries, Begins
<1>. QED
  BY <1>1, BeginsFacts

LEMMA MarkInit == ASSUME Init PROVE MarkInv
<1>1. /\ undo = <<>> /\ redo = <<>> /\ saved = 0 /\ marked = {} /\ bracket.open = FALSE
  BY DEF Init, Closed
<1>2. Timeline(undo, redo) = <<>>
  BY <1>1, TimelineOfUndo, EmptyFacts
<1>3. MarkHolds(undo, redo, saved, marked)
  BY <1>1, <1>2, EmptyCounts DEF MarkHolds, Cut
<1>. QED
  BY <1>1, <1>3, StackInit DEF MarkInv, BracketMarked

LEMMA EditKeepsMark ==
  ASSUME MarkInv, NEW e, Whole(e), NewEntry(e, 1), saved' = MarkAfter(Append(undo, e))
  PROVE  MarkHolds(undo', redo', saved', marked') /\ BracketMarked'
<1>1. /\ undo' = Append(undo, e) /\ redo' = <<>> /\ bracket' = bracket
      /\ marked' = marked /\ pushes' = [pushes EXCEPT !.undo = @ + 1]
  BY DEF NewEntry
<1>2. /\ StackInv /\ Entries(undo) /\ Entries(redo) /\ saved \in Int
      /\ Counts(undo, pushes) /\ MarkHolds(undo, redo, saved, marked)
  BY HomeAssumption DEF MarkInv, StackInv, StacksHold, Unreachable
<1>3. /\ saved' = Unreachable \/ (saved' = saved /\ saved <= ContentDepth(undo))
      /\ saved' <= ContentDepth(undo)
  BY <1>2, MarkStaysBelow
<1>4. IsSeq(undo) /\ IsSeq(Append(undo, e)) /\ Len(undo') = Len(undo) + 1 /\ Len(undo) \in Nat
  BY <1>1, <1>2, AppendFacts DEF Entries
<1>5. MarkHolds(undo', redo', saved', marked')
  <2>1. CASE saved' = Unreachable
    BY <2>1 DEF MarkHolds
  <2>2. CASE saved' # Unreachable
    <3>1. Begins(undo, Timeline(undo, redo)) /\ Begins(undo, Append(undo, e))
      BY <1>2, BeginsTimeline, BeginsAppend
    <3>2. saved' = saved /\ saved <= ContentDepth(undo)
      BY <2>2, <1>3
    <3>3. MarkHolds(Append(undo, e), <<>>, saved, marked)
      BY <1>2, <1>4, <3>1, <3>2, MarkCarries
    <3>. QED
      BY <1>1, <3>2, <3>3
  <2>. QED
    BY <2>1, <2>2
<1>6. ASSUME bracket.open, bracket.pushes.redo = pushes.redo
      PROVE  saved' <= ContentDepth(bracket.undo)
  <2>1. /\ Entries(bracket.undo) /\ IsSeq(bracket.undo) /\ Begins(bracket.undo, undo)
        /\ ContentDepth(bracket.undo) \in Nat
        /\ Len(bracket.undo) < Len(undo) => saved <= ContentDepth(bracket.undo)
    BY <1>6, DepthFacts DEF MarkInv, BracketMarked, StackInv, SnapshotHolds, UndisturbedHolds
  <2>2. CASE Len(bracket.undo) < Len(undo)
    BY <1>3, <2>1, <2>2 DEF Unreachable
  <2>3. CASE ~ (Len(bracket.undo) < Len(undo))
    <3>1. Len(bracket.undo) = Len(undo)
      BY <2>1, <2>3, <1>4, SeqFacts DEF Begins
    <3>2. bracket.undo = undo
      BY <2>1, <3>1, <1>4, BeginsFacts
    <3>. QED
      BY <1>3, <3>2
  <2>. QED
    BY <2>2, <2>3
<1>7. pushes'.redo = pushes.redo
  BY <1>1, <1>2 DEF Counts
<1>8. BracketMarked'
  BY <1>1, <1>6, <1>7 DEF MarkInv, BracketMarked
<1>. QED
  BY <1>5, <1>8

LEMMA UndoKeepsMark ==
  ASSUME MarkInv, Undo
  PROVE  MarkHolds(undo', redo', saved', marked') /\ BracketMarked'
<1>. DEFINE e == Last(undo)  k == Replayed(e)
<1>1. /\ undo # <<>> /\ undo' = Front(undo) /\ redo' = Append(redo, e)
      /\ pushes' = [undo |-> pushes.undo + k, redo |-> pushes.redo + k + 1]
      /\ bracket' = (IF bracket.open THEN [bracket EXCEPT !.undid = TRUE] ELSE bracket)
      /\ saved' = saved /\ marked' = marked
  BY UndoStep
<1>2. /\ StackInv /\ Entries(undo) /\ Entries(redo) /\ Counts(undo, pushes)
      /\ MarkHolds(undo, redo, saved, marked)
  BY DEF MarkInv, StackInv, StacksHold
<1>3. Whole(e) /\ k \in Nat
  BY <1>1, <1>2, EntriesFacts, ReplayedFacts
<1>4. Timeline(undo', redo') = Timeline(undo, redo)
  <2>1. IsSeq(Front(undo)) /\ undo = Append(Front(undo), e) /\ IsSeq(redo)
    BY <1>1, <1>2, FrontFacts DEF Entries
  <2>. HIDE DEF e
  <2>2. Timeline(Append(Front(undo), e), redo) = Timeline(Front(undo), Append(redo, e))
    BY <2>1, TimelineMoves
  <2>. QED
    BY <1>1, <2>1, <2>2
<1>. HIDE DEF e, k
<1>5. MarkHolds(undo', redo', saved', marked')
  BY <1>1, <1>2, <1>4 DEF MarkHolds
<1>6. /\ bracket'.open = bracket.open
      /\ bracket.open => /\ bracket'.undo = bracket.undo /\ bracket'.redo = bracket.redo
                         /\ bracket'.pushes = bracket.pushes
                         /\ bracket'.saved = bracket.saved
  BY <1>1, <1>2, SnapshotFacts DEF StackInv
<1>7. bracket.open => bracket.pushes.redo # pushes'.redo
  <2>1. SUFFICES ASSUME bracket.open PROVE bracket.pushes.redo # pushes'.redo
    OBVIOUS
  <2>2. bracket.pushes.redo <= pushes.redo /\ Counts(bracket.undo, bracket.pushes)
    BY <1>2, <2>1 DEF StackInv, UndisturbedHolds, SnapshotHolds
  <2>3. pushes'.redo = pushes.redo + k + 1
    BY <1>1
  <2>4. pushes.redo \in Nat /\ bracket.pushes.redo \in Nat
    BY <1>2, <2>2 DEF Counts
  <2>. QED
    BY <1>3, <2>2, <2>3, <2>4
<1>8. BracketMarked'
  BY <1>1, <1>6, <1>7 DEF MarkInv, BracketMarked
<1>. QED
  BY <1>5, <1>8

LEMMA RedoKeepsMark ==
  ASSUME MarkInv, Redo, RedoInBracket = FALSE
  PROVE  MarkHolds(undo', redo', saved', marked') /\ BracketMarked'
<1>. DEFINE e == Last(redo)
<1>1. /\ redo # <<>> /\ undo' = Append(undo, e) /\ redo' = Front(redo)
      /\ bracket' = bracket /\ saved' = saved /\ marked' = marked /\ ~ bracket.open
  BY RedoStep
<1>2. /\ Entries(undo) /\ Entries(redo) /\ MarkHolds(undo, redo, saved, marked)
  BY DEF MarkInv, StackInv, StacksHold
<1>3. Timeline(undo', redo') = Timeline(undo, redo)
  <2>1. IsSeq(Front(redo)) /\ redo = Append(Front(redo), e) /\ IsSeq(undo)
    BY <1>1, <1>2, FrontFacts DEF Entries
  <2>. HIDE DEF e
  <2>2. Timeline(Append(undo, e), Front(redo)) = Timeline(undo, Append(Front(redo), e))
    BY <2>1, TimelineMoves
  <2>. QED
    BY <1>1, <2>1, <2>2
<1>4. MarkHolds(undo', redo', saved', marked')
  BY <1>1, <1>2, <1>3 DEF MarkHolds
<1>. QED
  BY <1>1, <1>4 DEF BracketMarked

LEMMA SaveKeepsMark ==
  ASSUME MarkInv, Save
  PROVE  MarkHolds(undo', redo', saved', marked') /\ BracketMarked'
<1>1. /\ undo' = undo /\ redo' = redo /\ bracket' = bracket /\ ~ bracket.open
      /\ saved' = ContentDepth(undo) /\ marked' = Content(undo)
  BY DEF Save
<1>. DEFINE T == Timeline(undo, redo)
<1>2. IsSeq(undo) /\ IsSeq(T) /\ Begins(undo, T)
  BY TimelineFacts DEF MarkInv, StackInv, StacksHold, Entries
<1>3. /\ ContentDepth(undo) \in Nat /\ ContentDepth(T) \in Nat
      /\ ContentDepth(undo) <= ContentDepth(T)
      /\ Content(undo) = Cut(T, ContentDepth(undo))
  BY <1>2, CountedFinite, BeginningCounts
<1>. HIDE DEF T
<1>4. ContentDepth(undo) \in 0 .. ContentDepth(T)
  BY <1>3
<1>5. MarkHolds(undo', redo', saved', marked')
  BY <1>1, <1>3, <1>4 DEF T, MarkHolds
<1>. QED
  BY <1>1, <1>5 DEF BracketMarked

LEMMA ForgetKeepsMark ==
  ASSUME MarkInv, ForgetHistory
  PROVE  MarkHolds(undo', redo', saved', marked') /\ BracketMarked'
<1>1. /\ undo' = <<>> /\ redo' = <<>> /\ saved' = 0 /\ marked' = {}
      /\ bracket' = bracket /\ ~ bracket.open
  BY DEF ForgetHistory
<1>2. Timeline(<<>>, <<>>) = <<>>
  BY TimelineOfUndo, EmptyFacts
<1>3. MarkHolds(undo', redo', saved', marked')
  BY <1>1, <1>2, EmptyCounts DEF MarkHolds, Cut
<1>. QED
  BY <1>1, <1>3 DEF BracketMarked

LEMMA BeginKeepsMark ==
  ASSUME MarkInv, BeginTransaction
  PROVE  MarkHolds(undo', redo', saved', marked') /\ BracketMarked'
<1>1. /\ bracket' = [open |-> TRUE, tree |-> tree, fresh |-> fresh, sessions |-> sessions,
                     undo |-> undo, redo |-> redo, pushes |-> pushes,
                     saved |-> saved, undid |-> FALSE]
      /\ undo' = undo /\ redo' = redo /\ pushes' = pushes /\ saved' = saved
      /\ marked' = marked
  BY DEF BeginTransaction
<1>2. bracket'.undo = undo /\ bracket'.redo = redo /\ bracket'.saved = saved
  BY <1>1
<1>3. MarkHolds(undo, redo, saved, marked) /\ Len(undo) \in Nat
  BY EntriesFacts DEF MarkInv, StackInv, StacksHold
<1>4. ~ (Len(undo) < Len(undo))
  BY <1>3
<1>. QED
  BY <1>1, <1>2, <1>3, <1>4 DEF BracketMarked

LEMMA CommitKeepsMark ==
  ASSUME MarkInv, CommitTransaction
  PROVE  MarkHolds(undo', redo', saved', marked') /\ BracketMarked'
<1>1. PICK e :
        /\ Whole(e) /\ IsSeq(bracket.undo) /\ Begins(bracket.undo, undo)
        /\ Len(bracket.undo) < Len(undo) /\ bracket.pushes.redo = pushes.redo
        /\ undo' = Append(bracket.undo, e) /\ redo' = <<>>
        /\ saved' = MarkAfter(Append(bracket.undo, e))
        /\ bracket' = Closed /\ marked' = marked
  BY CommitStep, Zenon DEF MarkInv
<1>2. /\ bracket.open /\ Entries(bracket.undo) /\ Entries(undo) /\ Entries(redo)
      /\ MarkHolds(undo, redo, saved, marked)
  BY DEF CommitTransaction, MarkInv, StackInv, StacksHold, SnapshotHolds
<1>3. redo = <<>> /\ saved <= ContentDepth(bracket.undo)
  BY <1>1, <1>2 DEF MarkInv, BracketMarked
<1>4. saved' = saved
  BY <1>1, <1>3 DEF MarkAfter
<1>5. /\ Timeline(undo, redo) = undo /\ IsSeq(undo) /\ IsSeq(Append(bracket.undo, e))
      /\ Begins(bracket.undo, Append(bracket.undo, e))
  BY <1>2, <1>3, TimelineOfUndo, AppendFacts, BeginsAppend DEF Entries
<1>6. MarkHolds(Append(bracket.undo, e), <<>>, saved, marked)
  BY <1>1, <1>2, <1>3, <1>5, MarkCarries
<1>. QED
  BY <1>1, <1>4, <1>6 DEF BracketMarked, Closed

LEMMA MarkNext ==
  ASSUME RedoInBracket = FALSE, "reparent" \notin Ops, MarkInv, [Next]_vars
  PROVE  MarkInv'
<1>1. StackInv'
  BY StackNext DEF MarkInv
<1>2. MarkHolds(undo', redo', saved', marked') /\ BracketMarked'
  <2>1. CASE UNCHANGED vars
    BY <2>1 DEF vars, MarkInv, BracketMarked
  <2>2. CASE Edits
    BY <2>2, EditStep, EditKeepsMark
  <2>3. CASE Moves
    BY <2>3, MoveStep
  <2>4. CASE Undo
    BY <2>4, UndoKeepsMark
  <2>5. CASE UndoRefused
    <3>1. /\ undo' = undo /\ redo' = redo /\ saved' = saved /\ marked' = marked
          /\ bracket' = bracket /\ pushes' = [pushes EXCEPT !.undo = @ + 1]
      BY <2>5 DEF UndoRefused
    <3>2. pushes'.redo = pushes.redo
      BY <3>1 DEF MarkInv, StackInv, StacksHold, Counts
    <3>. QED
      BY <3>1, <3>2 DEF MarkInv, BracketMarked
  <2>6. CASE Redo
    BY <2>6, RedoKeepsMark
  <2>7. CASE Save
    BY <2>7, SaveKeepsMark
  <2>8. CASE ForgetHistory
    BY <2>8, ForgetKeepsMark
  <2>9. CASE BeginTransaction
    BY <2>9, BeginKeepsMark
  <2>10. CASE bracket.open /\ Restore
    BY <2>10 DEF Restore, MarkInv, BracketMarked, Closed
  <2>11. CASE CommitNothing
    BY <2>11 DEF CommitNothing, MarkInv, BracketMarked, Closed
  <2>12. CASE CommitTransaction
    BY <2>12, CommitKeepsMark
  <2>. QED
    BY <2>1, <2>2, <2>3, <2>4, <2>5, <2>6, <2>7, <2>8, <2>9, <2>10, <2>11, <2>12, NextCases
<1>. QED
  BY <1>1, <1>2 DEF MarkInv

-----------------------------------------------------------------------------
(* The theorems.                                                           *)

LEMMA StacksTypedHolds == ASSUME StackInv PROVE StacksTyped
<1>1. \A e \in Stack(undo) \cup Stack(redo) : e.steps # <<>>
  BY DEF StackInv, StacksHold, Entries, Whole
<1>2. pushes \in [undo : 0 .. MaxPushes, redo : 0 .. MaxPushes]
  BY HomeAssumption DEF StackInv, StacksHold, Counts
<1>3. saved \in Unreachable .. MaxPushes /\ bracket.open \in BOOLEAN
  BY SnapshotFacts DEF StackInv, StacksHold
<1>. QED
  BY <1>1, <1>2, <1>3 DEF StacksTyped

LEMMA BracketHolds == ASSUME StackInv PROVE BracketKeepsBefore /\ UndoIsNoticed
<1>1. BracketKeepsBefore
  <2>1. SUFFICES ASSUME bracket.open, ~ Disturbed
                 PROVE  SubSeq(undo, 1, Len(bracket.undo)) = bracket.undo
    BY DEF BracketKeepsBefore
  <2>2. IsSeq(bracket.undo) /\ IsSeq(undo) /\ Begins(bracket.undo, undo)
    BY <2>1 DEF Disturbed, StackInv, StacksHold, SnapshotHolds, UndisturbedHolds, Entries
  <2>. QED
    BY <2>2, BeginsFacts
<1>2. UndoIsNoticed
  BY DEF UndoIsNoticed, Disturbed, StackInv, UndisturbedHolds
<1>. QED
  BY <1>1, <1>2

LEMMA MarkIsTrue == ASSUME MarkInv PROVE MarkIsOfThisBranch
<1>1. SUFFICES ASSUME saved = ContentDepth(undo) PROVE Content(undo) = marked
  BY DEF MarkIsOfThisBranch, AtSavedMark
<1>. DEFINE T == Timeline(undo, redo)
<1>2. IsSeq(undo) /\ IsSeq(T) /\ Begins(undo, T) /\ ContentDepth(undo) \in Nat
  BY TimelineFacts, CountedFinite DEF MarkInv, StackInv, StacksHold, Entries
<1>3. Content(undo) = Cut(T, ContentDepth(undo))
  BY <1>2, BeginningCounts
<1>. HIDE DEF T
<1>4. saved # Unreachable
  BY <1>1, <1>2 DEF Unreachable
<1>5. Cut(T, saved) = marked
  BY <1>4 DEF T, MarkInv, MarkHolds
<1>. QED
  BY <1>1, <1>3, <1>5

\* Whatever is edited, undone, redone, bracketed, moved or refused: no
\* history entry is empty, a bracket that can still commit has the entries
\* from before it where they were, and a bracket in which an undo ran knows
\* that it is disturbed (commit_transaction, document.rs).
THEOREM BracketsKeepTheStacks ==
  Spec => [](StacksTyped /\ BracketKeepsBefore /\ UndoIsNoticed)
<1>1. StackInv => StacksTyped /\ BracketKeepsBefore /\ UndoIsNoticed
  BY StacksTypedHolds, BracketHolds
<1>. QED
  BY <1>1, StackInvAlways, PTL

\* Where no bracket's body redoes and no node is reparented, a document that
\* reads clean also holds exactly the entries it was saved with: the mark
\* never counts the entries of another branch (commit_new_action, at_saved_mark).
THEOREM TheStacksAreTrue ==
  ASSUME RedoInBracket = FALSE, "reparent" \notin Ops
  PROVE  Spec => []StacksAreTrue
<1>1. Init => MarkInv
  BY MarkInit
<1>2. MarkInv /\ [Next]_vars => MarkInv'
  BY MarkNext
<1>3. MarkInv => StacksAreTrue
  BY StacksTypedHolds, BracketHolds, MarkIsTrue DEF MarkInv, StacksAreTrue
<1>. QED
  BY <1>1, <1>2, <1>3, PTL DEF Spec
-----------------------------------------------------------------------------
(* The tree and one step of an edit: what the arms of redo_step and of    *)
(* undo_step make of the four parts of a tree.                            *)

-----------------------------------------------------------------------------
(* What each arm of apply and of undo does to the parts of a tree.         *)

Trees ==
  [parent : [Nodes -> Parents], hidden : SUBSET Nodes,
   members : [Groups -> SUBSET Nodes], line : [Drawn -> Parents]]

Rehomed(parent, ns, p) == [n \in Nodes |-> IF n \in ns THEN p ELSE parent[n]]

\* The tree with these parts.
IsTree(t, parent, hidden, members, line) ==
  /\ t \in Trees
  /\ t.parent = parent /\ t.hidden = hidden /\ t.members = members /\ t.line = line

\* A tree is its four parts.
LEMMA SameTree ==
  ASSUME NEW t \in Trees, NEW u \in Trees, t.parent = u.parent, t.hidden = u.hidden,
         t.members = u.members, t.line = u.line
  PROVE  t = u
BY DEF Trees

LEMMA TreeParts ==
  ASSUME NEW t \in Trees
  PROVE  /\ t.parent \in [Nodes -> Parents] /\ t.hidden \in SUBSET Nodes
         /\ t.members \in [Groups -> SUBSET Nodes] /\ t.line \in [Drawn -> Parents]
         /\ Live(t) = Nodes \ t.hidden /\ Live(t) \subseteq Nodes
BY DEF Trees, Live

LEMMA SetParentsIs ==
  ASSUME NEW t \in Trees, NEW ns, NEW p \in Parents
  PROVE  IsTree(SetParents(t, ns, p), Rehomed(t.parent, ns, p), t.hidden, t.members, t.line)
BY DEF Trees, SetParents, Rehomed, IsTree

LEMMA SplicedIs ==
  ASSUME NEW ms \in [Groups -> SUBSET Nodes], NEW p \in Groups, NEW n \in Nodes,
         NEW ns \in SUBSET Nodes
  PROVE  Spliced(ms, p, n, ns) \in [Groups -> SUBSET Nodes]
BY DEF Spliced

LEMMA DrawIs ==
  ASSUME NEW t \in Trees, NEW step
  PROVE  IsTree(ApplyDraw(t, step), t.parent, t.hidden \ {step.node}, t.members, t.line)
BY DEF Trees, ApplyDraw, IsTree

LEMMA UndrawIs ==
  ASSUME NEW t \in Trees, NEW step, step.node \in Nodes
  PROVE  IsTree(RevertDraw(t, step), t.parent, t.hidden \cup {step.node}, t.members, t.line)
BY DEF Trees, RevertDraw, IsTree

LEMMA DeleteIs ==
  ASSUME NEW t \in Trees, NEW step, step.node \in Nodes, step.parent \in Parents
  PROVE  IsTree(ApplyDelete(t, step), t.parent, t.hidden \cup {step.node},
                IF step.parent = Top THEN t.members
                ELSE Spliced(t.members, step.parent, step.node, {}), t.line)
<1>1. step.parent # Top => Spliced(t.members, step.parent, step.node, {}) \in [Groups -> SUBSET Nodes]
  BY TreeParts, SplicedIs DEF Parents
<1>. QED
  BY <1>1 DEF Trees, ApplyDelete, IsTree

LEMMA UndeleteIs ==
  ASSUME NEW t \in Trees, NEW step, step.node \in Nodes, step.parent \in Parents,
         step.prev \in SUBSET Nodes
  PROVE  IsTree(RevertDelete(t, step), t.parent, t.hidden \ {step.node},
                IF step.parent = Top THEN t.members
                ELSE [t.members EXCEPT ![step.parent] = step.prev], t.line)
BY DEF Trees, RevertDelete, IsTree, Parents

LEMMA Patched ==
  ASSUME NEW u, NEW pa, NEW hi, NEW me, NEW li, IsTree(u, pa, hi, me, li),
         NEW pa2 \in [Nodes -> Parents], NEW hi2 \in SUBSET Nodes,
         NEW me2 \in [Groups -> SUBSET Nodes], NEW li2 \in [Drawn -> Parents]
  PROVE  /\ IsTree([u EXCEPT !.hidden = hi2], pa, hi2, me, li)
         /\ IsTree([u EXCEPT !.members = me2], pa, hi, me2, li)
         /\ IsTree([u EXCEPT !.hidden = hi2, !.members = me2], pa, hi2, me2, li)
         /\ IsTree([u EXCEPT !.hidden = hi2, !.members = me2, !.line = li2], pa, hi2, me2, li2)
         /\ IsTree([u EXCEPT !.parent = pa2, !.hidden = hi2, !.members = me2], pa2, hi2, me2, li)
BY DEF Trees, IsTree

LEMMA SplicedInIs ==
  ASSUME NEW ms \in [Groups -> SUBSET Nodes], NEW p \in Parents, NEW n \in Nodes,
         NEW ns \in SUBSET Nodes
  PROVE  SplicedIn(ms, p, n, ns) \in [Groups -> SUBSET Nodes]
BY DEF SplicedIn, Parents

LEMMA GroupIs ==
  ASSUME NEW t \in Trees, NEW step, step.node \in Groups, step.parent \in Parents
  PROVE  IsTree(ApplyGroup(t, step),
                [Rehomed(t.parent, t.members[step.node], step.node)
                   EXCEPT ![step.node] = step.parent],
                t.hidden \ {step.node},
                SplicedIn(t.members, step.parent, step.node, t.members[step.node]), t.line)
<1>. DEFINE g == step.node  ms == t.members[g]  u == SetParents(t, ms, g)
            m == SplicedIn(t.members, step.parent, g, ms)
            pa == Rehomed(t.parent, ms, g)
            pb == [pa EXCEPT ![g] = step.parent]
            h == t.hidden \ {g}
<1>1. IsTree(u, pa, t.hidden, t.members, t.line)
  BY SetParentsIs DEF Parents
<1>2. m \in [Groups -> SUBSET Nodes] /\ h \in SUBSET Nodes /\ t.line \in [Drawn -> Parents]
  BY TreeParts, SplicedInIs DEF Nodes
<1>3. pb \in [Nodes -> Parents]
  BY TreeParts DEF Rehomed, Parents
<1>4. ApplyGroup(t, step) = [u EXCEPT !.parent = pb, !.hidden = h, !.members = m]
  <2>1. ApplyGroup(t, step) = [u EXCEPT !.parent = [u.parent EXCEPT ![g] = step.parent],
            !.hidden = u.hidden \ {g}, !.members = SplicedIn(u.members, step.parent, g, ms)]
    BY DEF ApplyGroup
  <2>. QED
    BY <1>1, <2>1, Zenon DEF IsTree
<1>. HIDE DEF u, m, pa, pb, h
<1>5. IsTree([u EXCEPT !.parent = pb, !.hidden = h, !.members = m], pb, h, m, t.line)
  BY <1>1, <1>2, <1>3, Patched
<1>. QED
  BY <1>4, <1>5 DEF pb, pa, h, m

LEMMA DegroupIs ==
  ASSUME NEW t \in Trees, NEW step, step.node \in Groups, step.parent \in Parents,
         step.prev \in SUBSET Nodes
  PROVE  IsTree(RevertGroup(t, step),
                Rehomed(t.parent, t.members[step.node], step.parent),
                t.hidden \cup {step.node},
                IF step.parent = Top THEN t.members
                ELSE [t.members EXCEPT ![step.parent] = step.prev], t.line)
<1>. DEFINE pa == Rehomed(t.parent, t.members[step.node], step.parent)
            u == SetParents(t, t.members[step.node], step.parent)
            h == t.hidden \cup {step.node}
            m == IF step.parent = Top THEN t.members
                 ELSE [t.members EXCEPT ![step.parent] = step.prev]
<1>1. IsTree(u, pa, t.hidden, t.members, t.line)
  BY SetParentsIs
<1>2. m \in [Groups -> SUBSET Nodes] /\ h \in SUBSET Nodes /\ t.line \in [Drawn -> Parents]
      /\ pa \in [Nodes -> Parents]
  BY TreeParts DEF Nodes, Parents, Rehomed
<1>3. RevertGroup(t, step) = [u EXCEPT !.hidden = h, !.members = m]
  <2>1. RevertGroup(t, step) =
          [u EXCEPT !.hidden = u.hidden \cup {step.node},
                    !.members = IF step.parent = Top THEN u.members
                                ELSE [u.members EXCEPT ![step.parent] = step.prev]]
    BY DEF RevertGroup
  <2>. QED
    BY <1>1, <2>1, Zenon DEF IsTree
<1>. HIDE DEF u, m, pa, h
<1>4. IsTree([u EXCEPT !.hidden = h, !.members = m], pa, h, m, t.line)
  BY <1>1, <1>2, Patched
<1>. QED
  BY <1>3, <1>4 DEF pa, h, m

LEMMA UngroupIs ==
  ASSUME NEW t \in Trees, NEW step, step.node \in Groups, step.parent \in Parents
  PROVE  IsTree(ApplyUngroup(t, step),
                Rehomed(t.parent, t.members[step.node], step.parent),
                t.hidden \cup {step.node},
                IF step.parent = Top THEN t.members
                ELSE Spliced(t.members, step.parent, step.node, t.members[step.node]),
                [h \in Drawn |-> IF h \in step.lines THEN step.parent ELSE t.line[h]])
<1>. DEFINE ms == t.members[step.node]
            pa == Rehomed(t.parent, ms, step.parent)
            u == SetParents(t, ms, step.parent)
            h == t.hidden \cup {step.node}
            m == IF step.parent = Top THEN t.members
                 ELSE Spliced(t.members, step.parent, step.node, ms)
            l == [x \in Drawn |-> IF x \in step.lines THEN step.parent ELSE t.line[x]]
<1>1. IsTree(u, pa, t.hidden, t.members, t.line)
  BY SetParentsIs
<1>2. m \in [Groups -> SUBSET Nodes]
  <2>1. t.members \in [Groups -> SUBSET Nodes] /\ ms \in SUBSET Nodes /\ step.node \in Nodes
    BY TreeParts DEF Nodes
  <2>2. step.parent # Top => Spliced(t.members, step.parent, step.node, ms) \in [Groups -> SUBSET Nodes]
    BY <2>1, SplicedIs DEF Parents
  <2>. QED
    BY <2>1, <2>2
<1>3. h \in SUBSET Nodes /\ l \in [Drawn -> Parents] /\ pa \in [Nodes -> Parents]
  BY TreeParts DEF Nodes, Rehomed
<1>4. ApplyUngroup(t, step) = [u EXCEPT !.hidden = h, !.members = m, !.line = l]
  <2>1. ApplyUngroup(t, step) =
          [u EXCEPT !.hidden = u.hidden \cup {step.node},
                    !.members = IF step.parent = Top THEN u.members
                                ELSE Spliced(u.members, step.parent, step.node, ms),
                    !.line = [x \in Drawn |-> IF x \in step.lines THEN step.parent
                                              ELSE u.line[x]]]
    BY DEF ApplyUngroup
  <2>. QED
    BY <1>1, <2>1, Zenon DEF IsTree
<1>. HIDE DEF u, m, pa, h, l
<1>5. IsTree([u EXCEPT !.hidden = h, !.members = m, !.line = l], pa, h, m, l)
  BY <1>1, <1>2, <1>3, Patched
<1>. QED
  BY <1>4, <1>5 DEF pa, h, m, l

LEMMA DeungroupIs ==
  ASSUME NEW t \in Trees, NEW step, step.node \in Groups, step.parent \in Parents,
         step.prev \in SUBSET Nodes
  PROVE  IsTree(RevertUngroup(t, step),
                Rehomed(t.parent, t.members[step.node], step.node),
                t.hidden \ {step.node},
                IF step.parent = Top THEN t.members
                ELSE [t.members EXCEPT ![step.parent] = step.prev],
                [h \in Drawn |-> IF h \in step.lines THEN step.node ELSE t.line[h]])
<1>. DEFINE pa == Rehomed(t.parent, t.members[step.node], step.node)
            u == SetParents(t, t.members[step.node], step.node)
            h == t.hidden \ {step.node}
            m == IF step.parent = Top THEN t.members
                 ELSE [t.members EXCEPT ![step.parent] = step.prev]
            l == [x \in Drawn |-> IF x \in step.lines THEN step.node ELSE t.line[x]]
<1>1. IsTree(u, pa, t.hidden, t.members, t.line)
  BY SetParentsIs DEF Parents
<1>2. /\ m \in [Groups -> SUBSET Nodes] /\ h \in SUBSET Nodes
      /\ l \in [Drawn -> Parents] /\ pa \in [Nodes -> Parents]
  BY TreeParts DEF Nodes, Parents, Rehomed
<1>3. RevertUngroup(t, step) = [u EXCEPT !.hidden = h, !.members = m, !.line = l]
  <2>1. RevertUngroup(t, step) =
          [u EXCEPT !.hidden = u.hidden \ {step.node},
                    !.members = IF step.parent = Top THEN u.members
                                ELSE [u.members EXCEPT ![step.parent] = step.prev],
                    !.line = [x \in Drawn |-> IF x \in step.lines THEN step.node
                                              ELSE u.line[x]]]
    BY DEF RevertUngroup
  <2>. QED
    BY <1>1, <2>1, Zenon DEF IsTree
<1>. HIDE DEF u, m, pa, h, l
<1>4. IsTree([u EXCEPT !.hidden = h, !.members = m, !.line = l], pa, h, m, l)
  BY <1>1, <1>2, Patched
<1>. QED
  BY <1>3, <1>4 DEF pa, h, m, l

\* Recorded member lists.
Lists(lists) ==
  /\ DOMAIN lists \subseteq Groups
  /\ \A g \in DOMAIN lists : lists[g] \in SUBSET Nodes

LEMMA ReplacedIs ==
  ASSUME NEW ms \in [Groups -> SUBSET Nodes], NEW lists, Lists(lists)
  PROVE  Replaced(ms, lists) \in [Groups -> SUBSET Nodes]
BY DEF Lists, Replaced

LEMMA MoveIs ==
  ASSUME NEW t \in Trees, NEW step, step.next \in Parents, step.from \in Parents,
         Lists(step.after), Lists(step.before)
  PROVE  /\ IsTree(ApplyMove(t, step), Rehomed(t.parent, {step.node}, step.next), t.hidden,
                   Replaced(t.members, step.after), t.line)
         /\ IsTree(RevertMove(t, step), Rehomed(t.parent, {step.node}, step.from), t.hidden,
                   Replaced(t.members, step.before), t.line)
<1>1. ASSUME NEW p \in Parents, NEW lists, Lists(lists)
      PROVE  IsTree([SetParents(t, {step.node}, p) EXCEPT !.members = Replaced(@, lists)],
                    Rehomed(t.parent, {step.node}, p), t.hidden,
                    Replaced(t.members, lists), t.line)
  <2>. DEFINE pa == Rehomed(t.parent, {step.node}, p)
              u == SetParents(t, {step.node}, p)
              m == Replaced(t.members, lists)
  <2>1. IsTree(u, pa, t.hidden, t.members, t.line)
    BY SetParentsIs
  <2>2. m \in [Groups -> SUBSET Nodes]
    BY <1>1, TreeParts, ReplacedIs
  <2>3. /\ pa \in [Nodes -> Parents] /\ t.hidden \in SUBSET Nodes
        /\ t.line \in [Drawn -> Parents]
    BY TreeParts DEF Rehomed
  <2>4. [u EXCEPT !.members = Replaced(@, lists)] = [u EXCEPT !.members = m]
    <3>1. Replaced(u.members, lists) = m
      BY <2>1 DEF IsTree
    <3>. HIDE DEF u, m
    <3>. QED
      BY <3>1
  <2>. HIDE DEF u, m, pa
  <2>5. IsTree([u EXCEPT !.members = m], pa, t.hidden, m, t.line)
    BY <2>1, <2>2, <2>3, Patched
  <2>. QED
    BY <2>4, <2>5 DEF u, m, pa
<1>. QED
  BY <1>1 DEF ApplyMove, RevertMove

LEMMA OpenIs ==
  ASSUME NEW t \in Trees, NEW step, step.node \in Groups
  PROVE  /\ IsTree(ApplyOpen(t, step), Rehomed(t.parent, step.members, Top),
                   t.hidden \cup {step.node}, t.members, t.line)
         /\ IsTree(RevertOpen(t, step), Rehomed(t.parent, step.members, step.node),
                   t.hidden \ {step.node}, t.members, t.line)
<1>1. ASSUME NEW p \in Parents, NEW h \in SUBSET Nodes
      PROVE  IsTree([SetParents(t, step.members, p) EXCEPT !.hidden = h],
                    Rehomed(t.parent, step.members, p), h, t.members, t.line)
  <2>. DEFINE pa == Rehomed(t.parent, step.members, p)
              u == SetParents(t, step.members, p)
  <2>1. IsTree(u, pa, t.hidden, t.members, t.line)
    BY SetParentsIs
  <2>2. /\ pa \in [Nodes -> Parents] /\ t.members \in [Groups -> SUBSET Nodes]
        /\ t.line \in [Drawn -> Parents]
    BY TreeParts DEF Rehomed
  <2>. HIDE DEF u, pa
  <2>3. IsTree([u EXCEPT !.hidden = h], pa, h, t.members, t.line)
    BY <2>1, <2>2, Patched
  <2>. QED
    BY <2>3 DEF u, pa
<1>2. /\ t.hidden \cup {step.node} \in SUBSET Nodes /\ t.hidden \ {step.node} \in SUBSET Nodes
      /\ Top \in Parents /\ step.node \in Parents
  BY TreeParts DEF Nodes, Parents
<1>3. \A p \in Parents : SetParents(t, step.members, p).hidden = t.hidden
  BY SetParentsIs DEF IsTree
<1>4. /\ ApplyOpen(t, step) = [SetParents(t, step.members, Top) EXCEPT
                                 !.hidden = t.hidden \cup {step.node}]
      /\ RevertOpen(t, step) = [SetParents(t, step.members, step.node) EXCEPT
                                 !.hidden = t.hidden \ {step.node}]
  BY <1>2, <1>3 DEF ApplyOpen, RevertOpen
<1>. QED
  BY <1>1, <1>2, <1>4

\* The drawings as a close leaves them.
Lines(t, f, stack) ==
  [h \in Drawn |-> IF t.line[h] = Top /\ h \in Released(stack, f.bound)
                   THEN f.group ELSE t.line[h]]

LEMMA ExitIs ==
  ASSUME NEW t \in Trees, NEW f, f.group \in Groups, NEW stack
  PROVE  IsTree(Exit(t, f, stack), Rehomed(t.parent, Folded(t, f, stack), f.group),
                IF Emptied(Folded(t, f, stack), Lines(t, f, stack), f.group) THEN t.hidden
                ELSE t.hidden \ {f.group},
                [t.members EXCEPT ![f.group] = Folded(t, f, stack)], Lines(t, f, stack))
<1>. DEFINE g == f.group  ms == Folded(t, f, stack)  l == Lines(t, f, stack)
            pa == Rehomed(t.parent, ms, g)
            u == SetParents(t, ms, g)
            m == [t.members EXCEPT ![g] = ms]
            h == IF Emptied(ms, l, g) THEN t.hidden ELSE t.hidden \ {g}
<1>1. IsTree(u, pa, t.hidden, t.members, t.line)
  BY SetParentsIs DEF Parents
<1>2. ms \subseteq Nodes
  BY TreeParts DEF Folded, TopLevel
<1>3. /\ pa \in [Nodes -> Parents] /\ h \in SUBSET Nodes
      /\ l \in [Drawn -> Parents]
  BY TreeParts DEF Rehomed, Parents, Lines
<1>4. m \in [Groups -> SUBSET Nodes]
  BY <1>2, TreeParts
<1>5. Exit(t, f, stack) = [u EXCEPT !.hidden = h, !.members = m, !.line = l]
  <2>1. u.members = t.members /\ u.hidden = t.hidden /\ u \in Trees
    BY <1>1 DEF IsTree
  <2>2. Exit(t, f, stack) = [u EXCEPT !.members[g] = ms, !.line = l,
            !.hidden = IF Emptied(ms, l, g) THEN @ ELSE @ \ {g}]
    BY DEF Exit, Lines
  <2>. HIDE DEF u, ms, l, g
  <2>. QED
    BY <2>1, <2>2 DEF Trees
<1>. HIDE DEF u, m, pa, h, l
<1>6. IsTree([u EXCEPT !.hidden = h, !.members = m, !.line = l], pa, h, m, l)
  BY <1>1, <1>3, <1>4, Patched
<1>. QED
  BY <1>5, <1>6 DEF pa, h, m, l

LEMMA UncloseIs ==
  ASSUME NEW t \in Trees, NEW step, step.node \in Groups, step.prev \in SUBSET Nodes
  PROVE  IsTree(RevertClose(t, step), Rehomed(t.parent, step.members, Top),
                t.hidden \cup {step.node}, [t.members EXCEPT ![step.node] = step.prev], t.line)
<1>. DEFINE pa == Rehomed(t.parent, step.members, Top)
            u == SetParents(t, step.members, Top)
            m == [t.members EXCEPT ![step.node] = step.prev]
            h == t.hidden \cup {step.node}
<1>1. IsTree(u, pa, t.hidden, t.members, t.line)
  BY SetParentsIs DEF Parents
<1>2. /\ pa \in [Nodes -> Parents] /\ h \in SUBSET Nodes
      /\ m \in [Groups -> SUBSET Nodes] /\ t.line \in [Drawn -> Parents]
  BY TreeParts DEF Rehomed, Parents, Nodes
<1>3. RevertClose(t, step) = [u EXCEPT !.hidden = h, !.members = m]
  <2>1. u.members = t.members /\ u.hidden = t.hidden /\ u \in Trees
    BY <1>1 DEF IsTree
  <2>2. RevertClose(t, step) = [u EXCEPT !.hidden = @ \cup {step.node},
                                         !.members[step.node] = step.prev]
    BY DEF RevertClose
  <2>. HIDE DEF u
  <2>. QED
    BY <2>1, <2>2 DEF Trees
<1>. HIDE DEF u, m, pa, h
<1>4. IsTree([u EXCEPT !.hidden = h, !.members = m], pa, h, m, t.line)
  BY <1>1, <1>2, Patched
<1>. QED
  BY <1>3, <1>4 DEF pa, h, m

LEMMA WithGroupIs ==
  ASSUME NEW t \in Trees, NEW g \in Groups, NEW ms \in SUBSET Nodes, NEW p \in Parents
  PROVE  IsTree(WithGroup(t, g, ms, p), [t.parent EXCEPT ![g] = p], t.hidden,
                [t.members EXCEPT ![g] = ms], t.line)
BY DEF WithGroup, IsTree, Trees, Nodes

-----------------------------------------------------------------------------
(* A step that fits the document it is applied to, and that undoing it    *)
(* gives the same document back.                                          *)

-----------------------------------------------------------------------------
(* A sound document: a tree that agrees with itself, and sessions whose    *)
(* groups are hidden at the top level, in the order their boundaries show. *)

TreeOk(t, fr) ==
  /\ t \in Trees
  /\ fr \subseteq t.hidden
  /\ \A n \in fr : t.parent[n] = Top
  /\ \A g \in Groups : t.members[g] \cap fr = {}
  /\ \A n \in Live(t) : t.parent[n] \in Groups => t.parent[n] \in Live(t)
  /\ \A g \in Groups \cap Live(t) : t.members[g] = {n \in Live(t) : t.parent[n] = g}
  /\ \A S \in SUBSET Live(t) : (\A n \in S : t.parent[n] \in S) => S = {}

Frame(f) ==
  [group |-> f.group, members |-> f.members, bound |-> f.bound, outside |-> f.outside]

FramesOk(t, frames, fr) ==
  /\ IsSeq(frames)
  /\ \A i \in 1 .. Len(frames) :
       /\ frames[i] = Frame(frames[i])
       /\ frames[i].group \in Groups /\ frames[i].group \notin fr
       /\ frames[i].group \in t.hidden
       /\ t.parent[frames[i].group] = Top
       /\ frames[i].members = t.members[frames[i].group]
  /\ \A i, j \in 1 .. Len(frames) : frames[i].group = frames[j].group => i = j

\* The boundary of a session sits at the entry that opened it.
Sits(f, stack) ==
  /\ f.bound \in 1 .. Len(stack)
  /\ stack[f.bound].steps = <<[op |-> "open", node |-> f.group, members |-> f.members]>>

BoundsOk(frames, stack) == \A i \in 1 .. Len(frames) : Sits(frames[i], stack)

\* No entry is empty, or about a node that does not exist yet.
KnownStep(step, fr) ==
  /\ step.node \notin fr
  /\ step.op = "ungroup" =>
       step.node \in Groups /\ step.lines \subseteq Drawn /\ "ungroup" \in Ops
Known(stack, fr) ==
  \A i \in 1 .. Len(stack) :
    /\ 1 \in DOMAIN stack[i].steps
    /\ \A j \in DOMAIN stack[i].steps : KnownStep(stack[i].steps[j], fr)

Sound(s, fr) ==
  /\ s = State(s.tree, s.frames, s.stack)
  /\ IsSeq(s.stack) /\ Known(s.stack, fr)
  /\ TreeOk(s.tree, fr) /\ FramesOk(s.tree, s.frames, fr) /\ BoundsOk(s.frames, s.stack)

-----------------------------------------------------------------------------
(* A step that a document was recorded with: what it notes is what is there. *)

Siblings(t, p) == IF p = Top THEN {} ELSE t.members[p]

FitsDraw(t, step) == step.node \in Objects \cap t.hidden

FitsDelete(t, step) ==
  /\ step.node \in Objects \cap Live(t)
  /\ step.parent = t.parent[step.node] /\ step.prev = Siblings(t, step.parent)

FitsGroup(t, step) ==
  /\ step.node \in Groups \cap t.hidden
  /\ step.parent \in Parents /\ step.parent = t.parent[step.node]
  /\ step.members = t.members[step.node] /\ step.members # {}
  /\ step.members \subseteq Live(t)
  /\ \A m \in step.members : t.parent[m] = step.parent
  /\ step.prev = Siblings(t, step.parent)

FitsUngroup(t, step) ==
  /\ step.node \in Groups \cap Live(t)
  /\ step.parent = t.parent[step.node] /\ step.prev = Siblings(t, step.parent)
  /\ step.lines = {h \in Drawn : t.line[h] = step.node}

FitsMove(t, step) ==
  /\ step.node \in Live(t)
  /\ step.from = t.parent[step.node]
  /\ step.next = Top \/ step.next \in Groups \cap Live(t)
  /\ step.before = [g \in {step.from, step.next} \ {Top} |-> t.members[g]]
  /\ Lists(step.after) /\ DOMAIN step.after = {step.from, step.next} \ {Top}

FitsOpen(t, step) ==
  /\ step = [op |-> "open", node |-> step.node, members |-> step.members]
  /\ step.node \in Groups \cap Live(t)
  /\ t.parent[step.node] = Top
  /\ step.members = t.members[step.node]

FitsClose(s, step) ==
  /\ s.frames # <<>>
  /\ LET f == Last(s.frames)
     IN  /\ step.node = f.group /\ step.bound = f.bound /\ step.outside = f.outside
         /\ step.prev = s.tree.members[f.group]
         /\ step.members = Folded(s.tree, f, s.stack)
         /\ Released(s.stack, f.bound) = {}

Fits(s, step) ==
  \/ step.op = "draw" /\ FitsDraw(s.tree, step)
  \/ step.op = "delete" /\ FitsDelete(s.tree, step)
  \/ step.op = "group" /\ FitsGroup(s.tree, step)
  \/ step.op = "ungroup" /\ FitsUngroup(s.tree, step)
  \/ step.op = "move" /\ FitsMove(s.tree, step)
  \/ step.op = "open" /\ FitsOpen(s.tree, step)
  \/ step.op = "close" /\ FitsClose(s, step)

LEMMA Names ==
  /\ Top \notin Nodes /\ Top \notin Groups /\ Objects \cap Groups = {}
  /\ Objects \subseteq Nodes /\ Groups \subseteq Nodes /\ Groups \subseteq Parents /\ Top \in Parents
  /\ \A p \in Parents : p # Top => p \in Groups
  /\ Drawn \subseteq Groups /\ Drawn \subseteq Nodes
BY NamesAssumption, HomeAssumption DEF Nodes, Parents

LEMMA SiblingsIs ==
  ASSUME NEW t \in Trees, NEW p \in Parents
  PROVE  Siblings(t, p) \in SUBSET Nodes
BY TreeParts, Names DEF Siblings

-----------------------------------------------------------------------------
(* Taking a step back undoes it exactly.                                   *)

\* Undoing each step right after it, on a tree.
LEMMA DrawBack ==
  ASSUME NEW t, NEW fr, TreeOk(t, fr), NEW step, FitsDraw(t, step)
  PROVE  RevertDraw(ApplyDraw(t, step), step) = t
<1>1. t \in Trees /\ step.node \in Nodes /\ step.node \in t.hidden
  BY Names DEF TreeOk, FitsDraw
<1>. DEFINE u == ApplyDraw(t, step)  v == RevertDraw(u, step)
<1>2. IsTree(u, t.parent, t.hidden \ {step.node}, t.members, t.line)
  BY <1>1, DrawIs
<1>. HIDE DEF u
<1>3. IsTree(v, u.parent, u.hidden \cup {step.node}, u.members, u.line)
  BY <1>1, <1>2, UndrawIs DEF IsTree
<1>. HIDE DEF v
<1>4. v \in Trees /\ v.parent = t.parent /\ v.members = t.members /\ v.line = t.line
      /\ v.hidden = t.hidden
  BY <1>1, <1>2, <1>3 DEF IsTree
<1>5. v = t
  BY <1>1, <1>4, SameTree
<1>. QED
  BY <1>5 DEF u, v

LEMMA DeleteBack ==
  ASSUME NEW t, NEW fr, TreeOk(t, fr), NEW step, FitsDelete(t, step)
  PROVE  RevertDelete(ApplyDelete(t, step), step) = t
<1>. DEFINE n == step.node  p == step.parent
<1>1. /\ t \in Trees /\ n \in Nodes /\ n \notin t.hidden /\ p \in Parents
      /\ step.prev = Siblings(t, p) /\ step.prev \in SUBSET Nodes
  BY Names, TreeParts, SiblingsIs DEF TreeOk, FitsDelete
<1>. DEFINE u == ApplyDelete(t, step)  v == RevertDelete(u, step)
<1>2. IsTree(u, t.parent, t.hidden \cup {n},
             IF p = Top THEN t.members ELSE Spliced(t.members, p, n, {}), t.line)
  BY <1>1, DeleteIs
<1>. HIDE DEF u
<1>3. IsTree(v, u.parent, u.hidden \ {n},
             IF p = Top THEN u.members ELSE [u.members EXCEPT ![p] = step.prev], u.line)
  BY <1>1, <1>2, UndeleteIs DEF IsTree
<1>. HIDE DEF v
<1>4. v.members = t.members
  <2>1. CASE p = Top
    BY <1>2, <1>3, <2>1 DEF IsTree
  <2>2. CASE p # Top
    <3>1. p \in Groups /\ step.prev = t.members[p] /\ t.members \in [Groups -> SUBSET Nodes]
      BY <1>1, <2>2, Names, TreeParts DEF Siblings
    <3>2. u.members = Spliced(t.members, p, n, {}) /\ v.members = [u.members EXCEPT ![p] = step.prev]
      BY <1>2, <1>3, <2>2 DEF IsTree
    <3>. QED
      BY <3>1, <3>2 DEF Spliced
  <2>. QED
    BY <2>1, <2>2
<1>5. v \in Trees /\ v.parent = t.parent /\ v.line = t.line /\ v.hidden = t.hidden
  BY <1>1, <1>2, <1>3 DEF IsTree
<1>6. v = t
  BY <1>1, <1>4, <1>5, SameTree
<1>. QED
  BY <1>6 DEF u, v

LEMMA GroupParent ==
  ASSUME NEW t, NEW fr, TreeOk(t, fr), NEW step, FitsGroup(t, step)
  PROVE  /\ t \in Trees /\ step.node \in Groups /\ step.parent \in Parents
         /\ step.parent # step.node /\ step.node \notin step.members
         /\ step.node \in Nodes /\ step.node \in t.hidden
         /\ step.parent = Top \/ step.parent \in Groups \cap Live(t)
         /\ step.prev \in SUBSET Nodes
<1>1. t \in Trees /\ step.node \in Groups /\ step.parent \in Parents /\ step.node \in t.hidden
  BY DEF TreeOk, FitsGroup
<1>2. PICK m \in step.members : m \in Live(t) /\ t.parent[m] = step.parent
  BY DEF FitsGroup
<1>3. step.parent = Top \/ step.parent \in Groups \cap Live(t)
  BY <1>1, <1>2, Names DEF TreeOk
<1>4. step.node \notin step.members
  BY <1>1 DEF FitsGroup, Live
<1>5. step.parent # step.node
  BY <1>1, <1>3, Names DEF Live
<1>6. step.prev \in SUBSET Nodes
  BY <1>1, SiblingsIs DEF FitsGroup
<1>. QED
  BY <1>1, <1>3, <1>4, <1>5, <1>6, Names

LEMMA GroupBack ==
  ASSUME NEW t, NEW fr, TreeOk(t, fr), NEW step, FitsGroup(t, step)
  PROVE  RevertGroup(ApplyGroup(t, step), step) = t
<1>. DEFINE g == step.node  p == step.parent  ms == t.members[g]
<1>1. /\ t \in Trees /\ g \in Groups /\ p \in Parents /\ p # g /\ g \notin ms
      /\ g \in Nodes /\ g \in t.hidden /\ step.prev = Siblings(t, p)
      /\ step.prev \in SUBSET Nodes /\ ms = step.members
      /\ p = t.parent[g] /\ \A m \in ms : t.parent[m] = p
  BY GroupParent DEF FitsGroup
<1>2. t.parent \in [Nodes -> Parents] /\ t.members \in [Groups -> SUBSET Nodes] /\ t.hidden \subseteq Nodes
  BY <1>1, TreeParts
<1>. DEFINE u == ApplyGroup(t, step)  v == RevertGroup(u, step)
<1>3. IsTree(u, [Rehomed(t.parent, ms, g) EXCEPT ![g] = p], t.hidden \ {g},
             SplicedIn(t.members, p, g, ms), t.line)
  BY <1>1, GroupIs
<1>. HIDE DEF u
<1>4. IsTree(v, Rehomed(u.parent, u.members[g], p), u.hidden \cup {g},
             IF p = Top THEN u.members ELSE [u.members EXCEPT ![p] = step.prev], u.line)
  BY <1>1, <1>3, DegroupIs DEF IsTree
<1>. HIDE DEF v
<1>5. u.members[g] = ms
  BY <1>1, <1>2, <1>3 DEF IsTree, SplicedIn
<1>6. v.members = t.members
  <2>1. CASE p = Top
    BY <1>3, <1>4, <2>1 DEF IsTree, SplicedIn
  <2>2. CASE p # Top
    <3>1. p \in Groups /\ step.prev = t.members[p]
      BY <1>1, <2>2, Names DEF Siblings
    <3>2. /\ u.members = SplicedIn(t.members, p, g, ms)
          /\ v.members = [u.members EXCEPT ![p] = step.prev]
      BY <1>3, <1>4, <2>2 DEF IsTree
    <3>. QED
      BY <1>2, <2>2, <3>1, <3>2 DEF SplicedIn
  <2>. QED
    BY <2>1, <2>2
<1>7. v.parent = t.parent
  <2>1. u.parent = [Rehomed(t.parent, ms, g) EXCEPT ![g] = p] /\ v.parent = Rehomed(u.parent, ms, p)
    BY <1>3, <1>4, <1>5 DEF IsTree
  <2>2. \A n \in Nodes : v.parent[n] = t.parent[n]
    BY <1>1, <1>2, <2>1 DEF Rehomed
  <2>3. v.parent = [n \in Nodes |-> v.parent[n]]
    BY <2>1 DEF Rehomed
  <2>. QED
    BY <1>2, <2>2, <2>3
<1>8. v \in Trees /\ v.line = t.line /\ v.hidden = t.hidden
  BY <1>1, <1>2, <1>3, <1>4 DEF IsTree
<1>9. v = t
  BY <1>1, <1>6, <1>7, <1>8, SameTree
<1>. QED
  BY <1>9 DEF u, v

LEMMA NotItsOwnParent ==
  ASSUME NEW t, NEW fr, TreeOk(t, fr), NEW n \in Live(t)
  PROVE  t.parent[n] # n
<1>1. SUFFICES ASSUME t.parent[n] = n PROVE FALSE
  OBVIOUS
<1>. DEFINE S == {n}
<1>2. S \in SUBSET Live(t) /\ S # {} /\ \A m \in S : t.parent[m] \in S
  BY <1>1
<1>. HIDE DEF S
<1>. QED
  BY <1>2 DEF TreeOk

LEMMA UngroupParent ==
  ASSUME NEW t, NEW fr, TreeOk(t, fr), NEW step, FitsUngroup(t, step)
  PROVE  /\ t \in Trees /\ step.node \in Groups /\ step.node \in Nodes /\ step.parent \in Parents
         /\ step.node \notin t.hidden /\ step.parent # step.node
         /\ step.parent = Top \/ step.parent \in Groups \cap Live(t)
         /\ step.prev \in SUBSET Nodes
         /\ t.members[step.node] = {n \in Live(t) : t.parent[n] = step.node}
<1>1. /\ t \in Trees /\ step.node \in Groups /\ step.node \in Live(t)
      /\ step.parent = t.parent[step.node] /\ step.prev = Siblings(t, step.parent)
  BY DEF TreeOk, FitsUngroup
<1>2. step.parent \in Parents /\ step.node \in Nodes
  BY <1>1, TreeParts, Names
<1>3. step.parent # step.node
  BY <1>1, NotItsOwnParent
<1>4. step.parent = Top \/ step.parent \in Groups \cap Live(t)
  BY <1>1, <1>2, Names DEF TreeOk
<1>5. t.members[step.node] = {n \in Live(t) : t.parent[n] = step.node}
  BY <1>1 DEF TreeOk
<1>. QED
  BY <1>1, <1>2, <1>3, <1>4, <1>5, SiblingsIs DEF Live

LEMMA UngroupBack ==
  ASSUME NEW t, NEW fr, TreeOk(t, fr), NEW step, FitsUngroup(t, step)
  PROVE  RevertUngroup(ApplyUngroup(t, step), step) = t
<1>. DEFINE g == step.node  p == step.parent  ms == t.members[g]
            lines == [h \in Drawn |-> IF h \in step.lines THEN p ELSE t.line[h]]
<1>1. /\ t \in Trees /\ g \in Groups /\ p \in Parents /\ p # g /\ g \in Nodes
      /\ g \notin t.hidden /\ step.prev = Siblings(t, p) /\ step.prev \in SUBSET Nodes
      /\ \A m \in ms : t.parent[m] = g
      /\ step.lines = {h \in Drawn : t.line[h] = g}
  BY UngroupParent DEF FitsUngroup
<1>2. /\ t.parent \in [Nodes -> Parents] /\ t.members \in [Groups -> SUBSET Nodes]
      /\ t.hidden \subseteq Nodes /\ t.line \in [Drawn -> Parents]
  BY <1>1, TreeParts
<1>. DEFINE u == ApplyUngroup(t, step)  v == RevertUngroup(u, step)
<1>3. IsTree(u, Rehomed(t.parent, ms, p), t.hidden \cup {g},
             IF p = Top THEN t.members ELSE Spliced(t.members, p, g, ms), lines)
  BY <1>1, UngroupIs
<1>. HIDE DEF u
<1>4. IsTree(v, Rehomed(u.parent, u.members[g], g), u.hidden \ {g},
             IF p = Top THEN u.members ELSE [u.members EXCEPT ![p] = step.prev],
             [h \in Drawn |-> IF h \in step.lines THEN g ELSE u.line[h]])
  BY <1>1, <1>3, DeungroupIs DEF IsTree
<1>. HIDE DEF v
<1>5. u.members[g] = ms
  BY <1>1, <1>2, <1>3 DEF IsTree, Spliced
<1>6. v.members = t.members
  <2>1. CASE p = Top
    BY <1>3, <1>4, <2>1 DEF IsTree
  <2>2. CASE p # Top
    <3>1. p \in Groups /\ step.prev = t.members[p]
      BY <1>1, <2>2, Names DEF Siblings
    <3>2. /\ u.members = Spliced(t.members, p, g, ms)
          /\ v.members = [u.members EXCEPT ![p] = step.prev]
      BY <1>3, <1>4, <2>2 DEF IsTree
    <3>. QED
      BY <1>2, <2>2, <3>1, <3>2 DEF Spliced
  <2>. QED
    BY <2>1, <2>2
<1>7. v.parent = t.parent
  <2>1. u.parent = Rehomed(t.parent, ms, p) /\ v.parent = Rehomed(u.parent, ms, g)
    BY <1>3, <1>4, <1>5 DEF IsTree
  <2>2. \A n \in Nodes : v.parent[n] = t.parent[n]
    BY <1>1, <1>2, <2>1 DEF Rehomed
  <2>3. v.parent = [n \in Nodes |-> v.parent[n]]
    BY <2>1 DEF Rehomed
  <2>. QED
    BY <1>2, <2>2, <2>3
<1>8. v.line = t.line
  <2>1. u.line = lines /\ v.line = [h \in Drawn |-> IF h \in step.lines THEN g ELSE u.line[h]]
    BY <1>3, <1>4 DEF IsTree
  <2>2. \A h \in Drawn : v.line[h] = t.line[h]
    BY <1>1, <2>1
  <2>. QED
    BY <1>2, <2>1, <2>2
<1>9. v \in Trees /\ v.hidden = t.hidden
  BY <1>1, <1>2, <1>3, <1>4 DEF IsTree
<1>10. v = t
  BY <1>1, <1>6, <1>7, <1>8, <1>9, SameTree
<1>. QED
  BY <1>10 DEF u, v

LEMMA MoveTyped ==
  ASSUME NEW t, NEW fr, TreeOk(t, fr), NEW step, FitsMove(t, step)
  PROVE  /\ t \in Trees /\ step.node \in Nodes /\ step.from \in Parents /\ step.next \in Parents
         /\ step.from = Top \/ step.from \in Groups \cap Live(t)
         /\ Lists(step.after) /\ Lists(step.before)
<1>1. /\ t \in Trees /\ step.node \in Nodes /\ step.from = t.parent[step.node]
      /\ step.node \in Live(t) /\ Lists(step.after)
      /\ step.next = Top \/ step.next \in Groups \cap Live(t)
  BY TreeParts DEF TreeOk, FitsMove
<1>2. step.from \in Parents /\ step.next \in Parents /\ t.members \in [Groups -> SUBSET Nodes]
  BY <1>1, TreeParts, Names
<1>3. step.from = Top \/ step.from \in Groups \cap Live(t)
  BY <1>1, <1>2, Names DEF TreeOk
<1>4. Lists(step.before)
  <2>1. {step.from, step.next} \ {Top} \subseteq Groups
    BY <1>2, Names
  <2>2. step.before = [g \in {step.from, step.next} \ {Top} |-> t.members[g]]
    BY DEF FitsMove
  <2>. QED
    BY <1>2, <2>1, <2>2 DEF Lists
<1>. QED
  BY <1>1, <1>2, <1>3, <1>4

LEMMA MoveBack ==
  ASSUME NEW t, NEW fr, TreeOk(t, fr), NEW step, FitsMove(t, step)
  PROVE  RevertMove(ApplyMove(t, step), step) = t
<1>. DEFINE n == step.node
<1>1. /\ t \in Trees /\ n \in Nodes /\ step.from \in Parents /\ step.next \in Parents
      /\ Lists(step.after) /\ Lists(step.before)
  BY MoveTyped
<1>2. /\ step.from = t.parent[n]
      /\ step.before = [g \in {step.from, step.next} \ {Top} |-> t.members[g]]
      /\ DOMAIN step.after = {step.from, step.next} \ {Top}
  BY DEF FitsMove
<1>3. t.parent \in [Nodes -> Parents] /\ t.members \in [Groups -> SUBSET Nodes]
  BY <1>1, TreeParts
<1>. DEFINE u == ApplyMove(t, step)  v == RevertMove(u, step)
<1>4. IsTree(u, Rehomed(t.parent, {n}, step.next), t.hidden, Replaced(t.members, step.after), t.line)
  BY <1>1, MoveIs
<1>. HIDE DEF u
<1>5. IsTree(v, Rehomed(u.parent, {n}, step.from), u.hidden, Replaced(u.members, step.before), u.line)
  BY <1>1, <1>4, MoveIs DEF IsTree
<1>. HIDE DEF v
<1>6. v.members = t.members
  <2>1. u.members = Replaced(t.members, step.after) /\ v.members = Replaced(u.members, step.before)
    BY <1>4, <1>5 DEF IsTree
  <2>2. \A g \in Groups : v.members[g] = t.members[g]
    BY <1>2, <2>1 DEF Replaced
  <2>3. v.members = [g \in Groups |-> v.members[g]]
    BY <2>1 DEF Replaced
  <2>. QED
    BY <1>3, <2>2, <2>3
<1>7. v.parent = t.parent
  <2>1. u.parent = Rehomed(t.parent, {n}, step.next) /\ v.parent = Rehomed(u.parent, {n}, step.from)
    BY <1>4, <1>5 DEF IsTree
  <2>2. \A m \in Nodes : v.parent[m] = t.parent[m]
    BY <1>2, <2>1 DEF Rehomed
  <2>3. v.parent = [m \in Nodes |-> v.parent[m]]
    BY <2>1 DEF Rehomed
  <2>. QED
    BY <1>3, <2>2, <2>3
<1>8. v \in Trees /\ v.line = t.line /\ v.hidden = t.hidden
  BY <1>4, <1>5 DEF IsTree
<1>9. v = t
  BY <1>1, <1>6, <1>7, <1>8, SameTree
<1>. QED
  BY <1>9 DEF u, v

LEMMA OpenBack ==
  ASSUME NEW t, NEW fr, TreeOk(t, fr), NEW step, FitsOpen(t, step)
  PROVE  RevertOpen(ApplyOpen(t, step), step) = t
<1>. DEFINE g == step.node  ms == step.members
<1>1. /\ t \in Trees /\ g \in Groups /\ g \in Nodes /\ g \notin t.hidden
      /\ \A m \in ms : t.parent[m] = g
  BY Names DEF TreeOk, FitsOpen, Live
<1>2. t.parent \in [Nodes -> Parents] /\ t.hidden \subseteq Nodes
  BY <1>1, TreeParts
<1>. DEFINE u == ApplyOpen(t, step)  v == RevertOpen(u, step)
<1>3. IsTree(u, Rehomed(t.parent, ms, Top), t.hidden \cup {g}, t.members, t.line)
  BY <1>1, OpenIs
<1>. HIDE DEF u
<1>4. IsTree(v, Rehomed(u.parent, ms, g), u.hidden \ {g}, u.members, u.line)
  BY <1>1, <1>3, OpenIs DEF IsTree
<1>. HIDE DEF v
<1>5. v.parent = t.parent
  <2>1. u.parent = Rehomed(t.parent, ms, Top) /\ v.parent = Rehomed(u.parent, ms, g)
    BY <1>3, <1>4 DEF IsTree
  <2>2. \A m \in Nodes : v.parent[m] = t.parent[m]
    BY <1>1, <2>1 DEF Rehomed
  <2>3. v.parent = [m \in Nodes |-> v.parent[m]]
    BY <2>1 DEF Rehomed
  <2>. QED
    BY <1>2, <2>2, <2>3
<1>6. v \in Trees /\ v.members = t.members /\ v.line = t.line /\ v.hidden = t.hidden
  BY <1>1, <1>2, <1>3, <1>4 DEF IsTree
<1>7. v = t
  BY <1>1, <1>5, <1>6, SameTree
<1>. QED
  BY <1>7 DEF u, v

LEMMA FoldedIs ==
  ASSUME NEW t \in Trees, NEW f, NEW stack
  PROVE  /\ Folded(t, f, stack) \subseteq Live(t)
         /\ Folded(t, f, stack) \in SUBSET Nodes
         /\ \A m \in Folded(t, f, stack) : t.parent[m] = Top
BY TreeParts DEF Folded, TopLevel

LEMMA LinesStay ==
  ASSUME NEW t \in Trees, NEW f, NEW stack, Released(stack, f.bound) = {}
  PROVE  Lines(t, f, stack) = t.line
BY TreeParts DEF Lines

LEMMA CloseBack ==
  ASSUME NEW t, NEW fr, TreeOk(t, fr), NEW f, NEW stack, NEW step,
         f.group \in Groups, f.group \in t.hidden,
         step.node = f.group, step.prev = t.members[f.group],
         step.members = Folded(t, f, stack), Released(stack, f.bound) = {}
  PROVE  RevertClose(Exit(t, f, stack), step) = t
<1>. DEFINE g == step.node  ms == step.members
<1>1. t \in Trees /\ g \in Groups /\ g \in Nodes /\ g \in t.hidden /\ step.prev \in SUBSET Nodes
  BY Names, TreeParts DEF TreeOk
<1>2. /\ t.parent \in [Nodes -> Parents] /\ t.hidden \subseteq Nodes
      /\ t.members \in [Groups -> SUBSET Nodes]
      /\ \A m \in ms : t.parent[m] = Top
      /\ Lines(t, f, stack) = t.line
  BY <1>1, TreeParts, FoldedIs, LinesStay
<1>. DEFINE u == Exit(t, f, stack)  v == RevertClose(u, step)
<1>3. \E h : IsTree(u, Rehomed(t.parent, ms, g), h, [t.members EXCEPT ![g] = ms], t.line)
             /\ (h = t.hidden \/ h = t.hidden \ {g})
  <2>. DEFINE h == IF Emptied(ms, Lines(t, f, stack), g) THEN t.hidden ELSE t.hidden \ {g}
  <2>1. IsTree(u, Rehomed(t.parent, Folded(t, f, stack), f.group), h,
               [t.members EXCEPT ![f.group] = Folded(t, f, stack)], Lines(t, f, stack))
    BY <1>1, ExitIs
  <2>2. h = t.hidden \/ h = t.hidden \ {g}
    OBVIOUS
  <2>. HIDE DEF h, u
  <2>. QED
    BY <1>2, <2>1, <2>2, Zenon
<1>. HIDE DEF u
<1>4. IsTree(v, Rehomed(u.parent, ms, Top), u.hidden \cup {g},
             [u.members EXCEPT ![g] = step.prev], u.line)
  BY <1>1, <1>3, UncloseIs DEF IsTree
<1>. HIDE DEF v
<1>5. v.parent = t.parent
  <2>1. u.parent = Rehomed(t.parent, ms, g) /\ v.parent = Rehomed(u.parent, ms, Top)
    BY <1>3, <1>4 DEF IsTree
  <2>2. \A m \in Nodes : v.parent[m] = t.parent[m]
    BY <1>2, <2>1 DEF Rehomed
  <2>3. v.parent = [m \in Nodes |-> v.parent[m]]
    BY <2>1 DEF Rehomed
  <2>. QED
    BY <1>2, <2>2, <2>3
<1>6. v.members = t.members
  BY <1>1, <1>2, <1>3, <1>4 DEF IsTree
<1>7. v \in Trees /\ v.line = t.line /\ v.hidden = t.hidden
  BY <1>1, <1>2, <1>3, <1>4 DEF IsTree
<1>8. v = t
  BY <1>1, <1>5, <1>6, <1>7, SameTree
<1>. QED
  BY <1>8 DEF u, v

LEMMA StateIs ==
  ASSUME NEW t, NEW frames, NEW stack
  PROVE  /\ State(t, frames, stack).tree = t /\ State(t, frames, stack).frames = frames
         /\ State(t, frames, stack).stack = stack
BY DEF State

\* apply and undo, arm by arm.
LEMMA ApplyIs ==
  ASSUME NEW s, NEW step
  PROVE  LET stack == Append(s.stack, Child(step))
         IN  /\ step.op = "draw" => Apply(s, step) = State(ApplyDraw(s.tree, step), s.frames, stack)
             /\ step.op = "delete" => Apply(s, step) = State(ApplyDelete(s.tree, step), s.frames, stack)
             /\ step.op = "group" => Apply(s, step) = State(ApplyGroup(s.tree, step), s.frames, stack)
             /\ step.op = "ungroup" => Apply(s, step) = State(ApplyUngroup(s.tree, step), s.frames, stack)
             /\ step.op = "move" => Apply(s, step) = State(ApplyMove(s.tree, step), s.frames, stack)
             /\ step.op = "open" => Apply(s, step) =
                  State(ApplyOpen(s.tree, step), Append(s.frames, FrameOf(s, step)), stack)
             /\ step.op = "close" => Apply(s, step) =
                  State(Exit(s.tree, Last(s.frames), s.stack), Front(s.frames), stack)
BY DEF Apply

LEMMA RevertIs ==
  ASSUME NEW s, NEW step
  PROVE  LET stack == Front(s.stack)
         IN  /\ step.op = "draw" => Revert(s, step) = State(RevertDraw(s.tree, step), s.frames, stack)
             /\ step.op = "delete" => Revert(s, step) = State(RevertDelete(s.tree, step), s.frames, stack)
             /\ step.op = "group" => Revert(s, step) = State(RevertGroup(s.tree, step), s.frames, stack)
             /\ step.op = "ungroup" => Revert(s, step) = State(RevertUngroup(s.tree, step), s.frames, stack)
             /\ step.op = "move" => Revert(s, step) = State(RevertMove(s.tree, step), s.frames, stack)
             /\ step.op = "open" => Revert(s, step) =
                  State(RevertOpen(s.tree, step),
                        IF s.frames # <<>> /\ Last(s.frames).group = step.node
                        THEN Front(s.frames) ELSE s.frames, stack)
             /\ step.op = "close" => Revert(s, step) =
                  State(RevertClose(s.tree, step), Append(s.frames, Reopened(step, stack)), stack)
BY DEF Revert

LEMMA StackBack ==
  ASSUME NEW s, IsSeq(s.stack), NEW step
  PROVE  Front(Append(s.stack, Child(step))) = s.stack
BY AppendFacts

LEMMA LastFrame ==
  ASSUME NEW t, NEW frames, NEW fr, FramesOk(t, frames, fr), frames # <<>>
  PROVE  LET f == Last(frames)
         IN  /\ f = Frame(f) /\ f.group \in Groups /\ f.group \notin fr /\ f.group \in t.hidden
             /\ t.parent[f.group] = Top /\ f.members = t.members[f.group]
             /\ frames = Append(Front(frames), f)
             /\ Len(frames) \in Nat /\ Len(frames) >= 1 /\ f = frames[Len(frames)]
<1>1. IsSeq(frames) /\ Len(frames) \in Nat /\ Len(frames) >= 1 /\ frames = Append(Front(frames), Last(frames))
  BY FrontFacts DEF FramesOk
<1>2. Last(frames) = frames[Len(frames)] /\ Len(frames) \in 1 .. Len(frames)
  BY <1>1 DEF Last
<1>. QED
  BY <1>1, <1>2 DEF FramesOk

\* Undoing a step that was just taken on a sound document gives it back.
LEMMA Back ==
  ASSUME NEW s, NEW fr, Sound(s, fr), NEW step, Fits(s, step)
  PROVE  Revert(Apply(s, step), step) = s
<1>. DEFINE t == s.tree  u == Apply(s, step)  c == Append(s.stack, Child(step))
<1>1. TreeOk(t, fr) /\ FramesOk(t, s.frames, fr) /\ s = State(t, s.frames, s.stack) /\ Front(c) = s.stack
  BY StackBack DEF Sound
<1>2. CASE step.op = "draw" /\ FitsDraw(t, step)
  <2>1. u = State(ApplyDraw(t, step), s.frames, c)
    BY <1>2, ApplyIs
  <2>2. u.tree = ApplyDraw(t, step) /\ u.frames = s.frames /\ u.stack = c
    BY <2>1 DEF State
  <2>. HIDE DEF u, c
  <2>3. Revert(u, step) = State(RevertDraw(u.tree, step), u.frames, Front(u.stack))
    BY <1>2, RevertIs
  <2>4. RevertDraw(ApplyDraw(t, step), step) = t
    BY <1>1, <1>2, DrawBack
  <2>5. Revert(u, step) = s
    BY <1>1, <2>2, <2>3, <2>4
  <2>. QED
    BY <2>5 DEF u
<1>3. CASE step.op = "delete" /\ FitsDelete(t, step)
  <2>1. u = State(ApplyDelete(t, step), s.frames, c)
    BY <1>3, ApplyIs
  <2>2. u.tree = ApplyDelete(t, step) /\ u.frames = s.frames /\ u.stack = c
    BY <2>1 DEF State
  <2>. HIDE DEF u, c
  <2>3. Revert(u, step) = State(RevertDelete(u.tree, step), u.frames, Front(u.stack))
    BY <1>3, RevertIs
  <2>4. RevertDelete(ApplyDelete(t, step), step) = t
    BY <1>1, <1>3, DeleteBack
  <2>5. Revert(u, step) = s
    BY <1>1, <2>2, <2>3, <2>4
  <2>. QED
    BY <2>5 DEF u
<1>4. CASE step.op = "group" /\ FitsGroup(t, step)
  <2>1. u = State(ApplyGroup(t, step), s.frames, c)
    BY <1>4, ApplyIs
  <2>2. u.tree = ApplyGroup(t, step) /\ u.frames = s.frames /\ u.stack = c
    BY <2>1 DEF State
  <2>. HIDE DEF u, c
  <2>3. Revert(u, step) = State(RevertGroup(u.tree, step), u.frames, Front(u.stack))
    BY <1>4, RevertIs
  <2>4. RevertGroup(ApplyGroup(t, step), step) = t
    BY <1>1, <1>4, GroupBack
  <2>5. Revert(u, step) = s
    BY <1>1, <2>2, <2>3, <2>4
  <2>. QED
    BY <2>5 DEF u
<1>5. CASE step.op = "ungroup" /\ FitsUngroup(t, step)
  <2>1. u = State(ApplyUngroup(t, step), s.frames, c)
    BY <1>5, ApplyIs
  <2>2. u.tree = ApplyUngroup(t, step) /\ u.frames = s.frames /\ u.stack = c
    BY <2>1 DEF State
  <2>. HIDE DEF u, c
  <2>3. Revert(u, step) = State(RevertUngroup(u.tree, step), u.frames, Front(u.stack))
    BY <1>5, RevertIs
  <2>4. RevertUngroup(ApplyUngroup(t, step), step) = t
    BY <1>1, <1>5, UngroupBack
  <2>5. Revert(u, step) = s
    BY <1>1, <2>2, <2>3, <2>4
  <2>. QED
    BY <2>5 DEF u
<1>6. CASE step.op = "move" /\ FitsMove(t, step)
  <2>1. u = State(ApplyMove(t, step), s.frames, c)
    BY <1>6, ApplyIs
  <2>2. u.tree = ApplyMove(t, step) /\ u.frames = s.frames /\ u.stack = c
    BY <2>1 DEF State
  <2>. HIDE DEF u, c
  <2>3. Revert(u, step) = State(RevertMove(u.tree, step), u.frames, Front(u.stack))
    BY <1>6, RevertIs
  <2>4. RevertMove(ApplyMove(t, step), step) = t
    BY <1>1, <1>6, MoveBack
  <2>5. Revert(u, step) = s
    BY <1>1, <2>2, <2>3, <2>4
  <2>. QED
    BY <2>5 DEF u
<1>7. CASE step.op = "open" /\ FitsOpen(t, step)
  <2>. DEFINE frames == Append(s.frames, FrameOf(s, step))
  <2>1. u = State(ApplyOpen(t, step), frames, c)
    BY <1>7, ApplyIs
  <2>2. u.tree = ApplyOpen(t, step) /\ u.frames = frames /\ u.stack = c
    BY <2>1 DEF State
  <2>3. frames # <<>> /\ Last(frames).group = step.node /\ Front(frames) = s.frames
    BY <1>1, AppendFacts DEF FramesOk, FrameOf
  <2>. HIDE DEF u, c, frames
  <2>4. Revert(u, step) = State(RevertOpen(u.tree, step),
                                IF u.frames # <<>> /\ Last(u.frames).group = step.node
                                THEN Front(u.frames) ELSE u.frames, Front(u.stack))
    BY <1>7, RevertIs
  <2>5. RevertOpen(ApplyOpen(t, step), step) = t
    BY <1>1, <1>7, OpenBack
  <2>6. Revert(u, step) = s
    BY <1>1, <2>2, <2>3, <2>4, <2>5
  <2>. QED
    BY <2>6 DEF u
<1>8. CASE step.op = "close" /\ FitsClose(s, step)
  <2>. DEFINE f == Last(s.frames)
  <2>1. u = State(Exit(t, f, s.stack), Front(s.frames), c)
    BY <1>8, ApplyIs
  <2>2. u.tree = Exit(t, f, s.stack) /\ u.frames = Front(s.frames) /\ u.stack = c
    BY <2>1 DEF State
  <2>3. /\ f = Frame(f) /\ f.group \in Groups /\ f.group \in t.hidden
        /\ f.members = t.members[f.group] /\ s.frames = Append(Front(s.frames), f)
    BY <1>1, <1>8, LastFrame DEF FitsClose
  <2>4. Reopened(step, s.stack) = f
    BY <1>8, <2>3 DEF FitsClose, Reopened, Frame
  <2>5. RevertClose(Exit(t, f, s.stack), step) = t
    BY <1>1, <1>8, <2>3, CloseBack DEF FitsClose
  <2>. HIDE DEF u, c, f
  <2>6. Revert(u, step) = State(RevertClose(u.tree, step),
                                Append(u.frames, Reopened(step, Front(u.stack))), Front(u.stack))
    BY <1>8, RevertIs
  <2>7. Revert(u, step) = s
    BY <1>1, <2>2, <2>3, <2>4, <2>5, <2>6
  <2>. QED
    BY <2>7 DEF u
<1>. QED
  BY <1>2, <1>3, <1>4, <1>5, <1>6, <1>7, <1>8 DEF Fits

-----------------------------------------------------------------------------
(* A step leaves a tree a tree, and the sessions' frames on their groups. *)

-----------------------------------------------------------------------------
(* A step that the guards of its action allow leaves a sound tree, and the *)
(* hidden groups of the open sessions as they were.                        *)

HiddenStay(t, u, n) ==
  \A h \in Groups : h \in t.hidden /\ h # n =>
    h \in u.hidden /\ u.parent[h] = t.parent[h] /\ u.members[h] = t.members[h]

LEMMA TreeFacts ==
  ASSUME NEW t, NEW fr, TreeOk(t, fr)
  PROVE  /\ t \in Trees /\ fr \subseteq t.hidden
         /\ t.parent \in [Nodes -> Parents] /\ t.hidden \in SUBSET Nodes
         /\ t.members \in [Groups -> SUBSET Nodes] /\ t.line \in [Drawn -> Parents]
         /\ Live(t) = Nodes \ t.hidden
         /\ \A n \in fr : t.parent[n] = Top
         /\ \A g \in Groups : t.members[g] \cap fr = {}
         /\ \A n \in Live(t) : t.parent[n] \in Groups => t.parent[n] \in Live(t)
         /\ \A n \in Live(t) : t.parent[n] = Top \/ t.parent[n] \in Groups \cap Live(t)
         /\ \A g \in Groups \cap Live(t) : t.members[g] = {n \in Live(t) : t.parent[n] = g}
<1>1. t \in Trees /\ \A n \in Live(t) : t.parent[n] \in Groups => t.parent[n] \in Live(t)
  BY DEF TreeOk
<1>2. \A n \in Live(t) : t.parent[n] = Top \/ t.parent[n] \in Groups \cap Live(t)
  BY <1>1, TreeParts, Names
<1>. QED
  BY <1>1, <1>2, TreeParts DEF TreeOk

LEMMA NoCycle ==
  ASSUME NEW t, NEW fr, TreeOk(t, fr), NEW S \in SUBSET Live(t), \A n \in S : t.parent[n] \in S
  PROVE  S = {}
BY DEF TreeOk

\* Each step leaves a tree, and hidden groups as they were.
LEMMA DrawKeeps ==
  ASSUME NEW t, NEW fr, TreeOk(t, fr), NEW step, FitsDraw(t, step), step.node \notin fr,
         t.parent[step.node] = Top
  PROVE  TreeOk(ApplyDraw(t, step), fr) /\ HiddenStay(t, ApplyDraw(t, step), step.node)
<1>. DEFINE n == step.node  u == ApplyDraw(t, step)
<1>1. n \in Objects /\ n \in t.hidden /\ n \in Nodes /\ n \notin Groups
  BY Names DEF FitsDraw
<1>2. IsTree(u, t.parent, t.hidden \ {n}, t.members, t.line)
  BY DrawIs DEF TreeOk
<1>. HIDE DEF u
<1>3. Live(u) = Live(t) \cup {n} /\ n \notin Live(t)
  BY <1>1, <1>2 DEF Live, IsTree
<1>4. \A S \in SUBSET Live(u) : (\A m \in S : u.parent[m] \in S) => S = {}
  <2>1. SUFFICES ASSUME NEW S \in SUBSET Live(u), \A m \in S : u.parent[m] \in S PROVE S = {}
    OBVIOUS
  <2>2. n \notin S
    BY <1>2, <2>1, Names DEF IsTree, Live
  <2>3. S \in SUBSET Live(t) /\ \A m \in S : t.parent[m] \in S
    BY <1>2, <1>3, <2>1, <2>2 DEF IsTree
  <2>. QED
    BY <2>3, NoCycle
<1>5. \A m \in Live(u) : u.parent[m] \in Groups => u.parent[m] \in Live(u)
  BY <1>1, <1>2, <1>3, TreeFacts, Names DEF IsTree
<1>6. \A g \in Groups \cap Live(u) : u.members[g] = {m \in Live(u) : u.parent[m] = g}
  <2>1. SUFFICES ASSUME NEW g \in Groups \cap Live(u)
                 PROVE  u.members[g] = {m \in Live(u) : u.parent[m] = g}
    OBVIOUS
  <2>2. g \in Live(t) /\ u.parent[n] # g /\ u.members[g] = {m \in Live(t) : t.parent[m] = g}
    BY <1>1, <1>2, <1>3, TreeFacts, Names DEF IsTree
  <2>. QED
    BY <1>2, <1>3, <2>2 DEF IsTree
<1>7. u \in Trees /\ fr \subseteq u.hidden /\ (\A m \in fr : u.parent[m] = Top)
      /\ \A g \in Groups : u.members[g] \cap fr = {}
  BY <1>1, <1>2, TreeFacts DEF IsTree
<1>8. TreeOk(u, fr) /\ HiddenStay(t, u, n)
  BY <1>1, <1>2, <1>4, <1>5, <1>6, <1>7 DEF TreeOk, HiddenStay, IsTree
<1>. QED
  BY <1>8 DEF u

LEMMA DeleteKeeps ==
  ASSUME NEW t, NEW fr, TreeOk(t, fr), NEW step, FitsDelete(t, step)
  PROVE  TreeOk(ApplyDelete(t, step), fr) /\ HiddenStay(t, ApplyDelete(t, step), step.node)
<1>. DEFINE n == step.node  p == step.parent  u == ApplyDelete(t, step)
<1>1. /\ n \in Objects /\ n \in Live(t) /\ n \in Nodes /\ n \notin Groups /\ p = t.parent[n]
      /\ p \in Parents /\ (p = Top \/ p \in Groups \cap Live(t)) /\ t \in Trees
  BY TreeFacts, Names DEF FitsDelete
<1>2. IsTree(u, t.parent, t.hidden \cup {n},
             IF p = Top THEN t.members ELSE Spliced(t.members, p, n, {}), t.line)
  BY <1>1, DeleteIs
<1>. HIDE DEF u
<1>3. Live(u) = Live(t) \ {n}
  BY <1>2 DEF Live, IsTree
<1>4. \A S \in SUBSET Live(u) : (\A m \in S : u.parent[m] \in S) => S = {}
  <2>1. SUFFICES ASSUME NEW S \in SUBSET Live(u), \A m \in S : u.parent[m] \in S PROVE S = {}
    OBVIOUS
  <2>2. S \in SUBSET Live(t) /\ \A m \in S : t.parent[m] \in S
    BY <1>2, <1>3, <2>1 DEF IsTree
  <2>. QED
    BY <2>2, NoCycle
<1>5. \A m \in Live(u) : u.parent[m] \in Groups => u.parent[m] \in Live(u)
  BY <1>1, <1>2, <1>3, TreeFacts DEF IsTree
<1>6. \A g \in Groups : u.members[g] = IF g = p THEN t.members[g] \ {n} ELSE t.members[g]
  <2>1. CASE p = Top
    BY <1>2, <2>1, Names DEF IsTree
  <2>2. CASE p # Top
    <3>1. p \in Groups /\ t.members \in [Groups -> SUBSET Nodes]
      BY <1>1, <2>2, TreeFacts
    <3>2. u.members = Spliced(t.members, p, n, {})
      BY <1>2, <2>2 DEF IsTree
    <3>. QED
      BY <3>1, <3>2 DEF Spliced
  <2>. QED
    BY <2>1, <2>2
<1>7. \A g \in Groups \cap Live(u) : u.members[g] = {m \in Live(u) : u.parent[m] = g}
  <2>1. SUFFICES ASSUME NEW g \in Groups \cap Live(u)
                 PROVE  u.members[g] = {m \in Live(u) : u.parent[m] = g}
    OBVIOUS
  <2>2. g \in Live(t) /\ t.members[g] = {m \in Live(t) : t.parent[m] = g}
    BY <1>3, TreeFacts
  <2>. QED
    BY <1>1, <1>2, <1>3, <1>6, <2>2 DEF IsTree
<1>8. u \in Trees /\ fr \subseteq u.hidden /\ (\A m \in fr : u.parent[m] = Top)
      /\ \A g \in Groups : u.members[g] \cap fr = {}
  <2>1. u \in Trees /\ fr \subseteq u.hidden /\ (\A m \in fr : u.parent[m] = Top)
    BY <1>1, <1>2, TreeFacts DEF IsTree
  <2>2. \A g \in Groups : u.members[g] \subseteq t.members[g]
    BY <1>6
  <2>. QED
    BY <2>1, <2>2, TreeFacts
<1>9. HiddenStay(t, u, n)
  BY <1>1, <1>2, <1>6, Names DEF HiddenStay, IsTree, Live
<1>10. TreeOk(u, fr)
  BY <1>4, <1>5, <1>7, <1>8 DEF TreeOk
<1>. QED
  BY <1>9, <1>10 DEF u

LEMMA GroupKeeps ==
  ASSUME NEW t, NEW fr, TreeOk(t, fr), NEW step, FitsGroup(t, step), step.node \notin fr
  PROVE  TreeOk(ApplyGroup(t, step), fr) /\ HiddenStay(t, ApplyGroup(t, step), step.node)
<1>. DEFINE g == step.node  p == step.parent  ms == t.members[g]  u == ApplyGroup(t, step)
<1>1. /\ g \in Groups /\ g \in Nodes /\ g \in t.hidden /\ p \in Parents /\ p # g /\ g \notin ms
      /\ (p = Top \/ p \in Groups \cap Live(t)) /\ t \in Trees
      /\ ms # {} /\ ms \subseteq Live(t) /\ \A m \in ms : t.parent[m] = p
  BY GroupParent DEF FitsGroup
<1>2. IsTree(u, [Rehomed(t.parent, ms, g) EXCEPT ![g] = p], t.hidden \ {g},
             SplicedIn(t.members, p, g, ms), t.line)
  BY <1>1, GroupIs DEF TreeOk
<1>. HIDE DEF u
<1>3. Live(u) = Live(t) \cup {g} /\ g \notin Live(t)
  BY <1>1, <1>2 DEF Live, IsTree
<1>4. \A m \in Nodes : u.parent[m] = IF m = g THEN p ELSE IF m \in ms THEN g ELSE t.parent[m]
  BY <1>1, <1>2 DEF IsTree, Rehomed
<1>5. \A h \in Groups : u.members[h] = IF h = p THEN (t.members[h] \ ms) \cup {g} ELSE t.members[h]
  <2>1. CASE p = Top
    BY <1>2, <2>1, Names DEF IsTree, SplicedIn
  <2>2. CASE p # Top
    <3>1. p \in Groups /\ ms \subseteq t.members[p] /\ t.members[p] \cap ms # {}
          /\ t.members \in [Groups -> SUBSET Nodes]
      BY <1>1, <2>2, TreeFacts
    <3>2. u.members = SplicedIn(t.members, p, g, ms)
      BY <1>2 DEF IsTree
    <3>3. u.members = [t.members EXCEPT ![p] = (@ \ ms) \cup {g}]
      BY <2>2, <3>1, <3>2 DEF SplicedIn
    <3>. QED
      BY <3>1, <3>3
  <2>. QED
    BY <2>1, <2>2
<1>6. \A S \in SUBSET Live(u) : (\A m \in S : u.parent[m] \in S) => S = {}
  <2>1. SUFFICES ASSUME NEW S \in SUBSET Live(u), \A m \in S : u.parent[m] \in S PROVE S = {}
    OBVIOUS
  <2>2. Live(t) \subseteq Nodes /\ Live(u) \subseteq Nodes
    BY DEF Live
  <2>. DEFINE R == S \ {g}
  <2>3. R \in SUBSET Live(t)
    BY <1>3, <2>1
  <2>4. \A m \in R : t.parent[m] \in R
    <3>1. SUFFICES ASSUME NEW m \in R PROVE t.parent[m] \in R
      OBVIOUS
    <3>2. m \in Live(t) /\ m \in Nodes /\ m # g /\ u.parent[m] \in S /\ m \in S
      BY <2>1, <2>2, <2>3, <3>1
    <3>3. t.parent[m] # g
      BY <1>1, <1>3, <3>2, TreeFacts, Names
    <3>4. CASE m \in ms
      <4>1. g \in S
        BY <1>4, <3>2, <3>4
      <4>2. p \in S
        BY <1>1, <1>4, <2>1, <4>1
      <4>. QED
        BY <1>1, <3>4, <4>2
    <3>5. CASE m \notin ms
      BY <1>4, <3>2, <3>3, <3>5
    <3>. QED
      BY <3>4, <3>5
  <2>. HIDE DEF R
  <2>5. R = {}
    BY <2>3, <2>4, NoCycle
  <2>6. g \notin S
    <3>1. SUFFICES ASSUME g \in S PROVE FALSE
      OBVIOUS
    <3>2. p \in S /\ p # g
      BY <1>1, <1>4, <2>1, <3>1
    <3>. QED
      BY <2>5, <3>2 DEF R
  <2>. QED
    BY <2>5, <2>6 DEF R
<1>7. \A m \in Live(u) : u.parent[m] \in Groups => u.parent[m] \in Live(u)
  BY <1>1, <1>3, <1>4, TreeFacts, Names
<1>8. \A h \in Groups \cap Live(u) : u.members[h] = {m \in Live(u) : u.parent[m] = h}
  <2>1. SUFFICES ASSUME NEW h \in Groups \cap Live(u)
                 PROVE  u.members[h] = {m \in Live(u) : u.parent[m] = h}
    OBVIOUS
  <2>2. \A m \in Live(t) : t.parent[m] # g /\ m \in Nodes
    BY <1>1, <1>3, TreeFacts, Names
  <2>3. CASE h = g
    <3>1. u.members[h] = ms
      BY <1>1, <1>5, <2>3
    <3>2. \A m \in Live(u) : u.parent[m] = h <=> m \in ms
      BY <1>1, <1>3, <1>4, <2>2, <2>3
    <3>3. ms \subseteq Live(u)
      BY <1>1, <1>3
    <3>. QED
      BY <3>1, <3>2, <3>3
  <2>4. CASE h # g
    <3>1. h \in Live(t) /\ t.members[h] = {m \in Live(t) : t.parent[m] = h}
      BY <1>3, <2>4, TreeFacts
    <3>2. CASE h = p
      <4>1. u.members[h] = (t.members[h] \ ms) \cup {g}
        BY <1>1, <1>5, <3>2
      <4>2. \A m \in Live(u) : u.parent[m] = h <=> (m \in t.members[h] /\ m \notin ms) \/ m = g
        BY <1>1, <1>3, <1>4, <2>2, <2>4, <3>1, <3>2
      <4>3. t.members[h] \subseteq Live(u) /\ g \in Live(u)
        BY <1>3, <3>1
      <4>. QED
        BY <4>1, <4>2, <4>3
    <3>3. CASE h # p
      <4>1. u.members[h] = t.members[h]
        BY <1>1, <1>5, <3>3
      <4>2. \A m \in Live(u) : u.parent[m] = h <=> m \in t.members[h]
        BY <1>1, <1>3, <1>4, <2>2, <2>4, <3>1, <3>3
      <4>3. t.members[h] \subseteq Live(u)
        BY <1>3, <3>1
      <4>. QED
        BY <4>1, <4>2, <4>3
    <3>. QED
      BY <3>2, <3>3
  <2>. QED
    BY <2>3, <2>4
<1>9. u \in Trees /\ fr \subseteq u.hidden
  BY <1>1, <1>2, TreeFacts DEF IsTree
<1>10. \A m \in fr : u.parent[m] = Top
  BY <1>1, <1>4, TreeFacts
<1>11. \A h \in Groups : u.members[h] \cap fr = {}
  <2>1. \A h \in Groups : u.members[h] \subseteq t.members[h] \cup {g}
    BY <1>5
  <2>2. g \notin fr
    OBVIOUS
  <2>. QED
    BY <2>1, <2>2, TreeFacts
<1>12. HiddenStay(t, u, g)
  <2>1. \A h \in Groups : h \in t.hidden => h \notin ms /\ h # p
    BY <1>1, Names DEF Live
  <2>. QED
    BY <1>2, <1>4, <1>5, <2>1, Names DEF HiddenStay, IsTree
<1>13. TreeOk(u, fr)
  BY <1>6, <1>7, <1>8, <1>9, <1>10, <1>11 DEF TreeOk
<1>. QED
  BY <1>12, <1>13 DEF u

LEMMA UngroupKeeps ==
  ASSUME NEW t, NEW fr, TreeOk(t, fr), NEW step, FitsUngroup(t, step)
  PROVE  TreeOk(ApplyUngroup(t, step), fr) /\ HiddenStay(t, ApplyUngroup(t, step), step.node)
<1>. DEFINE g == step.node  p == step.parent  ms == t.members[g]  u == ApplyUngroup(t, step)
<1>1. /\ g \in Groups /\ g \in Nodes /\ g \in Live(t) /\ g \notin t.hidden /\ p \in Parents /\ p # g
      /\ (p = Top \/ p \in Groups \cap Live(t)) /\ t \in Trees /\ p = t.parent[g]
      /\ ms = {n \in Live(t) : t.parent[n] = g}
  BY UngroupParent DEF FitsUngroup
<1>2. g \notin ms
  BY <1>1
<1>3. IsTree(u, Rehomed(t.parent, ms, p), t.hidden \cup {g},
             IF p = Top THEN t.members ELSE Spliced(t.members, p, g, ms),
             [h \in Drawn |-> IF h \in step.lines THEN p ELSE t.line[h]])
  BY <1>1, UngroupIs
<1>. HIDE DEF u
<1>4. Live(u) = Live(t) \ {g} /\ Live(t) \subseteq Nodes
  BY <1>1, <1>3 DEF Live, IsTree
<1>5. \A m \in Nodes : u.parent[m] = IF m \in ms THEN p ELSE t.parent[m]
  BY <1>3 DEF IsTree, Rehomed
<1>6. \A h \in Groups : u.members[h] = IF h = p THEN (t.members[h] \ {g}) \cup ms ELSE t.members[h]
  <2>1. CASE p = Top
    BY <1>3, <2>1, Names DEF IsTree
  <2>2. CASE p # Top
    <3>1. p \in Groups /\ g \in t.members[p] /\ t.members \in [Groups -> SUBSET Nodes]
      BY <1>1, <2>2, TreeFacts
    <3>2. u.members = Spliced(t.members, p, g, ms)
      BY <1>3, <2>2 DEF IsTree
    <3>. QED
      BY <3>1, <3>2 DEF Spliced
  <2>. QED
    BY <2>1, <2>2
<1>7. \A S \in SUBSET Live(u) : (\A m \in S : u.parent[m] \in S) => S = {}
  <2>1. SUFFICES ASSUME NEW S \in SUBSET Live(u), \A m \in S : u.parent[m] \in S PROVE S = {}
    OBVIOUS
  <2>. DEFINE R == IF S \cap ms = {} THEN S ELSE S \cup {g}
  <2>2. R \in SUBSET Live(t)
    BY <1>1, <1>4
  <2>3. \A m \in R : t.parent[m] \in R
    <3>1. \A m \in S \cap ms : t.parent[m] = g /\ u.parent[m] = p
      BY <1>1, <1>4, <1>5
    <3>2. \A m \in S \ ms : t.parent[m] \in S
      BY <1>4, <1>5, <2>1
    <3>3. S \cap ms # {} => p \in S
      BY <2>1, <3>1
    <3>. QED
      BY <1>1, <3>1, <3>2, <3>3
  <2>4. S \subseteq R
    OBVIOUS
  <2>. HIDE DEF R
  <2>5. R = {}
    BY <2>2, <2>3, NoCycle
  <2>. QED
    BY <2>4, <2>5
<1>8. \A m \in Live(u) : u.parent[m] \in Groups => u.parent[m] \in Live(u)
  <2>1. SUFFICES ASSUME NEW m \in Live(u), u.parent[m] \in Groups PROVE u.parent[m] \in Live(u)
    OBVIOUS
  <2>2. CASE m \in ms
    BY <1>1, <1>4, <1>5, <2>1, <2>2, Names
  <2>3. CASE m \notin ms
    <3>1. u.parent[m] = t.parent[m] /\ t.parent[m] # g /\ m \in Live(t)
      BY <1>1, <1>4, <1>5, <2>3
    <3>. QED
      BY <1>4, <2>1, <3>1, TreeFacts
  <2>. QED
    BY <2>2, <2>3
<1>9. \A h \in Groups \cap Live(u) : u.members[h] = {m \in Live(u) : u.parent[m] = h}
  <2>1. SUFFICES ASSUME NEW h \in Groups \cap Live(u)
                 PROVE  u.members[h] = {m \in Live(u) : u.parent[m] = h}
    OBVIOUS
  <2>2. h # g /\ t.members[h] = {m \in Live(t) : t.parent[m] = h}
    BY <1>4, TreeFacts
  <2>3. CASE h = p
    <3>1. u.members[h] = (t.members[h] \ {g}) \cup ms
      BY <1>6, <2>3
    <3>2. \A m \in Live(u) : u.parent[m] = h <=> m \in ms \/ m \in t.members[h]
      BY <1>4, <1>5, <2>2, <2>3
    <3>3. ms \subseteq Live(u) /\ t.members[h] \ {g} \subseteq Live(u) /\ g \notin Live(u)
      BY <1>1, <1>2, <1>4, <2>2
    <3>. QED
      BY <3>1, <3>2, <3>3
  <2>4. CASE h # p
    <3>1. u.members[h] = t.members[h]
      BY <1>6, <2>4
    <3>2. \A m \in Live(u) : u.parent[m] = h <=> m \in t.members[h]
      BY <1>1, <1>4, <1>5, <2>2, <2>4
    <3>3. t.members[h] \subseteq Live(u)
      BY <1>1, <1>4, <2>2, <2>4
    <3>. QED
      BY <3>1, <3>2, <3>3
  <2>. QED
    BY <2>3, <2>4
<1>10. u \in Trees /\ fr \subseteq u.hidden
  BY <1>1, <1>3, TreeFacts DEF IsTree
<1>11. ms \cap fr = {} /\ fr \subseteq Nodes /\ \A m \in fr : t.parent[m] = Top
  BY <1>1, TreeFacts
<1>12. \A m \in fr : u.parent[m] = Top
  BY <1>5, <1>11
<1>13. \A h \in Groups : u.members[h] \cap fr = {}
  <2>1. \A h \in Groups : u.members[h] \subseteq t.members[h] \cup ms
    BY <1>6
  <2>. QED
    BY <1>11, <2>1, TreeFacts
<1>14. HiddenStay(t, u, g)
  <2>1. \A h \in Groups : h \in t.hidden => h \notin ms /\ h # p
    BY <1>1, Names DEF Live
  <2>. QED
    BY <1>3, <1>5, <1>6, <2>1, Names DEF HiddenStay, IsTree
<1>15. TreeOk(u, fr)
  BY <1>7, <1>8, <1>9, <1>10, <1>12, <1>13 DEF TreeOk
<1>. QED
  BY <1>14, <1>15 DEF u

\* The guard of a move: the node is in no chain up from where it goes.
MayMove(t, step) ==
  /\ step.next # step.from
  /\ step.after = [g \in {step.from, step.next} \ {Top} |->
                     IF g = step.next THEN t.members[g] \cup {step.node}
                     ELSE t.members[g] \ {step.node}]
  /\ step.next # Top => \E C \in SUBSET Nodes :
       /\ step.next \in C /\ step.node \notin C
       /\ \A k \in C : t.parent[k] \in C \cup {Top}

LEMMA MoveKeeps ==
  ASSUME NEW t, NEW fr, TreeOk(t, fr), NEW step, FitsMove(t, step), MayMove(t, step)
  PROVE  TreeOk(ApplyMove(t, step), fr) /\ HiddenStay(t, ApplyMove(t, step), step.node)
<1>. DEFINE n == step.node  p == step.from  q == step.next  u == ApplyMove(t, step)
<1>1. /\ t \in Trees /\ n \in Nodes /\ n \in Live(t) /\ p \in Parents /\ q \in Parents /\ p # q
      /\ (p = Top \/ p \in Groups \cap Live(t)) /\ (q = Top \/ q \in Groups \cap Live(t))
      /\ Lists(step.after) /\ Lists(step.before) /\ p = t.parent[n]
  BY MoveTyped DEF FitsMove, MayMove
<1>2. IsTree(u, Rehomed(t.parent, {n}, q), t.hidden, Replaced(t.members, step.after), t.line)
  BY <1>1, MoveIs
<1>. HIDE DEF u
<1>3. Live(u) = Live(t) /\ Live(t) \subseteq Nodes
  BY <1>2 DEF Live, IsTree
<1>4. \A m \in Nodes : u.parent[m] = IF m = n THEN q ELSE t.parent[m]
  BY <1>2 DEF IsTree, Rehomed
<1>5. \A h \in Groups : u.members[h] = IF h = q THEN t.members[h] \cup {n}
                                       ELSE IF h = p THEN t.members[h] \ {n} ELSE t.members[h]
  <2>1. u.members = Replaced(t.members, step.after)
    BY <1>2 DEF IsTree
  <2>2. step.after = [g \in {p, q} \ {Top} |-> IF g = q THEN t.members[g] \cup {n}
                                               ELSE t.members[g] \ {n}]
    BY DEF MayMove
  <2>. QED
    BY <2>1, <2>2, Names DEF Replaced
<1>6. \A S \in SUBSET Live(u) : (\A m \in S : u.parent[m] \in S) => S = {}
  <2>1. SUFFICES ASSUME NEW S \in SUBSET Live(u), \A m \in S : u.parent[m] \in S PROVE S = {}
    OBVIOUS
  <2>2. Top \notin S /\ S \subseteq Nodes /\ S \in SUBSET Live(t)
    BY <1>3, <2>1, Names
  <2>3. n \notin S
    <3>1. SUFFICES ASSUME n \in S PROVE FALSE
      OBVIOUS
    <3>2. q \in S /\ q # Top
      BY <1>1, <1>4, <2>1, <2>2, <3>1
    <3>3. PICK C \in SUBSET Nodes : q \in C /\ n \notin C /\ \A k \in C : t.parent[k] \in C \cup {Top}
      BY <3>2 DEF MayMove
    <3>. DEFINE R == S \cap C
    <3>4. R \in SUBSET Live(t) /\ q \in R
      BY <2>2, <3>2, <3>3
    <3>5. \A k \in R : t.parent[k] \in R
      <4>1. SUFFICES ASSUME NEW k \in R PROVE t.parent[k] \in R
        OBVIOUS
      <4>2. k # n /\ k \in S /\ k \in C /\ k \in Nodes
        BY <2>2, <3>3
      <4>3. t.parent[k] \in S
        BY <1>4, <2>1, <4>2
      <4>. QED
        BY <2>2, <3>3, <4>2, <4>3
    <3>. HIDE DEF R
    <3>6. R = {}
      BY <3>4, <3>5, NoCycle
    <3>. QED
      BY <3>4, <3>6
  <2>4. \A m \in S : t.parent[m] \in S
    BY <1>4, <2>1, <2>2, <2>3
  <2>. QED
    BY <2>2, <2>4, NoCycle
<1>7. \A m \in Live(u) : u.parent[m] \in Groups => u.parent[m] \in Live(u)
  BY <1>1, <1>3, <1>4, TreeFacts, Names
<1>8. \A h \in Groups \cap Live(u) : u.members[h] = {m \in Live(u) : u.parent[m] = h}
  <2>1. SUFFICES ASSUME NEW h \in Groups \cap Live(u)
                 PROVE  u.members[h] = {m \in Live(u) : u.parent[m] = h}
    OBVIOUS
  <2>2. t.members[h] = {m \in Live(t) : t.parent[m] = h}
    BY <1>3, TreeFacts
  <2>3. \A m \in Live(u) : u.parent[m] = h <=> m \in u.members[h]
    <3>1. \A m \in Live(u) : t.parent[m] = h <=> m \in t.members[h]
      BY <1>3, <2>2
    <3>2. u.parent[n] = q /\ t.parent[n] = p
      BY <1>1, <1>4
    <3>3. n \in u.members[h] <=> h = q
      BY <1>1, <1>3, <1>5, <3>1
    <3>4. \A m \in Live(u) : m # n => u.parent[m] = t.parent[m] /\ (m \in u.members[h] <=> m \in t.members[h])
      BY <1>3, <1>4, <1>5
    <3>. QED
      BY <3>1, <3>2, <3>3, <3>4
  <2>4. u.members[h] \subseteq Live(u)
    BY <1>1, <1>3, <1>5, <2>2
  <2>. QED
    BY <2>3, <2>4
<1>9. u \in Trees /\ fr \subseteq u.hidden
  BY <1>1, <1>2, TreeFacts DEF IsTree
<1>10. n \notin fr /\ fr \subseteq Nodes /\ \A m \in fr : t.parent[m] = Top
  BY <1>1, TreeFacts
<1>11. \A m \in fr : u.parent[m] = Top
  BY <1>4, <1>10
<1>12. \A h \in Groups : u.members[h] \cap fr = {}
  <2>1. \A h \in Groups : u.members[h] \subseteq t.members[h] \cup {n}
    BY <1>5
  <2>. QED
    BY <1>10, <2>1, TreeFacts
<1>13. HiddenStay(t, u, n)
  <2>1. \A h \in Groups : h \in t.hidden => h # p /\ h # q /\ h # n
    BY <1>1, Names DEF Live
  <2>. QED
    BY <1>2, <1>4, <1>5, <2>1, Names DEF HiddenStay, IsTree
<1>14. TreeOk(u, fr)
  BY <1>6, <1>7, <1>8, <1>9, <1>11, <1>12 DEF TreeOk
<1>. QED
  BY <1>13, <1>14 DEF u

LEMMA OpenKeeps ==
  ASSUME NEW t, NEW fr, TreeOk(t, fr), NEW step, FitsOpen(t, step)
  PROVE  LET u == ApplyOpen(t, step)
         IN  /\ TreeOk(u, fr) /\ HiddenStay(t, u, step.node)
             /\ step.node \in u.hidden /\ u.parent[step.node] = Top
             /\ u.members[step.node] = step.members /\ step.node \notin fr
<1>. DEFINE g == step.node  ms == step.members  u == ApplyOpen(t, step)
<1>1. /\ t \in Trees /\ g \in Groups /\ g \in Nodes /\ g \in Live(t) /\ g \notin t.hidden
      /\ t.parent[g] = Top /\ ms = t.members[g]
  BY TreeFacts, Names DEF FitsOpen
<1>2. ms = {n \in Live(t) : t.parent[n] = g} /\ g \notin ms
  BY <1>1, TreeFacts, Names
<1>3. IsTree(u, Rehomed(t.parent, ms, Top), t.hidden \cup {g}, t.members, t.line)
  BY <1>1, OpenIs
<1>. HIDE DEF u
<1>4. Live(u) = Live(t) \ {g} /\ Live(t) \subseteq Nodes
  BY <1>1, <1>3 DEF Live, IsTree
<1>5. \A m \in Nodes : u.parent[m] = IF m \in ms THEN Top ELSE t.parent[m]
  BY <1>3 DEF IsTree, Rehomed
<1>6. \A S \in SUBSET Live(u) : (\A m \in S : u.parent[m] \in S) => S = {}
  <2>1. SUFFICES ASSUME NEW S \in SUBSET Live(u), \A m \in S : u.parent[m] \in S PROVE S = {}
    OBVIOUS
  <2>2. Top \notin S /\ S \subseteq Nodes /\ S \in SUBSET Live(t)
    BY <1>4, <2>1, Names
  <2>3. \A m \in S : t.parent[m] \in S
    BY <1>5, <2>1, <2>2
  <2>. QED
    BY <2>2, <2>3, NoCycle
<1>7. \A m \in Live(u) : u.parent[m] \in Groups => u.parent[m] \in Live(u)
  <2>1. SUFFICES ASSUME NEW m \in Live(u), u.parent[m] \in Groups PROVE u.parent[m] \in Live(u)
    OBVIOUS
  <2>2. m \notin ms /\ u.parent[m] = t.parent[m] /\ m \in Live(t)
    BY <1>4, <1>5, <2>1, Names
  <2>. QED
    BY <1>2, <1>4, <2>1, <2>2, TreeFacts
<1>8. \A h \in Groups \cap Live(u) : u.members[h] = {m \in Live(u) : u.parent[m] = h}
  <2>1. SUFFICES ASSUME NEW h \in Groups \cap Live(u)
                 PROVE  u.members[h] = {m \in Live(u) : u.parent[m] = h}
    OBVIOUS
  <2>2. h # g /\ h # Top /\ t.members[h] = {m \in Live(t) : t.parent[m] = h} /\ u.members[h] = t.members[h]
    BY <1>3, <1>4, TreeFacts, Names DEF IsTree
  <2>3. \A m \in Live(u) : u.parent[m] = h <=> m \in t.members[h]
    BY <1>2, <1>4, <1>5, <2>2
  <2>4. t.members[h] \subseteq Live(u)
    BY <1>1, <1>4, <2>2
  <2>. QED
    BY <2>2, <2>3, <2>4
<1>9. u \in Trees /\ fr \subseteq u.hidden /\ g \notin fr /\ fr \subseteq Nodes
  BY <1>1, <1>3, TreeFacts DEF IsTree
<1>10. \A m \in fr : u.parent[m] = Top
  BY <1>5, <1>9, TreeFacts
<1>11. \A h \in Groups : u.members[h] \cap fr = {}
  BY <1>3, TreeFacts DEF IsTree
<1>12. HiddenStay(t, u, g)
  <2>1. \A h \in Groups : h \in t.hidden => h \notin ms
    BY <1>2 DEF Live
  <2>. QED
    BY <1>3, <1>5, <2>1, Names DEF HiddenStay, IsTree
<1>13. TreeOk(u, fr)
  BY <1>6, <1>7, <1>8, <1>9, <1>10, <1>11 DEF TreeOk
<1>14. g \in u.hidden /\ u.parent[g] = Top /\ u.members[g] = ms
  BY <1>1, <1>2, <1>3, <1>5 DEF IsTree
<1>. QED
  BY <1>9, <1>12, <1>13, <1>14 DEF u

LEMMA CloseKeeps ==
  ASSUME NEW t, NEW fr, TreeOk(t, fr), NEW f, NEW stack,
         f.group \in Groups, f.group \in t.hidden, f.group \notin fr, t.parent[f.group] = Top,
         Released(stack, f.bound) = {}
  PROVE  TreeOk(Exit(t, f, stack), fr) /\ HiddenStay(t, Exit(t, f, stack), f.group)
<1>. DEFINE g == f.group  ms == Folded(t, f, stack)  u == Exit(t, f, stack)
            k == Emptied(ms, Lines(t, f, stack), g)
<1>1. t \in Trees /\ g \in Nodes /\ ms \subseteq Live(t) /\ ms \in SUBSET Nodes
      /\ (\A m \in ms : t.parent[m] = Top) /\ Lines(t, f, stack) = t.line
  BY TreeFacts, FoldedIs, LinesStay, Names
<1>2. k => ms = {}
  BY DEF Emptied
<1>3. IsTree(u, Rehomed(t.parent, ms, g), IF k THEN t.hidden ELSE t.hidden \ {g},
             [t.members EXCEPT ![g] = ms], t.line)
  BY <1>1, ExitIs
<1>. HIDE DEF u, ms, k
<1>4. Live(u) = (IF k THEN Live(t) ELSE Live(t) \cup {g}) /\ g \notin Live(t) /\ Live(t) \subseteq Nodes
  BY <1>1, <1>3 DEF Live, IsTree
<1>5. \A m \in Nodes : u.parent[m] = IF m \in ms THEN g ELSE t.parent[m]
  BY <1>3 DEF IsTree, Rehomed
<1>6. \A h \in Groups : u.members[h] = IF h = g THEN ms ELSE t.members[h]
  BY <1>3, TreeFacts DEF IsTree
<1>7. g \notin ms
  BY <1>1, <1>4
<1>8. \A S \in SUBSET Live(u) : (\A m \in S : u.parent[m] \in S) => S = {}
  <2>1. SUFFICES ASSUME NEW S \in SUBSET Live(u), \A m \in S : u.parent[m] \in S PROVE S = {}
    OBVIOUS
  <2>2. Top \notin S /\ S \subseteq Nodes
    BY <1>1, <1>4, <2>1, Names
  <2>3. g \notin S
    BY <1>1, <1>5, <1>7, <2>1, <2>2
  <2>4. S \in SUBSET Live(t) /\ \A m \in S : t.parent[m] \in S
    BY <1>4, <1>5, <2>1, <2>2, <2>3
  <2>. QED
    BY <2>4, NoCycle
<1>9. \A m \in Live(t) : t.parent[m] # g
  BY <1>4, TreeFacts, Names
<1>10. \A m \in Live(u) : u.parent[m] \in Groups => u.parent[m] \in Live(u)
  <2>1. SUFFICES ASSUME NEW m \in Live(u), u.parent[m] \in Groups PROVE u.parent[m] \in Live(u)
    OBVIOUS
  <2>2. CASE m \in ms
    BY <1>1, <1>2, <1>4, <1>5, <2>2
  <2>3. CASE m \notin ms
    <3>1. m \in Live(t) /\ u.parent[m] = t.parent[m]
      BY <1>1, <1>4, <1>5, <1>7, <2>1, <2>3, Names
    <3>. QED
      BY <1>4, <2>1, <3>1, TreeFacts
  <2>. QED
    BY <2>2, <2>3
<1>11. \A h \in Groups \cap Live(u) : u.members[h] = {m \in Live(u) : u.parent[m] = h}
  <2>1. SUFFICES ASSUME NEW h \in Groups \cap Live(u)
                 PROVE  u.members[h] = {m \in Live(u) : u.parent[m] = h}
    OBVIOUS
  <2>2. CASE h = g
    <3>1. u.members[h] = ms /\ ms \subseteq Live(u)
      BY <1>1, <1>4, <1>6, <2>2
    <3>2. \A m \in Live(u) : u.parent[m] = h <=> m \in ms
      BY <1>1, <1>4, <1>5, <1>7, <1>9, <2>2, Names
    <3>. QED
      BY <3>1, <3>2
  <2>3. CASE h # g
    <3>1. h \in Live(t) /\ t.members[h] = {m \in Live(t) : t.parent[m] = h} /\ h # Top
      BY <1>4, <2>3, TreeFacts, Names
    <3>2. u.members[h] = t.members[h] /\ t.members[h] \subseteq Live(u)
      BY <1>4, <1>6, <2>3, <3>1
    <3>3. \A m \in Live(u) : u.parent[m] = h <=> m \in t.members[h]
      BY <1>1, <1>4, <1>5, <2>3, <3>1
    <3>. QED
      BY <3>1, <3>2, <3>3
  <2>. QED
    BY <2>2, <2>3
<1>12. u \in Trees /\ fr \subseteq u.hidden /\ fr \subseteq Nodes /\ ms \cap fr = {}
  BY <1>1, <1>3, <1>4, TreeFacts DEF IsTree
<1>13. \A m \in fr : u.parent[m] = Top
  BY <1>5, <1>12, TreeFacts
<1>14. \A h \in Groups : u.members[h] \cap fr = {}
  BY <1>6, <1>12, TreeFacts
<1>15. HiddenStay(t, u, g)
  <2>1. \A h \in Groups : h \in t.hidden => h \notin ms
    BY <1>1 DEF Live
  <2>. QED
    BY <1>3, <1>5, <1>6, <2>1, Names DEF HiddenStay, IsTree
<1>16. TreeOk(u, fr)
  BY <1>8, <1>10, <1>11, <1>12, <1>13, <1>14 DEF TreeOk
<1>. QED
  BY <1>15, <1>16 DEF u

\* What an edit's guard asks beyond what its step notes.
May(s, step, fr) ==
  /\ step.node \notin fr
  /\ step.op = "draw" => s.tree.parent[step.node] = Top
  /\ step.op = "group" => \A i \in 1 .. Len(s.frames) : s.frames[i].group # step.node
  /\ step.op = "move" => MayMove(s.tree, step)
  /\ step.op = "ungroup" => "ungroup" \in Ops

LEMMA KnownFits ==
  ASSUME NEW s, NEW step, Fits(s, step), NEW fr, step.node \notin fr,
         step.op = "ungroup" => "ungroup" \in Ops
  PROVE  KnownStep(step, fr)
BY DEF Fits, FitsUngroup, KnownStep

\* The frames outlive a step on another node.
LEMMA FramesStay ==
  ASSUME NEW t, NEW u, NEW frames, NEW fr, NEW n, FramesOk(t, frames, fr), HiddenStay(t, u, n),
         \A i \in 1 .. Len(frames) : frames[i].group # n
  PROVE  FramesOk(u, frames, fr)
BY DEF FramesOk, HiddenStay

LEMMA ChildIs ==
  ASSUME NEW step
  PROVE  Child(step).steps = <<step>> /\ DOMAIN Child(step).steps = {1} /\ Child(step).steps[1] = step
BY DEF Child

LEMMA StackGrows ==
  ASSUME NEW frames, NEW stack, NEW fr, NEW step, IsSeq(stack), Known(stack, fr), BoundsOk(frames, stack),
         KnownStep(step, fr)
  PROVE  LET more == Append(stack, Child(step))
         IN  IsSeq(more) /\ Known(more, fr) /\ BoundsOk(frames, more)
<1>. DEFINE more == Append(stack, Child(step))
<1>1. /\ IsSeq(more) /\ Len(more) = Len(stack) + 1 /\ Len(stack) \in Nat
      /\ \A i \in 1 .. Len(stack) : more[i] = stack[i]
      /\ more[Len(stack) + 1] = Child(step)
  BY AppendFacts
<1>. HIDE DEF more
<1>2. Known(more, fr)
  <2>1. SUFFICES ASSUME NEW i \in 1 .. Len(more)
                 PROVE  /\ 1 \in DOMAIN more[i].steps
                        /\ \A j \in DOMAIN more[i].steps : KnownStep(more[i].steps[j], fr)
    BY DEF Known
  <2>2. CASE i \in 1 .. Len(stack)
    BY <1>1, <2>2 DEF Known
  <2>3. CASE i = Len(stack) + 1
    BY <1>1, <2>3, ChildIs
  <2>. QED
    BY <1>1, <2>2, <2>3
<1>3. BoundsOk(frames, more)
  BY <1>1 DEF BoundsOk, Sits
<1>. QED
  BY <1>1, <1>2, <1>3 DEF more

LEMMA FramesLess ==
  ASSUME NEW t, NEW frames, NEW fr, FramesOk(t, frames, fr), frames # <<>>
  PROVE  /\ FramesOk(t, Front(frames), fr)
         /\ \A i \in 1 .. Len(Front(frames)) : Front(frames)[i].group # Last(frames).group
         /\ \A stack : BoundsOk(frames, stack) => BoundsOk(Front(frames), stack)
<1>1. /\ IsSeq(frames) /\ IsSeq(Front(frames)) /\ Len(Front(frames)) = Len(frames) - 1
      /\ Len(frames) \in Nat /\ Len(frames) >= 1
      /\ \A i \in 1 .. Len(frames) - 1 : Front(frames)[i] = frames[i]
      /\ Last(frames) = frames[Len(frames)]
  BY FrontFacts DEF FramesOk, Last
<1>2. \A i \in 1 .. Len(Front(frames)) : i \in 1 .. Len(frames) /\ i # Len(frames) /\ Front(frames)[i] = frames[i]
  BY <1>1
<1>3. FramesOk(t, Front(frames), fr)
  BY <1>1, <1>2 DEF FramesOk
<1>4. \A i \in 1 .. Len(Front(frames)) : Front(frames)[i].group # Last(frames).group
  BY <1>1, <1>2 DEF FramesOk
<1>5. \A stack : BoundsOk(frames, stack) => BoundsOk(Front(frames), stack)
  BY <1>2 DEF BoundsOk
<1>. QED
  BY <1>3, <1>4, <1>5

LEMMA FramesMore ==
  ASSUME NEW t, NEW u, NEW frames, NEW fr, NEW f, FramesOk(t, frames, fr), HiddenStay(t, u, f.group),
         f = Frame(f), f.group \in Groups, f.group \notin fr, f.group \notin t.hidden,
         f.group \in u.hidden, u.parent[f.group] = Top, f.members = u.members[f.group]
  PROVE  FramesOk(u, Append(frames, f), fr)
<1>. DEFINE more == Append(frames, f)
<1>1. /\ IsSeq(more) /\ Len(more) = Len(frames) + 1 /\ Len(frames) \in Nat
      /\ \A i \in 1 .. Len(frames) : more[i] = frames[i]
      /\ more[Len(frames) + 1] = f
  BY AppendFacts DEF FramesOk
<1>. HIDE DEF more
<1>2. \A i \in 1 .. Len(frames) : frames[i].group # f.group
  BY DEF FramesOk
<1>3. FramesOk(u, frames, fr)
  BY <1>2, FramesStay
<1>4. \A i \in 1 .. Len(more) : i \in 1 .. Len(frames) \/ i = Len(frames) + 1
  BY <1>1
<1>5. \A i \in 1 .. Len(more) :
       /\ more[i] = Frame(more[i])
       /\ more[i].group \in Groups /\ more[i].group \notin fr
       /\ more[i].group \in u.hidden
       /\ u.parent[more[i].group] = Top
       /\ more[i].members = u.members[more[i].group]
  BY <1>1, <1>3, <1>4 DEF FramesOk
<1>6. \A i, j \in 1 .. Len(more) : more[i].group = more[j].group => i = j
  <2>1. SUFFICES ASSUME NEW i \in 1 .. Len(more), NEW j \in 1 .. Len(more), more[i].group = more[j].group
                 PROVE  i = j
    OBVIOUS
  <2>2. CASE i \in 1 .. Len(frames) /\ j \in 1 .. Len(frames)
    BY <1>1, <2>1, <2>2 DEF FramesOk
  <2>3. CASE i = Len(frames) + 1 \/ j = Len(frames) + 1
    BY <1>1, <1>2, <1>4, <2>1, <2>3
  <2>. QED
    BY <1>4, <2>2, <2>3
<1>7. FramesOk(u, more, fr)
  BY <1>1, <1>5, <1>6 DEF FramesOk
<1>. QED
  BY <1>7 DEF more

\* A step that its guard allows leaves a sound document.
LEMMA Keeps ==
  ASSUME NEW s, NEW fr, Sound(s, fr), NEW step, Fits(s, step), May(s, step, fr)
  PROVE  Sound(Apply(s, step), fr)
<1>. DEFINE t == s.tree  u == Apply(s, step)  c == Append(s.stack, Child(step))
<1>1. /\ TreeOk(t, fr) /\ FramesOk(t, s.frames, fr) /\ BoundsOk(s.frames, s.stack)
      /\ KnownStep(step, fr) /\ step.node \notin fr
  BY KnownFits DEF Sound, May
<1>2. IsSeq(c) /\ Known(c, fr) /\ BoundsOk(s.frames, c)
  BY <1>1, StackGrows DEF Sound
<1>3. \A n : n \in Live(t) => \A i \in 1 .. Len(s.frames) : s.frames[i].group # n
  BY <1>1 DEF FramesOk, Live
<1>4. ASSUME NEW w, u = State(w, s.frames, c), TreeOk(w, fr), HiddenStay(t, w, step.node),
             \A i \in 1 .. Len(s.frames) : s.frames[i].group # step.node
      PROVE  Sound(u, fr)
  <2>. HIDE DEF u, c
  <2>1. u.tree = w /\ u.frames = s.frames /\ u.stack = c
    BY <1>4 DEF State
  <2>2. FramesOk(w, s.frames, fr)
    BY <1>1, <1>4, FramesStay
  <2>. QED
    BY <1>2, <1>4, <2>1, <2>2 DEF Sound
<1>5. CASE step.op = "draw" /\ FitsDraw(t, step)
  <2>1. u = State(ApplyDraw(t, step), s.frames, c)
    BY <1>5, ApplyIs
  <2>2. TreeOk(ApplyDraw(t, step), fr) /\ HiddenStay(t, ApplyDraw(t, step), step.node)
    BY <1>1, <1>5, DrawKeeps DEF May
  <2>3. \A i \in 1 .. Len(s.frames) : s.frames[i].group # step.node
    BY <1>1, <1>5, Names DEF FramesOk, FitsDraw
  <2>. QED
    BY <1>4, <2>1, <2>2, <2>3
<1>6. CASE step.op = "delete" /\ FitsDelete(t, step)
  <2>1. u = State(ApplyDelete(t, step), s.frames, c)
    BY <1>6, ApplyIs
  <2>2. TreeOk(ApplyDelete(t, step), fr) /\ HiddenStay(t, ApplyDelete(t, step), step.node)
    BY <1>1, <1>6, DeleteKeeps
  <2>3. \A i \in 1 .. Len(s.frames) : s.frames[i].group # step.node
    BY <1>3, <1>6 DEF FitsDelete
  <2>. QED
    BY <1>4, <2>1, <2>2, <2>3
<1>7. CASE step.op = "group" /\ FitsGroup(t, step)
  <2>1. u = State(ApplyGroup(t, step), s.frames, c)
    BY <1>7, ApplyIs
  <2>2. TreeOk(ApplyGroup(t, step), fr) /\ HiddenStay(t, ApplyGroup(t, step), step.node)
    BY <1>1, <1>7, GroupKeeps
  <2>3. \A i \in 1 .. Len(s.frames) : s.frames[i].group # step.node
    BY <1>7 DEF May
  <2>. QED
    BY <1>4, <2>1, <2>2, <2>3
<1>8. CASE step.op = "ungroup" /\ FitsUngroup(t, step)
  <2>1. u = State(ApplyUngroup(t, step), s.frames, c)
    BY <1>8, ApplyIs
  <2>2. TreeOk(ApplyUngroup(t, step), fr) /\ HiddenStay(t, ApplyUngroup(t, step), step.node)
    BY <1>1, <1>8, UngroupKeeps
  <2>3. \A i \in 1 .. Len(s.frames) : s.frames[i].group # step.node
    BY <1>3, <1>8 DEF FitsUngroup
  <2>. QED
    BY <1>4, <2>1, <2>2, <2>3
<1>9. CASE step.op = "move" /\ FitsMove(t, step)
  <2>1. u = State(ApplyMove(t, step), s.frames, c)
    BY <1>9, ApplyIs
  <2>2. TreeOk(ApplyMove(t, step), fr) /\ HiddenStay(t, ApplyMove(t, step), step.node)
    BY <1>1, <1>9, MoveKeeps DEF May
  <2>3. \A i \in 1 .. Len(s.frames) : s.frames[i].group # step.node
    BY <1>3, <1>9 DEF FitsMove
  <2>. QED
    BY <1>4, <2>1, <2>2, <2>3
<1>10. CASE step.op = "open" /\ FitsOpen(t, step)
  <2>. DEFINE f == FrameOf(s, step)  w == ApplyOpen(t, step)
  <2>1. u = State(w, Append(s.frames, f), c)
    BY <1>10, ApplyIs
  <2>2. /\ f = Frame(f) /\ f.group = step.node /\ f.members = step.members
        /\ f.bound = Len(s.stack) + 1
    BY DEF FrameOf, Frame
  <2>3. /\ TreeOk(w, fr) /\ HiddenStay(t, w, f.group)
        /\ f.group \in w.hidden /\ w.parent[f.group] = Top /\ f.members = w.members[f.group]
    BY <1>1, <1>10, <2>2, OpenKeeps
  <2>. HIDE DEF u, w, f
  <2>4. FramesOk(w, Append(s.frames, f), fr)
    BY <1>1, <1>10, <2>2, <2>3, FramesMore DEF FitsOpen, Live
  <2>5. BoundsOk(Append(s.frames, f), c)
    <3>. DEFINE more == Append(s.frames, f)
    <3>1. /\ Len(more) = Len(s.frames) + 1 /\ Len(s.frames) \in Nat
          /\ \A i \in 1 .. Len(s.frames) : more[i] = s.frames[i]
          /\ more[Len(s.frames) + 1] = f
      BY <1>1, AppendFacts DEF FramesOk
    <3>2. Sits(f, c)
      <4>1. Len(c) = Len(s.stack) + 1 /\ Len(s.stack) \in Nat /\ c[Len(s.stack) + 1] = Child(step)
        BY AppendFacts DEF Sound
      <4>2. step = [op |-> "open", node |-> f.group, members |-> f.members]
        BY <1>10, <2>2 DEF FitsOpen
      <4>3. c[f.bound].steps = <<step>>
        BY <2>2, <4>1, ChildIs
      <4>. QED
        BY <2>2, <4>1, <4>2, <4>3 DEF Sits
    <3>. HIDE DEF more
    <3>3. \A i \in 1 .. Len(more) : Sits(more[i], c)
      <4>1. TAKE i \in 1 .. Len(more)
      <4>2. i \in 1 .. Len(s.frames) \/ i = Len(s.frames) + 1
        BY <3>1
      <4>. QED
        BY <1>2, <3>1, <3>2, <4>2 DEF BoundsOk
    <3>. QED
      BY <3>3 DEF BoundsOk, more
  <2>6. u.tree = w /\ u.frames = Append(s.frames, f) /\ u.stack = c
    BY <2>1 DEF State
  <2>. HIDE DEF c
  <2>7. Sound(u, fr)
    BY <1>2, <2>1, <2>3, <2>4, <2>5, <2>6 DEF Sound
  <2>. QED
    BY <2>7 DEF u
<1>11. CASE step.op = "close" /\ FitsClose(s, step)
  <2>. DEFINE f == Last(s.frames)  w == Exit(t, f, s.stack)  less == Front(s.frames)
  <2>1. u = State(w, less, c)
    BY <1>11, ApplyIs
  <2>2. s.frames # <<>> /\ Released(s.stack, f.bound) = {}
    BY <1>11 DEF FitsClose
  <2>3. /\ f.group \in Groups /\ f.group \in t.hidden /\ f.group \notin fr /\ t.parent[f.group] = Top
    BY <1>1, <2>2, LastFrame
  <2>4. /\ FramesOk(t, less, fr) /\ BoundsOk(less, c)
        /\ \A i \in 1 .. Len(less) : less[i].group # f.group
    BY <1>1, <1>2, <2>2, FramesLess
  <2>5. TreeOk(w, fr) /\ HiddenStay(t, w, f.group)
    BY <1>1, <2>2, <2>3, CloseKeeps
  <2>. HIDE DEF u, w, less, f, c
  <2>6. FramesOk(w, less, fr)
    BY <2>4, <2>5, FramesStay
  <2>7. u.tree = w /\ u.frames = less /\ u.stack = c
    BY <2>1 DEF State
  <2>8. Sound(u, fr)
    BY <1>2, <2>1, <2>4, <2>5, <2>6, <2>7 DEF Sound
  <2>. QED
    BY <2>8 DEF u
<1>. QED
  BY <1>5, <1>6, <1>7, <1>8, <1>9, <1>10, <1>11 DEF Fits

-----------------------------------------------------------------------------
(* The record of a group that no entry knows of: forming it late changes  *)
(* neither what any entry did nor what a save would have written.         *)

-----------------------------------------------------------------------------
(* Induction over the numbers up to n.                                     *)

LEMMA UpTo ==
  ASSUME NEW n \in Nat, NEW S, 0 \in S, \A k \in 0 .. n - 1 : k \in S => k + 1 \in S
  PROVE  \A k \in 0 .. n : k \in S
<1>. DEFINE Bad == {k \in 0 .. n : k \notin S}
<1>1. SUFFICES ASSUME Bad # {} PROVE FALSE
  OBVIOUS
<1>2. Bad \subseteq Nat
  OBVIOUS
<1>3. \E x \in Bad : \A y \in Bad : ~ (<<y, x>> \in OpToRel(<, Nat))
  BY <1>1, <1>2, NatLessThanWellFounded, WFMin
<1>4. PICK k \in Bad : \A y \in Bad : ~ (y < k)
  BY <1>2, <1>3 DEF OpToRel
<1>5. k # 0 /\ k - 1 \in 0 .. n - 1 /\ k - 1 < k /\ k - 1 \in 0 .. n
  BY <1>4
<1>6. k - 1 \in S
  BY <1>4, <1>5
<1>7. k - 1 + 1 \in S
  BY <1>5, <1>6
<1>. QED
  BY <1>4, <1>5, <1>7

-----------------------------------------------------------------------------
(* The document as if every session were closed.                           *)

Closes(t, frames, stack, n, out) ==
  out = [k \in 0 .. n |->
           IF k = 0 THEN t ELSE Exit(out[k - 1], frames[Len(frames) + 1 - k], stack)]

LEMMA ClosingExists ==
  ASSUME NEW t, NEW frames, NEW stack, NEW n \in Nat
  PROVE  \E out : Closes(t, frames, stack, n, out)
<1>. DEFINE S == {k \in Nat : \E out : Closes(t, frames, stack, k, out)}
<1>1. 0 \in S
  <2>. DEFINE h == [k \in 0 .. 0 |-> t]
  <2>1. h = [k \in 0 .. 0 |->
               IF k = 0 THEN t ELSE Exit(h[k - 1], frames[Len(frames) + 1 - k], stack)]
    OBVIOUS
  <2>. QED
    BY <2>1 DEF Closes
<1>2. ASSUME NEW k \in 0 .. n - 1, k \in S PROVE k + 1 \in S
  <2>1. PICK g : Closes(t, frames, stack, k, g)
    BY <1>2
  <2>. DEFINE x == Exit(g[k], frames[Len(frames) + 1 - (k + 1)], stack)
              h == [i \in 0 .. k + 1 |-> IF i = k + 1 THEN x ELSE g[i]]
              hh == [i \in 0 .. k + 1 |->
                       IF i = 0 THEN t ELSE Exit(h[i - 1], frames[Len(frames) + 1 - i], stack)]
  <2>2. k \in Nat /\ k + 1 \in Nat
    OBVIOUS
  <2>3. \A i \in 0 .. k : g[i] = IF i = 0 THEN t ELSE Exit(g[i - 1], frames[Len(frames) + 1 - i], stack)
    BY <2>1 DEF Closes
  <2>4. \A i \in 0 .. k + 1 : h[i] = hh[i]
    <3>1. TAKE i \in 0 .. k + 1
    <3>2. CASE i = 0
      <4>1. h[i] = g[0] /\ g[0] = t
        BY <2>2, <2>3, <3>2
      <4>. QED
        BY <3>2, <4>1
    <3>3. CASE i # 0 /\ i # k + 1
      <4>1. i \in 0 .. k /\ i - 1 \in 0 .. k + 1 /\ i - 1 # k + 1
        BY <2>2, <3>3
      <4>. HIDE DEF x
      <4>2. h[i] = g[i] /\ h[i - 1] = g[i - 1]
        BY <3>3, <4>1
      <4>3. hh[i] = Exit(h[i - 1], frames[Len(frames) + 1 - i], stack)
        BY <3>3
      <4>. QED
        BY <2>3, <3>3, <4>1, <4>2, <4>3
    <3>4. CASE i = k + 1
      <4>1. i - 1 = k /\ i - 1 \in 0 .. k + 1 /\ i - 1 # k + 1 /\ i # 0
        BY <2>2, <3>4
      <4>2. h[i - 1] = g[k]
        BY <4>1
      <4>. QED
        BY <3>4, <4>1, <4>2
    <3>. QED
      BY <3>2, <3>3, <3>4
  <2>5. h = hh
    BY <2>4
  <2>6. Closes(t, frames, stack, k + 1, h)
    BY <2>5 DEF Closes
  <2>. QED
    BY <2>2, <2>6
<1>. HIDE DEF S
<1>3. \A k \in 0 .. n : k \in S
  BY <1>1, <1>2, UpTo
<1>. QED
  BY <1>3 DEF S

\* Session by session from the innermost, what closing them all gives.
ClosedBy(t, frames, stack, out) ==
  /\ SessionClosed(t, frames, stack) = out[Len(frames)]
  /\ out[0] = t
  /\ \A k \in 1 .. Len(frames) :
       out[k] = Exit(out[k - 1], frames[Len(frames) + 1 - k], stack)

LEMMA ClosedIs ==
  ASSUME NEW t, NEW frames, IsSeq(frames), NEW stack
  PROVE  \E out : ClosedBy(t, frames, stack, out)
<1>. DEFINE n == Len(frames)
            g == CHOOSE f : f = [k \in 0 .. n |->
                   IF k = 0 THEN t ELSE Exit(f[k - 1], frames[n + 1 - k], stack)]
<1>1. n \in Nat
  BY SeqFacts
<1>2. SessionClosed(t, frames, stack) = g[n]
  BY DEF SessionClosed
<1>3. \E f : f = [k \in 0 .. n |->
                    IF k = 0 THEN t ELSE Exit(f[k - 1], frames[n + 1 - k], stack)]
  <2>1. \E f : Closes(t, frames, stack, n, f)
    BY <1>1, ClosingExists
  <2>. QED
    BY <2>1, Zenon DEF Closes
<1>4. g = [k \in 0 .. n |-> IF k = 0 THEN t ELSE Exit(g[k - 1], frames[n + 1 - k], stack)]
  BY <1>3, Zenon
<1>. HIDE DEF g
<1>5. g[0] = t /\ \A k \in 1 .. n : g[k] = Exit(g[k - 1], frames[n + 1 - k], stack)
  <2>1. 0 \in 0 .. n /\ \A k \in 1 .. n : k \in 0 .. n /\ k # 0
    BY <1>1
  <2>. QED
    BY <1>4, <2>1
<1>6. ClosedBy(t, frames, stack, g)
  BY <1>2, <1>5 DEF ClosedBy
<1>. QED
  BY <1>6

-----------------------------------------------------------------------------
(* A group is formed: its record is made, and everything remembered from   *)
(* before it is as true of the tree that has the record.                   *)

Formed(g, ms, p) == g \in Groups /\ ms \in SUBSET Nodes /\ p \in Parents

\* The two trees are one but for the record of the group.
Later(t, w, g, ms, p) ==
  /\ t \in Trees /\ w \in Trees /\ w.hidden = t.hidden /\ w.line = t.line
  /\ \A n \in Nodes : w.parent[n] = IF n = g THEN p ELSE t.parent[n]
  /\ \A h \in Groups : w.members[h] = IF h = g THEN ms ELSE t.members[h]

LEMMA LateIs ==
  ASSUME NEW t \in Trees, NEW g, NEW ms, NEW p, Formed(g, ms, p)
  PROVE  Later(t, WithGroup(t, g, ms, p), g, ms, p)
<1>. DEFINE w == WithGroup(t, g, ms, p)
<1>1. IsTree(w, [t.parent EXCEPT ![g] = p], t.hidden, [t.members EXCEPT ![g] = ms], t.line)
  BY WithGroupIs DEF Formed
<1>2. t.parent \in [Nodes -> Parents] /\ t.members \in [Groups -> SUBSET Nodes]
  BY TreeParts
<1>. HIDE DEF w
<1>3. Later(t, w, g, ms, p)
  BY <1>1, <1>2 DEF IsTree, Later
<1>. QED
  BY <1>3 DEF w

LEMMA IsLate ==
  ASSUME NEW t, NEW g, NEW ms, NEW p, Formed(g, ms, p), NEW w, Later(t, w, g, ms, p)
  PROVE  w = WithGroup(t, g, ms, p)
<1>. DEFINE x == WithGroup(t, g, ms, p)
<1>1. t \in Trees
  BY DEF Later
<1>2. Later(t, x, g, ms, p)
  BY <1>1, LateIs
<1>. HIDE DEF x
<1>3. /\ w.parent \in [Nodes -> Parents] /\ w.members \in [Groups -> SUBSET Nodes]
      /\ x.parent \in [Nodes -> Parents] /\ x.members \in [Groups -> SUBSET Nodes]
      /\ w \in Trees /\ x \in Trees /\ w.hidden = x.hidden /\ w.line = x.line
  BY <1>2, TreeParts DEF Later
<1>4. \A n \in Nodes : w.parent[n] = x.parent[n]
  BY <1>2 DEF Later
<1>5. \A h \in Groups : w.members[h] = x.members[h]
  BY <1>2 DEF Later
<1>6. w.parent = x.parent /\ w.members = x.members
  BY <1>3, <1>4, <1>5
<1>7. w = x
  BY <1>3, <1>6, SameTree
<1>. QED
  BY <1>7 DEF x

LEMMA DrawLate ==
  ASSUME NEW t \in Trees, NEW g, NEW ms, NEW p, Formed(g, ms, p),
         NEW step
  PROVE  ApplyDraw(WithGroup(t, g, ms, p), step) = WithGroup(ApplyDraw(t, step), g, ms, p)
<1>. DEFINE x == WithGroup(t, g, ms, p)  u == ApplyDraw(t, step)  w == ApplyDraw(x, step)
<1>0. Later(t, x, g, ms, p)
  BY LateIs
<1>. HIDE DEF x
<1>1. /\ x \in Trees /\ x.hidden = t.hidden /\ x.line = t.line
      /\ \A n \in Nodes : x.parent[n] = IF n = g THEN p ELSE t.parent[n]
      /\ \A h \in Groups : x.members[h] = IF h = g THEN ms ELSE t.members[h]
  BY <1>0 DEF Later
<1>. HIDE DEF x
<1>2. /\ IsTree(u, t.parent, t.hidden \ {step.node}, t.members, t.line)
      /\ IsTree(w, x.parent, x.hidden \ {step.node}, x.members, x.line)
  BY <1>1, DrawIs
<1>. HIDE DEF u, w
<1>3. w = WithGroup(u, g, ms, p)
  <2>1. Later(u, w, g, ms, p)
    BY <1>1, <1>2 DEF IsTree, Later
  <2>. QED
    BY <2>1, IsLate
<1>. QED
  BY <1>3 DEF u, w, x

LEMMA DeleteLate ==
  ASSUME NEW t \in Trees, NEW g, NEW ms, NEW p, Formed(g, ms, p),
         NEW step, step.node \in Nodes, step.parent \in Parents, step.parent # g
  PROVE  ApplyDelete(WithGroup(t, g, ms, p), step) = WithGroup(ApplyDelete(t, step), g, ms, p)
<1>. DEFINE x == WithGroup(t, g, ms, p)  u == ApplyDelete(t, step)  w == ApplyDelete(x, step)
            q == step.parent  n == step.node
<1>0. Later(t, x, g, ms, p)
  BY LateIs
<1>. HIDE DEF x
<1>1. /\ x \in Trees /\ x.hidden = t.hidden /\ x.line = t.line
      /\ \A m \in Nodes : x.parent[m] = IF m = g THEN p ELSE t.parent[m]
      /\ \A h \in Groups : x.members[h] = IF h = g THEN ms ELSE t.members[h]
  BY <1>0 DEF Later
<1>. HIDE DEF x
<1>2. /\ IsTree(u, t.parent, t.hidden \cup {n},
                IF q = Top THEN t.members ELSE Spliced(t.members, q, n, {}), t.line)
      /\ IsTree(w, x.parent, x.hidden \cup {n},
                IF q = Top THEN x.members ELSE Spliced(x.members, q, n, {}), x.line)
  BY <1>1, DeleteIs
<1>. HIDE DEF u, w
<1>3. \A h \in Groups : w.members[h] = IF h = g THEN ms ELSE u.members[h]
  <2>1. CASE q = Top
    BY <1>1, <1>2, <2>1 DEF IsTree
  <2>2. CASE q # Top
    <3>1. q \in Groups /\ DOMAIN t.members = Groups /\ DOMAIN x.members = Groups
      BY <1>1, <2>2, Names, TreeParts
    <3>2. u.members = Spliced(t.members, q, n, {}) /\ w.members = Spliced(x.members, q, n, {})
      BY <1>2, <2>2 DEF IsTree
    <3>3. x.members[q] = t.members[q] /\ g \in Groups
      BY <1>1, <3>1 DEF Formed
    <3>4. u.members[q] = w.members[q]
      BY <3>1, <3>2, <3>3 DEF Spliced
    <3>5. \A h \in Groups : h # q => u.members[h] = t.members[h]
      BY <3>1, <3>2 DEF Spliced
    <3>6. \A h \in Groups : h # q => w.members[h] = x.members[h]
      BY <3>1, <3>2 DEF Spliced
    <3>. QED
      BY <1>1, <3>1, <3>4, <3>5, <3>6
  <2>. QED
    BY <2>1, <2>2
<1>4. w = WithGroup(u, g, ms, p)
  <2>1. Later(u, w, g, ms, p)
    BY <1>1, <1>2, <1>3 DEF IsTree, Later
  <2>. QED
    BY <2>1, IsLate
<1>. QED
  BY <1>4 DEF u, w, x

LEMMA GroupLate ==
  ASSUME NEW t \in Trees, NEW g, NEW ms, NEW p, Formed(g, ms, p),
         NEW step, step.node \in Groups, step.parent \in Parents, step.parent # g, step.node # g,
         g \notin t.members[step.node]
  PROVE  ApplyGroup(WithGroup(t, g, ms, p), step) = WithGroup(ApplyGroup(t, step), g, ms, p)
<1>. DEFINE x == WithGroup(t, g, ms, p)  u == ApplyGroup(t, step)  w == ApplyGroup(x, step)
            q == step.parent  k == step.node  ks == t.members[k]
<1>0. Later(t, x, g, ms, p)
  BY LateIs
<1>. HIDE DEF x
<1>1. /\ x \in Trees /\ x.hidden = t.hidden /\ x.line = t.line
      /\ \A m \in Nodes : x.parent[m] = IF m = g THEN p ELSE t.parent[m]
      /\ \A h \in Groups : x.members[h] = IF h = g THEN ms ELSE t.members[h]
      /\ x.members[k] = ks
  BY <1>0 DEF Later
<1>. HIDE DEF x
<1>2. /\ IsTree(u, [Rehomed(t.parent, ks, k) EXCEPT ![k] = q], t.hidden \ {k},
                SplicedIn(t.members, q, k, ks), t.line)
      /\ IsTree(w, [Rehomed(x.parent, ks, k) EXCEPT ![k] = q], x.hidden \ {k},
                SplicedIn(x.members, q, k, ks), x.line)
  <2>1. IsTree(u, [Rehomed(t.parent, ks, k) EXCEPT ![k] = q], t.hidden \ {k},
                SplicedIn(t.members, q, k, ks), t.line)
    BY GroupIs
  <2>2. IsTree(w, [Rehomed(x.parent, x.members[k], k) EXCEPT ![k] = q], x.hidden \ {k},
                SplicedIn(x.members, q, k, x.members[k]), x.line)
    BY <1>1, GroupIs
  <2>. HIDE DEF u, w
  <2>. QED
    BY <1>1, <2>1, <2>2
<1>. HIDE DEF u, w
<1>3. \A h \in Groups : w.members[h] = IF h = g THEN ms ELSE u.members[h]
  <2>1. u.members = SplicedIn(t.members, q, k, ks) /\ w.members = SplicedIn(x.members, q, k, ks)
    BY <1>2 DEF IsTree
  <2>2. CASE q = Top
    BY <1>1, <2>1, <2>2 DEF SplicedIn
  <2>3. CASE q # Top
    <3>1. q \in Groups /\ DOMAIN t.members = Groups /\ DOMAIN x.members = Groups
      BY <1>1, <2>3, Names, TreeParts
    <3>2. x.members[q] = t.members[q] /\ g \in Groups
      BY <1>1, <3>1 DEF Formed
    <3>3. u.members[q] = w.members[q]
      BY <2>1, <2>3, <3>1, <3>2 DEF SplicedIn
    <3>4. \A h \in Groups : h # q => u.members[h] = t.members[h]
      BY <2>1, <2>3, <3>1 DEF SplicedIn
    <3>5. \A h \in Groups : h # q => w.members[h] = x.members[h]
      BY <2>1, <2>3, <3>1 DEF SplicedIn
    <3>. QED
      BY <1>1, <3>1, <3>3, <3>4, <3>5
  <2>. QED
    BY <2>2, <2>3
<1>4. \A n \in Nodes : w.parent[n] = IF n = g THEN p ELSE u.parent[n]
  BY <1>1, <1>2, Names DEF IsTree, Rehomed
<1>5. w = WithGroup(u, g, ms, p)
  <2>1. Later(u, w, g, ms, p)
    BY <1>1, <1>2, <1>3, <1>4 DEF IsTree, Later
  <2>. QED
    BY <2>1, IsLate
<1>. QED
  BY <1>5 DEF u, w, x

LEMMA UngroupLate ==
  ASSUME NEW t \in Trees, NEW g, NEW ms, NEW p, Formed(g, ms, p),
         NEW step, step.node \in Groups, step.parent \in Parents, step.parent # g, step.node # g,
         g \notin t.members[step.node]
  PROVE  ApplyUngroup(WithGroup(t, g, ms, p), step) = WithGroup(ApplyUngroup(t, step), g, ms, p)
<1>. DEFINE x == WithGroup(t, g, ms, p)  u == ApplyUngroup(t, step)  w == ApplyUngroup(x, step)
            q == step.parent  k == step.node  ks == t.members[k]
            l == [h \in Drawn |-> IF h \in step.lines THEN q ELSE t.line[h]]
<1>0. Later(t, x, g, ms, p)
  BY LateIs
<1>. HIDE DEF x
<1>1. /\ x \in Trees /\ x.hidden = t.hidden /\ x.line = t.line
      /\ \A m \in Nodes : x.parent[m] = IF m = g THEN p ELSE t.parent[m]
      /\ \A h \in Groups : x.members[h] = IF h = g THEN ms ELSE t.members[h]
      /\ x.members[k] = ks
  BY <1>0 DEF Later
<1>. HIDE DEF x
<1>2. /\ IsTree(u, Rehomed(t.parent, ks, q), t.hidden \cup {k},
                IF q = Top THEN t.members ELSE Spliced(t.members, q, k, ks), l)
      /\ IsTree(w, Rehomed(x.parent, ks, q), x.hidden \cup {k},
                IF q = Top THEN x.members ELSE Spliced(x.members, q, k, ks), l)
  <2>1. IsTree(u, Rehomed(t.parent, ks, q), t.hidden \cup {k},
                IF q = Top THEN t.members ELSE Spliced(t.members, q, k, ks), l)
    BY UngroupIs
  <2>2. IsTree(w, Rehomed(x.parent, x.members[k], q), x.hidden \cup {k},
                IF q = Top THEN x.members ELSE Spliced(x.members, q, k, x.members[k]),
                [h \in Drawn |-> IF h \in step.lines THEN q ELSE x.line[h]])
    BY <1>1, UngroupIs
  <2>. HIDE DEF u, w
  <2>. QED
    BY <1>1, <2>1, <2>2
<1>. HIDE DEF u, w, l
<1>3. \A h \in Groups : w.members[h] = IF h = g THEN ms ELSE u.members[h]
  <2>1. CASE q = Top
    BY <1>1, <1>2, <2>1 DEF IsTree
  <2>2. CASE q # Top
    <3>1. q \in Groups /\ DOMAIN t.members = Groups /\ DOMAIN x.members = Groups
      BY <1>1, <2>2, Names, TreeParts
    <3>2. u.members = Spliced(t.members, q, k, ks) /\ w.members = Spliced(x.members, q, k, ks)
      BY <1>2, <2>2 DEF IsTree
    <3>3. x.members[q] = t.members[q] /\ g \in Groups
      BY <1>1, <3>1 DEF Formed
    <3>4. u.members[q] = w.members[q]
      BY <3>1, <3>2, <3>3 DEF Spliced
    <3>5. \A h \in Groups : h # q => u.members[h] = t.members[h]
      BY <3>1, <3>2 DEF Spliced
    <3>6. \A h \in Groups : h # q => w.members[h] = x.members[h]
      BY <3>1, <3>2 DEF Spliced
    <3>. QED
      BY <1>1, <3>1, <3>4, <3>5, <3>6
  <2>. QED
    BY <2>1, <2>2
<1>4. \A n \in Nodes : w.parent[n] = IF n = g THEN p ELSE u.parent[n]
  BY <1>1, <1>2, Names DEF IsTree, Rehomed
<1>5. w = WithGroup(u, g, ms, p)
  <2>1. Later(u, w, g, ms, p)
    BY <1>1, <1>2, <1>3, <1>4 DEF IsTree, Later
  <2>. QED
    BY <2>1, IsLate
<1>. QED
  BY <1>5 DEF u, w, x

LEMMA MoveLate ==
  ASSUME NEW t \in Trees, NEW g, NEW ms, NEW p, Formed(g, ms, p),
         NEW step, step.next \in Parents, step.from \in Parents, step.node # g,
         Lists(step.after), Lists(step.before), g \notin DOMAIN step.after
  PROVE  ApplyMove(WithGroup(t, g, ms, p), step) = WithGroup(ApplyMove(t, step), g, ms, p)
<1>. DEFINE x == WithGroup(t, g, ms, p)  u == ApplyMove(t, step)  w == ApplyMove(x, step)
<1>0. Later(t, x, g, ms, p)
  BY LateIs
<1>. HIDE DEF x
<1>1. /\ x \in Trees /\ x.hidden = t.hidden /\ x.line = t.line
      /\ \A m \in Nodes : x.parent[m] = IF m = g THEN p ELSE t.parent[m]
      /\ \A h \in Groups : x.members[h] = IF h = g THEN ms ELSE t.members[h]
  BY <1>0 DEF Later
<1>. HIDE DEF x
<1>2. /\ IsTree(u, Rehomed(t.parent, {step.node}, step.next), t.hidden,
                Replaced(t.members, step.after), t.line)
      /\ IsTree(w, Rehomed(x.parent, {step.node}, step.next), x.hidden,
                Replaced(x.members, step.after), x.line)
  BY <1>1, MoveIs
<1>. HIDE DEF u, w
<1>3. \A h \in Groups : w.members[h] = IF h = g THEN ms ELSE u.members[h]
  BY <1>1, <1>2 DEF IsTree, Replaced
<1>4. \A n \in Nodes : w.parent[n] = IF n = g THEN p ELSE u.parent[n]
  BY <1>1, <1>2, Names DEF IsTree, Rehomed
<1>5. w = WithGroup(u, g, ms, p)
  <2>1. Later(u, w, g, ms, p)
    BY <1>1, <1>2, <1>3, <1>4 DEF IsTree, Later
  <2>. QED
    BY <2>1, IsLate
<1>. QED
  BY <1>5 DEF u, w, x

LEMMA OpenLate ==
  ASSUME NEW t \in Trees, NEW g, NEW ms, NEW p, Formed(g, ms, p),
         NEW step, step.node \in Groups, g \notin step.members
  PROVE  ApplyOpen(WithGroup(t, g, ms, p), step) = WithGroup(ApplyOpen(t, step), g, ms, p)
<1>. DEFINE x == WithGroup(t, g, ms, p)  u == ApplyOpen(t, step)  w == ApplyOpen(x, step)
<1>0. Later(t, x, g, ms, p)
  BY LateIs
<1>. HIDE DEF x
<1>1. /\ x \in Trees /\ x.hidden = t.hidden /\ x.line = t.line
      /\ \A m \in Nodes : x.parent[m] = IF m = g THEN p ELSE t.parent[m]
      /\ \A h \in Groups : x.members[h] = IF h = g THEN ms ELSE t.members[h]
  BY <1>0 DEF Later
<1>. HIDE DEF x
<1>2. /\ IsTree(u, Rehomed(t.parent, step.members, Top), t.hidden \cup {step.node}, t.members, t.line)
      /\ IsTree(w, Rehomed(x.parent, step.members, Top), x.hidden \cup {step.node}, x.members, x.line)
  BY <1>1, OpenIs
<1>. HIDE DEF u, w
<1>3. \A h \in Groups : w.members[h] = IF h = g THEN ms ELSE u.members[h]
  BY <1>1, <1>2 DEF IsTree
<1>4. \A n \in Nodes : w.parent[n] = IF n = g THEN p ELSE u.parent[n]
  BY <1>1, <1>2, Names DEF IsTree, Rehomed
<1>5. w = WithGroup(u, g, ms, p)
  <2>1. Later(u, w, g, ms, p)
    BY <1>1, <1>2, <1>3, <1>4 DEF IsTree, Later
  <2>. QED
    BY <2>1, IsLate
<1>. QED
  BY <1>5 DEF u, w, x

\* What surfaced since a boundary does not see a group that was not there.
LEMMA SurfacedLate2 ==
  ASSUME NEW t \in Trees, NEW g, NEW ms, NEW p, Formed(g, ms, p),
         NEW fr, g \in fr, NEW stack, IsSeq(stack), Known(stack, fr), NEW bound \in Nat
  PROVE  Surfaced(WithGroup(t, g, ms, p), stack, bound) = Surfaced(t, stack, bound)
<1>. DEFINE x == WithGroup(t, g, ms, p)
<1>0. Later(t, x, g, ms, p)
  BY LateIs
<1>1. \A h \in Groups : h # g => x.members[h] = t.members[h]
  BY <1>0 DEF Later
<1>. HIDE DEF x
<1>2. Len(stack) \in Nat
  BY SeqFacts
<1>3. ASSUME NEW i \in bound + 1 .. Len(stack),
             stack[i].steps[1].op = "ungroup"
      PROVE  x.members[stack[i].steps[1].node] = t.members[stack[i].steps[1].node]
  <2>1. i \in 1 .. Len(stack)
    BY <1>2
  <2>2. KnownStep(stack[i].steps[1], fr)
    BY <2>1 DEF Known
  <2>. QED
    BY <1>1, <1>3, <2>2 DEF KnownStep
<1>4. \A i \in bound + 1 .. Len(stack) :
        (IF stack[i].steps[1].op = "ungroup" /\ ~stack[i].compound
         THEN x.members[stack[i].steps[1].node] ELSE {})
        = (IF stack[i].steps[1].op = "ungroup" /\ ~stack[i].compound
           THEN t.members[stack[i].steps[1].node] ELSE {})
  BY <1>3
<1>5. Surfaced(x, stack, bound) = Surfaced(t, stack, bound)
  BY <1>4, Zenon DEF Surfaced
<1>. QED
  BY <1>5 DEF x

LEMMA FoldedLate ==
  ASSUME NEW t \in Trees, NEW g, NEW ms, NEW p, Formed(g, ms, p),
         NEW fr, g \in fr, NEW stack, IsSeq(stack), Known(stack, fr),
         NEW f, f.bound \in Nat, g \in t.hidden
  PROVE  Folded(WithGroup(t, g, ms, p), f, stack) = Folded(t, f, stack)
<1>. DEFINE x == WithGroup(t, g, ms, p)
<1>0. Later(t, x, g, ms, p)
  BY LateIs
<1>1. /\ x.hidden = t.hidden /\ Live(x) = Live(t) /\ Live(t) \subseteq Nodes /\ g \notin Live(t)
      /\ \A m \in Nodes : x.parent[m] = IF m = g THEN p ELSE t.parent[m]
  BY <1>0 DEF Live, Later
<1>2. Surfaced(x, stack, f.bound) = Surfaced(t, stack, f.bound)
  BY SurfacedLate2
<1>. HIDE DEF x
<1>3. TopLevel(x) = TopLevel(t)
  BY <1>1 DEF TopLevel
<1>4. Folded(x, f, stack) = Folded(t, f, stack)
  BY <1>2, <1>3 DEF Folded
<1>. QED
  BY <1>4 DEF x

LEMMA ExitLate ==
  ASSUME NEW t \in Trees, NEW g, NEW ms, NEW p, Formed(g, ms, p),
         NEW fr, g \in fr, NEW stack, IsSeq(stack), Known(stack, fr),
         NEW f, f.bound \in Nat, f.group \in Groups, f.group # g, g \in t.hidden
  PROVE  /\ Exit(WithGroup(t, g, ms, p), f, stack) = WithGroup(Exit(t, f, stack), g, ms, p)
         /\ Exit(t, f, stack) \in Trees /\ g \in Exit(t, f, stack).hidden
<1>. DEFINE x == WithGroup(t, g, ms, p)  u == Exit(t, f, stack)  w == Exit(x, f, stack)
            k == f.group  ks == Folded(t, f, stack)  l == Lines(t, f, stack)
            hid == IF Emptied(ks, l, k) THEN t.hidden ELSE t.hidden \ {k}
<1>0. Later(t, x, g, ms, p)
  BY LateIs
<1>. HIDE DEF x
<1>1. /\ x \in Trees /\ x.hidden = t.hidden /\ x.line = t.line
      /\ \A m \in Nodes : x.parent[m] = IF m = g THEN p ELSE t.parent[m]
      /\ \A h \in Groups : x.members[h] = IF h = g THEN ms ELSE t.members[h]
  BY <1>0 DEF Later
<1>2. Folded(x, f, stack) = ks
  BY FoldedLate DEF x
<1>. HIDE DEF x
<1>3. Lines(x, f, stack) = l
  BY <1>1 DEF Lines
<1>4. IsTree(u, Rehomed(t.parent, ks, k), hid, [t.members EXCEPT ![k] = ks], l)
  BY ExitIs
<1>5. IsTree(w, Rehomed(x.parent, ks, k), hid, [x.members EXCEPT ![k] = ks], l)
  <2>1. IsTree(w, Rehomed(x.parent, Folded(x, f, stack), f.group),
               IF Emptied(Folded(x, f, stack), Lines(x, f, stack), f.group) THEN x.hidden
               ELSE x.hidden \ {f.group},
               [x.members EXCEPT ![f.group] = Folded(x, f, stack)], Lines(x, f, stack))
    BY <1>1, ExitIs
  <2>. HIDE DEF w, ks, l
  <2>. QED
    BY <1>1, <1>2, <1>3, <2>1
<1>6. ks \subseteq Live(t) /\ g \notin Live(t) /\ ks \subseteq Nodes
  BY FoldedIs DEF Live
<1>7. g \in hid
  OBVIOUS
<1>. HIDE DEF u, w, ks, l, hid
<1>8. \A h \in Groups : w.members[h] = IF h = g THEN ms ELSE u.members[h]
  BY <1>1, <1>4, <1>5, TreeParts DEF IsTree
<1>9. \A n \in Nodes : w.parent[n] = IF n = g THEN p ELSE u.parent[n]
  BY <1>1, <1>4, <1>5, <1>6, Names DEF IsTree, Rehomed
<1>10. w = WithGroup(u, g, ms, p)
  <2>1. Later(u, w, g, ms, p)
    BY <1>4, <1>5, <1>8, <1>9 DEF IsTree, Later
  <2>. QED
    BY <2>1, IsLate
<1>11. u \in Trees /\ g \in u.hidden
  BY <1>4, <1>7 DEF IsTree
<1>. QED
  BY <1>10, <1>11 DEF u, w, x

LaterState(s, g, ms, p) == State(WithGroup(s.tree, g, ms, p), s.frames, s.stack)

LEMMA LaterParts ==
  ASSUME NEW s, NEW g, NEW ms, NEW p
  PROVE  LET z == LaterState(s, g, ms, p)
         IN  /\ z.tree = WithGroup(s.tree, g, ms, p) /\ z.frames = s.frames /\ z.stack = s.stack
             /\ z = State(z.tree, z.frames, z.stack)
BY StateIs DEF LaterState

LEMMA LateFacts ==
  ASSUME NEW t, NEW fr, TreeOk(t, fr), NEW g \in fr, NEW ms, NEW p, Formed(g, ms, p)
  PROVE  LET w == WithGroup(t, g, ms, p)
         IN  /\ t \in Trees /\ w \in Trees /\ w.hidden = t.hidden /\ Live(w) = Live(t)
             /\ w.line = t.line /\ TopLevel(w) = TopLevel(t) /\ Live(t) \subseteq Nodes
             /\ g \in t.hidden /\ g \notin Live(t) /\ g \in Groups /\ g # Top
             /\ \A h \in Groups : g \notin t.members[h]
             /\ \A n \in Nodes : n # g => w.parent[n] = t.parent[n]
             /\ \A n \in Live(t) : w.parent[n] = t.parent[n]
             /\ \A h \in Groups : h # g => w.members[h] = t.members[h]
             /\ w.parent[g] = p /\ w.members[g] = ms
             /\ \A q \in Parents : q # g => Siblings(w, q) = Siblings(t, q)
<1>. DEFINE w == WithGroup(t, g, ms, p)
<1>1. /\ t \in Trees /\ fr \subseteq t.hidden /\ t.hidden \in SUBSET Nodes
      /\ \A h \in Groups : t.members[h] \cap fr = {}
  BY TreeFacts
<1>2. Later(t, w, g, ms, p)
  BY <1>1, LateIs
<1>. HIDE DEF w
<1>3. /\ w \in Trees /\ w.hidden = t.hidden /\ w.line = t.line
      /\ \A n \in Nodes : w.parent[n] = IF n = g THEN p ELSE t.parent[n]
      /\ \A h \in Groups : w.members[h] = IF h = g THEN ms ELSE t.members[h]
  BY <1>2 DEF Later
<1>4. g \in Groups /\ g \in Nodes /\ g # Top /\ g \in t.hidden
  BY <1>1, Names DEF Formed
<1>5. Live(w) = Live(t) /\ Live(t) \subseteq Nodes /\ g \notin Live(t)
  BY <1>3, <1>4 DEF Live
<1>6. \A n \in Live(t) : w.parent[n] = t.parent[n]
  BY <1>3, <1>5
<1>7. TopLevel(w) = TopLevel(t)
  BY <1>5, <1>6 DEF TopLevel
<1>8. \A q \in Parents : q # g => Siblings(w, q) = Siblings(t, q)
  BY <1>3, Names DEF Siblings
<1>9. \A h \in Groups : g \notin t.members[h]
  BY <1>1
<1>. QED
  BY <1>1, <1>3, <1>4, <1>5, <1>6, <1>7, <1>8, <1>9 DEF w

LEMMA TreeLate ==
  ASSUME NEW t, NEW fr, TreeOk(t, fr), NEW g \in fr, NEW ms, NEW p, Formed(g, ms, p),
         ms \cap fr = {}
  PROVE  TreeOk(WithGroup(t, g, ms, p), fr \ {g})
<1>. DEFINE w == WithGroup(t, g, ms, p)  less == fr \ {g}
<1>1. /\ w \in Trees /\ w.hidden = t.hidden /\ Live(w) = Live(t) /\ Live(t) \subseteq Nodes
      /\ g \in Groups /\ g \notin Live(t)
      /\ \A n \in Nodes : n # g => w.parent[n] = t.parent[n]
      /\ \A n \in Live(t) : w.parent[n] = t.parent[n]
      /\ \A h \in Groups : h # g => w.members[h] = t.members[h]
      /\ w.members[g] = ms
  BY LateFacts
<1>. HIDE DEF w
<1>2. /\ fr \subseteq t.hidden /\ t.hidden \in SUBSET Nodes
      /\ \A n \in fr : t.parent[n] = Top
      /\ \A h \in Groups : t.members[h] \cap fr = {}
      /\ \A n \in Live(t) : t.parent[n] \in Groups => t.parent[n] \in Live(t)
      /\ \A h \in Groups \cap Live(t) : t.members[h] = {n \in Live(t) : t.parent[n] = h}
  BY TreeFacts
<1>3. less \subseteq w.hidden /\ \A n \in less : w.parent[n] = Top
  BY <1>1, <1>2
<1>4. \A h \in Groups : w.members[h] \cap less = {}
  BY <1>1, <1>2
<1>5. \A n \in Live(w) : w.parent[n] \in Groups => w.parent[n] \in Live(w)
  BY <1>1, <1>2
<1>6. \A h \in Groups \cap Live(w) : w.members[h] = {n \in Live(w) : w.parent[n] = h}
  <2>1. SUFFICES ASSUME NEW h \in Groups \cap Live(w)
                 PROVE  w.members[h] = {n \in Live(w) : w.parent[n] = h}
    OBVIOUS
  <2>2. w.members[h] = {n \in Live(t) : t.parent[n] = h}
    BY <1>1, <1>2
  <2>. QED
    BY <1>1, <2>2
<1>7. \A S \in SUBSET Live(w) : (\A n \in S : w.parent[n] \in S) => S = {}
  <2>1. SUFFICES ASSUME NEW S \in SUBSET Live(w), \A n \in S : w.parent[n] \in S PROVE S = {}
    OBVIOUS
  <2>2. S \in SUBSET Live(t) /\ \A n \in S : t.parent[n] \in S
    BY <1>1, <2>1
  <2>. QED
    BY <2>2, NoCycle
<1>8. TreeOk(w, less)
  BY <1>1, <1>3, <1>4, <1>5, <1>6, <1>7 DEF TreeOk
<1>. QED
  BY <1>8 DEF w

\* A node that is drawn or formed is no longer fresh.
LEMMA Shrink ==
  ASSUME NEW s, NEW fr, Sound(s, fr), NEW less \in SUBSET fr
  PROVE  Sound(s, less)
<1>1. Known(s.stack, less)
  BY DEF Sound, Known, KnownStep
<1>2. TreeOk(s.tree, less)
  BY DEF Sound, TreeOk
<1>3. FramesOk(s.tree, s.frames, less)
  BY DEF Sound, FramesOk
<1>. QED
  BY <1>1, <1>2, <1>3 DEF Sound

LEMMA SoundLate ==
  ASSUME NEW s, NEW fr, Sound(s, fr), NEW g \in fr, NEW ms, NEW p, Formed(g, ms, p),
         ms \cap fr = {}
  PROVE  Sound(LaterState(s, g, ms, p), fr \ {g})
<1>. DEFINE w == WithGroup(s.tree, g, ms, p)  less == fr \ {g}
<1>1. Sound(s, less) /\ TreeOk(s.tree, fr) /\ FramesOk(s.tree, s.frames, fr)
  BY Shrink DEF Sound
<1>2. TreeOk(w, less)
  BY <1>1, TreeLate
<1>3. /\ w.hidden = s.tree.hidden
      /\ \A n \in Nodes : n # g => w.parent[n] = s.tree.parent[n]
      /\ \A h \in Groups : h # g => w.members[h] = s.tree.members[h]
  BY <1>1, LateFacts
<1>. HIDE DEF w
<1>4. FramesOk(w, s.frames, less)
  <2>1. \A i \in 1 .. Len(s.frames) : s.frames[i].group # g
    BY <1>1 DEF FramesOk
  <2>2. FramesOk(s.tree, s.frames, less)
    BY <1>1 DEF Sound
  <2>3. HiddenStay(s.tree, w, g)
    BY <1>3, Names DEF HiddenStay
  <2>. QED
    BY <2>1, <2>2, <2>3, FramesStay
<1>5. LaterState(s, g, ms, p) = State(w, s.frames, s.stack)
  BY DEF LaterState, w
<1>. DEFINE z == LaterState(s, g, ms, p)
<1>6. z.tree = w /\ z.frames = s.frames /\ z.stack = s.stack /\ z = State(w, s.frames, s.stack)
  BY <1>5, StateIs
<1>. HIDE DEF z, less
<1>7. Sound(z, less)
  BY <1>1, <1>2, <1>4, <1>6 DEF Sound
<1>. QED
  BY <1>7 DEF z, less

LEMMA BoundIs ==
  ASSUME NEW s, NEW fr, Sound(s, fr), NEW i \in 1 .. Len(s.frames)
  PROVE  s.frames[i].bound \in Nat /\ s.frames[i].bound \in 1 .. Len(s.stack)
         /\ s.frames[i].group \in Groups /\ s.frames[i].group \notin fr
<1>1. IsSeq(s.stack) /\ BoundsOk(s.frames, s.stack) /\ FramesOk(s.tree, s.frames, fr)
  BY DEF Sound
<1>2. Len(s.stack) \in Nat
  BY <1>1, SeqFacts
<1>3. s.frames[i].bound \in 1 .. Len(s.stack)
  BY <1>1 DEF BoundsOk, Sits
<1>4. s.frames[i].group \in Groups /\ s.frames[i].group \notin fr
  BY <1>1 DEF FramesOk
<1>. QED
  BY <1>2, <1>3, <1>4

LEMMA TopFrame ==
  ASSUME NEW s, NEW fr, Sound(s, fr), s.frames # <<>>
  PROVE  LET f == Last(s.frames)
         IN  /\ f.bound \in Nat /\ f.group \in Groups /\ f.group \notin fr
             /\ f.group \in s.tree.hidden /\ s.tree.parent[f.group] = Top
             /\ f.members = s.tree.members[f.group]
<1>1. FramesOk(s.tree, s.frames, fr)
  BY DEF Sound
<1>2. /\ Len(s.frames) \in 1 .. Len(s.frames) /\ Last(s.frames) = s.frames[Len(s.frames)]
  BY <1>1, LastFrame
<1>. QED
  BY <1>1, <1>2, BoundIs, LastFrame

LEMMA ApplyLate ==
  ASSUME NEW s, NEW fr, Sound(s, fr), NEW g \in fr, NEW ms, NEW p, Formed(g, ms, p),
         NEW step, Fits(s, step), step.node \notin fr
  PROVE  Apply(LaterState(s, g, ms, p), step) = LaterState(Apply(s, step), g, ms, p)
<1>. DEFINE t == s.tree  w == WithGroup(t, g, ms, p)  z == LaterState(s, g, ms, p)
            u == Apply(s, step)  c == Append(s.stack, Child(step))
<1>1. /\ TreeOk(t, fr) /\ t \in Trees /\ g \in t.hidden /\ g \notin Live(t) /\ g \in Groups /\ g # Top
      /\ \A h \in Groups : g \notin t.members[h]
      /\ TopLevel(w) = TopLevel(t)
  <2>1. TreeOk(t, fr)
    BY DEF Sound
  <2>. QED
    BY <2>1, LateFacts
<1>2. z.tree = w /\ z.frames = s.frames /\ z.stack = s.stack
  BY LaterParts
<1>. HIDE DEF z, w
<1>3. ASSUME NEW x, NEW frames, u = State(x, frames, c),
             Apply(z, step) = State(WithGroup(x, g, ms, p), frames, c)
      PROVE  Apply(z, step) = LaterState(u, g, ms, p)
  <2>. HIDE DEF u, c
  <2>1. u.tree = x /\ u.frames = frames /\ u.stack = c
    BY <1>3, StateIs
  <2>. QED
    BY <1>3, <2>1 DEF LaterState
<1>4. step.node # g
  OBVIOUS
<1>5. CASE step.op = "draw" /\ FitsDraw(t, step)
  <2>1. u = State(ApplyDraw(t, step), s.frames, c)
    BY <1>5, ApplyIs
  <2>2. Apply(z, step) = State(ApplyDraw(w, step), s.frames, c)
    BY <1>2, <1>5, ApplyIs
  <2>3. ApplyDraw(w, step) = WithGroup(ApplyDraw(t, step), g, ms, p)
    BY <1>1, DrawLate DEF w
  <2>. HIDE DEF u, c
  <2>4. Apply(z, step) = LaterState(u, g, ms, p)
    BY <1>3, <2>1, <2>2, <2>3
  <2>. QED
    BY <2>4 DEF u, z
<1>6. CASE step.op = "delete" /\ FitsDelete(t, step)
  <2>1. u = State(ApplyDelete(t, step), s.frames, c)
    BY <1>6, ApplyIs
  <2>2. Apply(z, step) = State(ApplyDelete(w, step), s.frames, c)
    BY <1>2, <1>6, ApplyIs
  <2>3. step.node \in Nodes /\ step.parent \in Parents /\ step.parent # g
    BY <1>1, <1>6, TreeFacts, Names DEF FitsDelete
  <2>4. ApplyDelete(w, step) = WithGroup(ApplyDelete(t, step), g, ms, p)
    BY <1>1, <2>3, DeleteLate DEF w
  <2>. HIDE DEF u, c
  <2>5. Apply(z, step) = LaterState(u, g, ms, p)
    BY <1>3, <2>1, <2>2, <2>4
  <2>. QED
    BY <2>5 DEF u, z
<1>7. CASE step.op = "group" /\ FitsGroup(t, step)
  <2>1. u = State(ApplyGroup(t, step), s.frames, c)
    BY <1>7, ApplyIs
  <2>2. Apply(z, step) = State(ApplyGroup(w, step), s.frames, c)
    BY <1>2, <1>7, ApplyIs
  <2>3. step.node \in Groups /\ step.parent \in Parents /\ step.parent # g /\ g \notin t.members[step.node]
    BY <1>1, <1>7, GroupParent
  <2>4. ApplyGroup(w, step) = WithGroup(ApplyGroup(t, step), g, ms, p)
    BY <1>1, <1>4, <2>3, GroupLate DEF w
  <2>. HIDE DEF u, c
  <2>5. Apply(z, step) = LaterState(u, g, ms, p)
    BY <1>3, <2>1, <2>2, <2>4
  <2>. QED
    BY <2>5 DEF u, z
<1>8. CASE step.op = "ungroup" /\ FitsUngroup(t, step)
  <2>1. u = State(ApplyUngroup(t, step), s.frames, c)
    BY <1>8, ApplyIs
  <2>2. Apply(z, step) = State(ApplyUngroup(w, step), s.frames, c)
    BY <1>2, <1>8, ApplyIs
  <2>3. step.node \in Groups /\ step.parent \in Parents /\ step.parent # g /\ g \notin t.members[step.node]
    BY <1>1, <1>8, UngroupParent
  <2>4. ApplyUngroup(w, step) = WithGroup(ApplyUngroup(t, step), g, ms, p)
    BY <1>1, <1>4, <2>3, UngroupLate DEF w
  <2>. HIDE DEF u, c
  <2>5. Apply(z, step) = LaterState(u, g, ms, p)
    BY <1>3, <2>1, <2>2, <2>4
  <2>. QED
    BY <2>5 DEF u, z
<1>9. CASE step.op = "move" /\ FitsMove(t, step)
  <2>1. u = State(ApplyMove(t, step), s.frames, c)
    BY <1>9, ApplyIs
  <2>2. Apply(z, step) = State(ApplyMove(w, step), s.frames, c)
    BY <1>2, <1>9, ApplyIs
  <2>3. /\ step.next \in Parents /\ step.from \in Parents /\ Lists(step.after) /\ Lists(step.before)
        /\ g \notin DOMAIN step.after
    BY <1>1, <1>9, MoveTyped DEF FitsMove
  <2>4. ApplyMove(w, step) = WithGroup(ApplyMove(t, step), g, ms, p)
    BY <1>1, <1>4, <2>3, MoveLate DEF w
  <2>. HIDE DEF u, c
  <2>5. Apply(z, step) = LaterState(u, g, ms, p)
    BY <1>3, <2>1, <2>2, <2>4
  <2>. QED
    BY <2>5 DEF u, z
<1>10. CASE step.op = "open" /\ FitsOpen(t, step)
  <2>. DEFINE more == Append(s.frames, FrameOf(s, step))
  <2>1. u = State(ApplyOpen(t, step), more, c)
    BY <1>10, ApplyIs
  <2>2. Apply(z, step) = State(ApplyOpen(w, step), Append(s.frames, FrameOf(z, step)), c)
    BY <1>2, <1>10, ApplyIs
  <2>3. FrameOf(z, step) = FrameOf(s, step)
    BY <1>1, <1>2 DEF FrameOf
  <2>4. step.node \in Groups /\ g \notin step.members
    BY <1>1, <1>10 DEF FitsOpen
  <2>5. ApplyOpen(w, step) = WithGroup(ApplyOpen(t, step), g, ms, p)
    BY <1>1, <2>4, OpenLate DEF w
  <2>6. Apply(z, step) = State(WithGroup(ApplyOpen(t, step), g, ms, p), more, c)
    BY <2>2, <2>3, <2>5
  <2>. HIDE DEF u, c, more
  <2>7. Apply(z, step) = LaterState(u, g, ms, p)
    BY <1>3, <2>1, <2>6
  <2>. QED
    BY <2>7 DEF u, z
<1>11. CASE step.op = "close" /\ FitsClose(s, step)
  <2>. DEFINE f == Last(s.frames)
  <2>1. u = State(Exit(t, f, s.stack), Front(s.frames), c)
    BY <1>11, ApplyIs
  <2>2. Apply(z, step) = State(Exit(w, f, s.stack), Front(s.frames), c)
    BY <1>2, <1>11, ApplyIs
  <2>3. f.bound \in Nat /\ f.group \in Groups /\ f.group # g /\ IsSeq(s.stack) /\ Known(s.stack, fr)
    BY <1>11, TopFrame DEF FitsClose, Sound
  <2>. HIDE DEF f
  <2>4. Exit(w, f, s.stack) = WithGroup(Exit(t, f, s.stack), g, ms, p)
    BY <1>1, <2>3, ExitLate DEF w
  <2>. HIDE DEF u, c
  <2>5. Apply(z, step) = LaterState(u, g, ms, p)
    BY <1>3, <2>1, <2>2, <2>4
  <2>. QED
    BY <2>5 DEF u, z
<1>. QED
  BY <1>5, <1>6, <1>7, <1>8, <1>9, <1>10, <1>11 DEF Fits

LEMMA FitsLate ==
  ASSUME NEW s, NEW fr, Sound(s, fr), NEW g \in fr, NEW ms, NEW p, Formed(g, ms, p),
         NEW step, Fits(s, step), step.node \notin fr
  PROVE  Fits(LaterState(s, g, ms, p), step)
<1>. DEFINE t == s.tree  w == WithGroup(t, g, ms, p)  z == LaterState(s, g, ms, p)
<1>1. TreeOk(t, fr)
  BY DEF Sound
<1>2. /\ t \in Trees /\ w \in Trees /\ w.hidden = t.hidden /\ Live(w) = Live(t)
      /\ w.line = t.line /\ TopLevel(w) = TopLevel(t) /\ Live(t) \subseteq Nodes
      /\ g \in t.hidden /\ g \notin Live(t) /\ g \in Groups /\ g # Top
      /\ \A n \in Nodes : n # g => w.parent[n] = t.parent[n]
      /\ \A n \in Live(t) : w.parent[n] = t.parent[n]
      /\ \A h \in Groups : h # g => w.members[h] = t.members[h]
      /\ \A q \in Parents : q # g => Siblings(w, q) = Siblings(t, q)
  BY <1>1, LateFacts
<1>3. z.tree = w /\ z.frames = s.frames /\ z.stack = s.stack
  BY LaterParts
<1>4. step.node # g
  OBVIOUS
<1>5. CASE step.op = "draw" /\ FitsDraw(t, step)
  BY <1>2, <1>3, <1>5 DEF Fits, FitsDraw
<1>6. CASE step.op = "delete" /\ FitsDelete(t, step)
  <2>. HIDE DEF w, z
  <2>1. step.parent \in Parents /\ step.parent # g
    BY <1>1, <1>2, <1>6, TreeFacts, Names DEF FitsDelete
  <2>2. FitsDelete(w, step)
    BY <1>2, <1>6, <2>1 DEF FitsDelete
  <2>3. Fits(z, step)
    BY <1>3, <1>6, <2>2 DEF Fits
  <2>. QED
    BY <2>3 DEF z
<1>7. CASE step.op = "group" /\ FitsGroup(t, step)
  <2>. HIDE DEF w, z
  <2>1. step.parent \in Parents /\ step.parent # g /\ step.node \in Nodes
    BY <1>1, <1>2, <1>7, GroupParent
  <2>2. FitsGroup(w, step)
    BY <1>2, <1>4, <1>7, <2>1 DEF FitsGroup
  <2>3. Fits(z, step)
    BY <1>3, <1>7, <2>2 DEF Fits
  <2>. QED
    BY <2>3 DEF z
<1>8. CASE step.op = "ungroup" /\ FitsUngroup(t, step)
  <2>. HIDE DEF w, z
  <2>1. step.parent \in Parents /\ step.parent # g
    BY <1>1, <1>2, <1>8, UngroupParent
  <2>2. FitsUngroup(w, step)
    BY <1>2, <1>8, <2>1 DEF FitsUngroup
  <2>3. Fits(z, step)
    BY <1>3, <1>8, <2>2 DEF Fits
  <2>. QED
    BY <2>3 DEF z
<1>9. CASE step.op = "move" /\ FitsMove(t, step)
  <2>. HIDE DEF w, z
  <2>1. \A h \in {step.from, step.next} \ {Top} : h \in Groups /\ h # g
    BY <1>1, <1>2, <1>9, MoveTyped DEF FitsMove
  <2>2. \A h \in {step.from, step.next} \ {Top} : w.members[h] = t.members[h]
    BY <1>2, <2>1
  <2>3. [h \in {step.from, step.next} \ {Top} |-> w.members[h]]
          = [h \in {step.from, step.next} \ {Top} |-> t.members[h]]
    BY <2>2
  <2>4. FitsMove(w, step)
    BY <1>2, <1>9, <2>3 DEF FitsMove
  <2>5. Fits(z, step)
    BY <1>3, <1>9, <2>4 DEF Fits
  <2>. QED
    BY <2>5 DEF z
<1>10. CASE step.op = "open" /\ FitsOpen(t, step)
  <2>. HIDE DEF w, z
  <2>1. FitsOpen(w, step)
    BY <1>2, <1>10 DEF FitsOpen
  <2>2. Fits(z, step)
    BY <1>3, <1>10, <2>1 DEF Fits
  <2>. QED
    BY <2>2 DEF z
<1>11. CASE step.op = "close" /\ FitsClose(s, step)
  <2>. DEFINE f == Last(s.frames)
  <2>1. f.bound \in Nat /\ f.group \in Groups /\ f.group # g /\ IsSeq(s.stack) /\ Known(s.stack, fr)
    BY <1>11, TopFrame DEF FitsClose, Sound
  <2>. HIDE DEF f
  <2>2. Folded(w, f, s.stack) = Folded(t, f, s.stack)
    BY <1>2, <2>1, FoldedLate
  <2>3. w.members[f.group] = t.members[f.group]
    BY <1>2, <2>1
  <2>. HIDE DEF w, z
  <2>4. FitsClose(z, step)
    BY <1>3, <1>11, <2>2, <2>3 DEF FitsClose, f
  <2>5. Fits(z, step)
    BY <1>11, <2>4 DEF Fits
  <2>. QED
    BY <2>5 DEF z
<1>. QED
  BY <1>5, <1>6, <1>7, <1>8, <1>9, <1>10, <1>11 DEF Fits

\* A late record of a group shows in no look at the document.
LEMMA LookLate ==
  ASSUME NEW s, NEW fr, Sound(s, fr), NEW g \in fr, NEW ms, NEW p, Formed(g, ms, p)
  PROVE  /\ Look(WithGroup(s.tree, g, ms, p), s.frames, s.stack) = Look(s.tree, s.frames, s.stack)
         /\ Written(SessionClosed(WithGroup(s.tree, g, ms, p), s.frames, s.stack))
              = Written(SessionClosed(s.tree, s.frames, s.stack))
<1>. DEFINE t == s.tree  w == WithGroup(t, g, ms, p)  n == Len(s.frames)
<1>1. t \in Trees /\ g \in t.hidden /\ g \in Groups /\ IsSeq(s.frames) /\ IsSeq(s.stack)
      /\ Known(s.stack, fr) /\ n \in Nat
  <2>1. TreeOk(t, fr) /\ IsSeq(s.frames) /\ IsSeq(s.stack) /\ Known(s.stack, fr)
    BY DEF Sound, FramesOk
  <2>. QED
    BY <2>1, LateFacts, SeqFacts
<1>2. ASSUME NEW x \in Trees, g \in x.hidden
      PROVE  Written(WithGroup(x, g, ms, p)) = Written(x)
  <2>. DEFINE y == WithGroup(x, g, ms, p)
  <2>1. Later(x, y, g, ms, p)
    BY <1>2, LateIs
  <2>. HIDE DEF y
  <2>2. y.line = x.line /\ Live(y) = Live(x) /\ Live(x) \subseteq Nodes /\ g \notin Live(x)
    BY <1>2, <2>1 DEF Later, Live
  <2>3. \A m \in Live(x) : y.parent[m] = x.parent[m]
    BY <2>1, <2>2 DEF Later
  <2>4. {<<m, y.parent[m]>> : m \in Live(y)} = {<<m, x.parent[m]>> : m \in Live(x)}
    BY <2>2, <2>3
  <2>5. Written(y) = Written(x)
    BY <2>2, <2>4 DEF Written
  <2>. QED
    BY <2>5 DEF y
<1>3. PICK a : ClosedBy(t, s.frames, s.stack, a)
  BY <1>1, ClosedIs
<1>4. PICK b : ClosedBy(w, s.frames, s.stack, b)
  BY <1>1, ClosedIs
<1>0. /\ SessionClosed(t, s.frames, s.stack) = a[n] /\ a[0] = t
      /\ \A k \in 1 .. n : a[k] = Exit(a[k - 1], s.frames[n + 1 - k], s.stack)
      /\ SessionClosed(w, s.frames, s.stack) = b[n] /\ b[0] = w
      /\ \A k \in 1 .. n : b[k] = Exit(b[k - 1], s.frames[n + 1 - k], s.stack)
  BY <1>3, <1>4 DEF ClosedBy
<1>. HIDE DEF n
<1>. DEFINE S == {k \in 0 .. n : a[k] \in Trees /\ g \in a[k].hidden /\ b[k] = WithGroup(a[k], g, ms, p)}
<1>5. 0 \in S
  BY <1>1, <1>0
<1>6. ASSUME NEW k \in 0 .. n - 1, k \in S PROVE k + 1 \in S
  <2>. DEFINE f == s.frames[n + 1 - (k + 1)]
  <2>1. k + 1 \in 1 .. n /\ k + 1 - 1 = k /\ n + 1 - (k + 1) \in 1 .. n /\ k + 1 \in 0 .. n
    BY <1>1
  <2>2. f.bound \in Nat /\ f.group \in Groups /\ f.group # g
    BY <2>1, BoundIs DEF n
  <2>3. a[k + 1] = Exit(a[k], f, s.stack) /\ b[k + 1] = Exit(b[k], f, s.stack)
    BY <1>0, <2>1
  <2>4. a[k] \in Trees /\ g \in a[k].hidden /\ b[k] = WithGroup(a[k], g, ms, p)
    BY <1>6
  <2>. HIDE DEF f
  <2>5. /\ Exit(WithGroup(a[k], g, ms, p), f, s.stack) = WithGroup(Exit(a[k], f, s.stack), g, ms, p)
        /\ Exit(a[k], f, s.stack) \in Trees /\ g \in Exit(a[k], f, s.stack).hidden
    BY <1>1, <2>2, <2>4, ExitLate
  <2>. QED
    BY <2>1, <2>3, <2>4, <2>5
<1>. HIDE DEF S
<1>7. n \in S
  <2>1. \A k \in 0 .. n : k \in S
    BY <1>1, <1>5, <1>6, UpTo
  <2>. QED
    BY <1>1, <2>1
<1>8. Written(b[n]) = Written(a[n])
  BY <1>2, <1>7 DEF S
<1>9. Written(w) = Written(t)
  BY <1>1, <1>2
<1>. QED
  BY <1>0, <1>8, <1>9 DEF Look

-----------------------------------------------------------------------------
(* The sessions: what is shown at the top level in a session and is not from*)
(* outside it is the session's own, which every edit keeps so.            *)

\* The groups entered inside the session j of the state s.
Within(s, j) == {s.frames[k].group : k \in j + 1 .. Len(s.frames)}

\* What is at the top level in the session j, or will be once the sessions
\* inside it are left.
Under(s, j) ==
  IF j = Len(s.frames) THEN TopLevel(s.tree)
  ELSE {s.frames[j + 1].group} \cup
         (s.frames[j + 1].outside \cap (Live(s.tree) \cup Within(s, j + 1)))

\* What the close of the session j takes for its own.
Its(s, j) == s.frames[j].members \cup Surfaced(s.tree, s.stack, s.frames[j].bound)

\* The groups that an ungroup of an entry of its own dissolved.
Dissolved(stack) ==
  {stack[i].steps[1].node :
     i \in {k \in 1 .. Len(stack) : stack[k].steps[1].op = "ungroup" /\ ~stack[k].compound}}

\* A session's own is told from what was outside when it opened.
Apart(s) ==
  \A j \in 1 .. Len(s.frames) : \A n \in Under(s, j) :
    n \in Its(s, j) <=> n \notin s.frames[j].outside

\* What was outside stays at the top level as long as it is shown.
Aside(s, fr) ==
  \A j \in 1 .. Len(s.frames) : \A n \in s.frames[j].outside :
    n \in Nodes /\ n \notin fr /\ (n \in Live(s.tree) => s.tree.parent[n] = Top)

\* What is outside a session is outside the sessions in it.
Nested(s) ==
  \A j, k \in 1 .. Len(s.frames) : j < k =>
    \A n \in s.frames[j].outside : n \in Live(s.tree) \cup Within(s, k) => n \in s.frames[k].outside

\* A dissolved group is not shown, nor is it open: its list stays as it is.
Gone(s, fr) ==
  \A n \in Dissolved(s.stack) :
    /\ n \in Groups /\ n \in s.tree.hidden /\ n \notin fr
    /\ \A j \in 1 .. Len(s.frames) : s.frames[j].group # n

Scoped(s, fr) == Apart(s) /\ Aside(s, fr) /\ Nested(s) /\ Gone(s, fr)

\* What an entry surfaces.
Made(e) == UNION {Creates(x) : x \in Stack(e.steps)}
Freed(t, e) ==
  IF e.steps[1].op = "ungroup" /\ ~e.compound THEN t.members[e.steps[1].node] ELSE {}
Adds(t, e) == Made(e) \cup Freed(t, e)

LEMMA SurfacedIs ==
  ASSUME NEW t, NEW stack, NEW b
  PROVE  Surfaced(t, stack, b) = UNION {Adds(t, stack[i]) : i \in b + 1 .. Len(stack)}
BY DEF Surfaced, Adds, Made, Freed

\* The lists of dissolved groups are all that matters of a tree.
SameLists(t, u, stack) == \A n \in Dissolved(stack) : u.members[n] = t.members[n]

LEMMA AddsAlike ==
  ASSUME NEW t, NEW u, NEW stack, NEW i \in 1 .. Len(stack), SameLists(t, u, stack)
  PROVE  Adds(u, stack[i]) = Adds(t, stack[i])
<1>1. CASE stack[i].steps[1].op = "ungroup" /\ ~stack[i].compound
  <2>1. stack[i].steps[1].node \in Dissolved(stack)
    BY <1>1 DEF Dissolved
  <2>. QED BY <1>1, <2>1 DEF Adds, Freed, SameLists
<1>2. CASE ~(stack[i].steps[1].op = "ungroup" /\ ~stack[i].compound)
  BY <1>2 DEF Adds, Freed
<1>. QED BY <1>1, <1>2

\* The stack x is the given one and the entry e.
OneMore(x, stack, e) ==
  /\ Len(stack) \in Nat /\ Len(x) = Len(stack) + 1 /\ x[Len(stack) + 1] = e
  /\ \A i \in 1 .. Len(stack) : x[i] = stack[i]

LEMMA SurfacedGrows ==
  ASSUME NEW t, NEW u, NEW stack, NEW e, NEW b \in 0 .. Len(stack),
         SameLists(t, u, stack), NEW x, OneMore(x, stack, e)
  PROVE  Surfaced(u, x, b) = Surfaced(t, stack, b) \cup Adds(u, e)
<1>. DEFINE n == Len(stack)
<1>1. n \in Nat /\ Len(x) = n + 1 /\ x[n + 1] = e /\ \A i \in 1 .. n : x[i] = stack[i]
  BY DEF OneMore
<1>2. /\ Surfaced(u, x, b) = UNION {Adds(u, x[i]) : i \in b + 1 .. n + 1}
      /\ Surfaced(t, stack, b) = UNION {Adds(t, stack[i]) : i \in b + 1 .. n}
  BY <1>1, SurfacedIs
<1>3. ASSUME NEW i \in 1 .. n
      PROVE  Adds(u, x[i]) = Adds(t, stack[i])
  <2>1. x[i] = stack[i]
    BY <1>1
  <2>2. Adds(u, stack[i]) = Adds(t, stack[i])
    BY AddsAlike
  <2>. QED BY <2>1, <2>2
<1>4. b \in 0 .. n
  OBVIOUS
<1>. HIDE DEF n
<1>5. \A i \in b + 1 .. n + 1 : i = n + 1 \/ (i \in b + 1 .. n /\ i \in 1 .. n)
  BY <1>1, <1>4
<1>6. n + 1 \in b + 1 .. n + 1 /\ \A i \in b + 1 .. n : i \in b + 1 .. n + 1 /\ i \in 1 .. n
  BY <1>1, <1>4
<1>. QED BY <1>1, <1>2, <1>3, <1>5, <1>6

LEMMA AddsOne ==
  ASSUME NEW t, NEW e, NEW step, e.steps = <<step>>, e.compound = Child(step).compound
  PROVE  /\ step.op # "ungroup" => Adds(t, e) = Creates(step)
         /\ step.op = "ungroup" /\ step.lines = {} => Adds(t, e) = t.members[step.node]
<1>1. e.steps[1] = step /\ Stack(e.steps) = {step}
  BY OneStep
<1>2. Made(e) = Creates(step)
  BY <1>1 DEF Made
<1>3. CASE step.op = "ungroup" /\ step.lines = {}
  <2>1. ~Child(step).compound /\ Creates(step) = {}
    BY <1>3 DEF Child, Creates
  <2>2. Freed(t, e) = t.members[step.node]
    BY <1>1, <1>3, <2>1 DEF Freed
  <2>. QED BY <1>2, <1>3, <2>1, <2>2 DEF Adds
<1>4. CASE step.op # "ungroup"
  BY <1>1, <1>2, <1>4 DEF Adds, Freed
<1>. QED BY <1>3, <1>4

LEMMA DissolvedGrows ==
  ASSUME NEW stack, NEW e, NEW step, e.steps = <<step>>, NEW x, OneMore(x, stack, e)
  PROVE  \A n \in Dissolved(x) :
           n \in Dissolved(stack) \/ (n = step.node /\ step.op = "ungroup")
<1>1. /\ Len(stack) \in Nat /\ Len(x) = Len(stack) + 1 /\ x[Len(stack) + 1] = e
      /\ \A i \in 1 .. Len(stack) : x[i] = stack[i]
  BY DEF OneMore
<1>2. e.steps[1] = step
  OBVIOUS
<1>3. SUFFICES ASSUME NEW n \in Dissolved(x)
               PROVE  n \in Dissolved(stack) \/ (n = step.node /\ step.op = "ungroup")
  OBVIOUS
<1>4. PICK i \in 1 .. Len(x) : n = x[i].steps[1].node /\ x[i].steps[1].op = "ungroup" /\ ~x[i].compound
  BY <1>3 DEF Dissolved
<1>5. i = Len(stack) + 1 \/ i \in 1 .. Len(stack)
  BY <1>1
<1>6. CASE i = Len(stack) + 1
  BY <1>1, <1>2, <1>4, <1>6
<1>7. CASE i \in 1 .. Len(stack)
  BY <1>1, <1>4, <1>7 DEF Dissolved
<1>. QED BY <1>5, <1>6, <1>7

\* No step brings back a hidden group other than its own, or changes its list.
LEMMA HiddenKept ==
  ASSUME NEW s, NEW fr, Sound(s, fr), NEW step, Fits(s, step), May(s, step, fr)
  PROVE  HiddenStay(s.tree, Apply(s, step).tree, step.node)
<1>. DEFINE t == s.tree  stack == Append(s.stack, Child(step))  d == Apply(s, step)
<1>1. TreeOk(t, fr)
  BY DEF Sound
<1>2. CASE step.op = "draw"
  <2>1. d.tree = ApplyDraw(t, step)
    BY <1>2, ApplyIs, StateIs
  <2>. QED BY <1>1, <1>2, <2>1, DrawKeeps DEF Fits, May
<1>3. CASE step.op = "delete"
  <2>1. d.tree = ApplyDelete(t, step)
    BY <1>3, ApplyIs, StateIs
  <2>. QED BY <1>1, <1>3, <2>1, DeleteKeeps DEF Fits
<1>4. CASE step.op = "group"
  <2>1. d.tree = ApplyGroup(t, step)
    BY <1>4, ApplyIs, StateIs
  <2>. QED BY <1>1, <1>4, <2>1, GroupKeeps DEF Fits, May
<1>5. CASE step.op = "ungroup"
  <2>1. d.tree = ApplyUngroup(t, step)
    BY <1>5, ApplyIs, StateIs
  <2>. QED BY <1>1, <1>5, <2>1, UngroupKeeps DEF Fits
<1>6. CASE step.op = "move"
  <2>1. d.tree = ApplyMove(t, step)
    BY <1>6, ApplyIs, StateIs
  <2>. QED BY <1>1, <1>6, <2>1, MoveKeeps DEF Fits, May
<1>7. CASE step.op = "open"
  <2>. DEFINE u == ApplyOpen(t, step)
  <2>1. d.tree = u
    <3>. DEFINE frames == Append(s.frames, FrameOf(s, step))
    <3>1. d = State(u, frames, stack)
      BY <1>7, ApplyIs
    <3>. HIDE DEF u, frames, stack, d
    <3>. QED BY <3>1, StateIs
  <2>. HIDE DEF u, d
  <2>2. FitsOpen(t, step)
    BY <1>7 DEF Fits
  <2>. QED BY <1>1, <2>1, <2>2, OpenKeeps DEF u, d
<1>8. CASE step.op = "close"
  <2>. DEFINE f == Last(s.frames)  u == Exit(t, f, s.stack)
  <2>1. d.tree = u
    <3>1. d = State(u, Front(s.frames), stack)
      BY <1>8, ApplyIs
    <3>. HIDE DEF u, stack, d
    <3>. QED BY <3>1, StateIs
  <2>2. FitsClose(s, step)
    BY <1>8 DEF Fits
  <2>3. /\ f.group \in Groups /\ f.group \in t.hidden /\ f.group \notin fr /\ t.parent[f.group] = Top
        /\ Released(s.stack, f.bound) = {} /\ step.node = f.group
    BY <2>2, TopFrame DEF FitsClose
  <2>. HIDE DEF f, d
  <2>. QED BY <1>1, <2>1, <2>3, CloseKeeps DEF d
<1>. QED BY <1>2, <1>3, <1>4, <1>5, <1>6, <1>7, <1>8 DEF Fits

\* The guards of an edit, as far as the sessions depend on them: what it makes
\* or gathers was not outside, a move is made in no session, and an ungroup
\* that released a drawing is not one entry.
Clear(s, step) ==
  /\ \A j \in 1 .. Len(s.frames) : \A n \in s.frames[j].outside :
       n \notin Creates(step) /\ (step.op = "group" => n \notin step.members)
  /\ step.op = "group" => step.node \notin Dissolved(s.stack)
  /\ step.op = "ungroup" => step.lines = {}
  /\ step.op = "move" => s.frames = <<>>

\* What the step did to the lists of the dissolved groups: nothing.
LEMMA GoneStays ==
  ASSUME NEW s, NEW fr, Sound(s, fr), Gone(s, fr), NEW step, Fits(s, step), May(s, step, fr),
         Clear(s, step), NEW e, e.steps = <<step>>, NEW stack, OneMore(stack, s.stack, e)
  PROVE  LET u == Apply(s, step).tree
         IN  /\ \A n \in Dissolved(s.stack) : u.members[n] = s.tree.members[n] /\ n # step.node
             /\ \A n \in Dissolved(stack) :
                  /\ n \in Groups /\ n \in u.hidden /\ n \notin fr
                  /\ \A j \in 1 .. Len(s.frames) : s.frames[j].group # n
                  /\ step.op = "open" => step.node # n
<1>. DEFINE u == Apply(s, step).tree
<1>1. HiddenStay(s.tree, u, step.node)
  BY HiddenKept
<1>2. TreeOk(s.tree, fr) /\ FramesOk(s.tree, s.frames, fr) /\ IsSeq(s.stack)
  BY DEF Sound
<1>3. ASSUME NEW n \in Dissolved(s.stack)
      PROVE  n # step.node
  <2>1. n \in Groups /\ n \in s.tree.hidden /\ \A j \in 1 .. Len(s.frames) : s.frames[j].group # n
    BY <1>3 DEF Gone
  <2>2. CASE step.op = "draw" \/ step.op = "delete"
    BY <2>1, <2>2, Names DEF Fits, FitsDraw, FitsDelete
  <2>3. CASE step.op = "group"
    BY <1>3, <2>3 DEF Clear
  <2>4. CASE step.op = "ungroup" \/ step.op = "move" \/ step.op = "open"
    <3>1. step.node \in Live(s.tree)
      BY <2>4 DEF Fits, FitsUngroup, FitsMove, FitsOpen
    <3>. QED BY <2>1, <3>1 DEF Live
  <2>5. CASE step.op = "close"
    <3>1. s.frames # <<>> /\ step.node = Last(s.frames).group
      BY <2>5 DEF Fits, FitsClose
    <3>2. Len(s.frames) \in 1 .. Len(s.frames) /\ Last(s.frames) = s.frames[Len(s.frames)]
      BY <1>2, <3>1, LastFrame
    <3>. QED BY <2>1, <3>1, <3>2
  <2>. QED BY <2>2, <2>3, <2>4, <2>5 DEF Fits
<1>. HIDE DEF u
<1>4. ASSUME NEW n \in Dissolved(s.stack)
      PROVE  u.members[n] = s.tree.members[n] /\ n \in u.hidden
  BY <1>1, <1>3, <1>4 DEF HiddenStay, Gone
<1>5. ASSUME NEW n \in Dissolved(stack)
      PROVE  /\ n \in Groups /\ n \in u.hidden /\ n \notin fr
             /\ \A j \in 1 .. Len(s.frames) : s.frames[j].group # n
             /\ step.op = "open" => step.node # n
  <2>1. CASE n \in Dissolved(s.stack)
    BY <1>3, <1>4, <2>1 DEF Gone
  <2>2. CASE n = step.node /\ step.op = "ungroup"
    <3>1. FitsUngroup(s.tree, step)
      BY <2>2 DEF Fits
    <3>2. n \in Groups /\ n \in Live(s.tree) /\ n \in Nodes /\ step.parent \in Parents /\ s.tree \in Trees
      BY <1>2, <2>2, <3>1, UngroupParent DEF FitsUngroup
    <3>3. n \notin fr /\ n \notin s.tree.hidden
      BY <2>2, <3>2 DEF May, Live
    <3>4. n \in u.hidden
      <4>1. u = ApplyUngroup(s.tree, step)
        BY <2>2, ApplyIs, StateIs DEF u
      <4>2. u.hidden = s.tree.hidden \cup {step.node}
        BY <2>2, <3>2, <4>1, UngroupIs DEF IsTree
      <4>. QED BY <2>2, <4>2
    <3>5. \A j \in 1 .. Len(s.frames) : s.frames[j].group \in s.tree.hidden
      BY <1>2 DEF FramesOk
    <3>. QED BY <2>2, <3>2, <3>3, <3>4, <3>5
  <2>. QED BY <1>2, <2>1, <2>2, DissolvedGrows
<1>. QED BY <1>3, <1>4, <1>5 DEF u

\* What an edit leaves at the top level it surfaced or found there, and it
\* leaves what was outside the sessions alone.
Shows(s, u, ns) ==
  /\ \A n \in TopLevel(u) : n \in TopLevel(s.tree) \/ n \in ns
  /\ \A j \in 1 .. Len(s.frames) : \A n \in s.frames[j].outside :
       n \notin ns /\ (n \in Live(u) => n \in Live(s.tree) /\ u.parent[n] = Top)

LEMMA DrawShows ==
  ASSUME NEW s, NEW fr, Sound(s, fr), Aside(s, fr), NEW step, FitsDraw(s.tree, step),
         step.op = "draw", Clear(s, step)
  PROVE  Shows(s, ApplyDraw(s.tree, step), Creates(step))
<1>. DEFINE t == s.tree  u == ApplyDraw(t, step)
<1>1. t \in Trees
  BY DEF Sound, TreeOk
<1>2. IsTree(u, t.parent, t.hidden \ {step.node}, t.members, t.line)
  BY <1>1, DrawIs
<1>3. Creates(step) = {step.node}
  BY DEF Creates
<1>. HIDE DEF u
<1>4. \A n \in Live(u) : n \in Live(t) \/ n = step.node
  BY <1>2 DEF IsTree, Live
<1>5. u.parent = t.parent
  BY <1>2 DEF IsTree
<1>6. \A n \in TopLevel(u) : n \in TopLevel(t) \/ n = step.node
  BY <1>4, <1>5 DEF TopLevel
<1>7. ASSUME NEW j \in 1 .. Len(s.frames), NEW n \in s.frames[j].outside
      PROVE  n # step.node /\ (n \in Live(u) => n \in Live(t) /\ u.parent[n] = Top)
  <2>1. n # step.node
    BY <1>3, <1>7 DEF Clear
  <2>. QED BY <1>4, <1>5, <1>7, <2>1 DEF Aside
<1>. QED BY <1>3, <1>6, <1>7 DEF Shows, u

LEMMA DeleteShows ==
  ASSUME NEW s, NEW fr, Sound(s, fr), Aside(s, fr), NEW step, FitsDelete(s.tree, step)
  PROVE  Shows(s, ApplyDelete(s.tree, step), {})
<1>. DEFINE t == s.tree  u == ApplyDelete(t, step)
<1>1. t \in Trees /\ step.node \in Nodes /\ t.parent \in [Nodes -> Parents] /\ step.parent \in Parents
  BY TreeFacts, Names DEF Sound, FitsDelete
<1>2. u.parent = t.parent /\ u.hidden = t.hidden \cup {step.node}
  BY <1>1, DeleteIs DEF IsTree
<1>. HIDE DEF u
<1>3. \A n \in Live(u) : n \in Live(t)
  BY <1>2 DEF Live
<1>. QED BY <1>2, <1>3 DEF Shows, TopLevel, Aside, u

LEMMA GroupShows ==
  ASSUME NEW s, NEW fr, Sound(s, fr), Aside(s, fr), NEW step, FitsGroup(s.tree, step),
         step.op = "group", Clear(s, step)
  PROVE  Shows(s, ApplyGroup(s.tree, step), Creates(step))
<1>. DEFINE t == s.tree  u == ApplyGroup(t, step)  g == step.node
            pa == [Rehomed(t.parent, t.members[g], g) EXCEPT ![g] = step.parent]
<1>1. /\ t \in Trees /\ g \in Groups /\ g \in Nodes /\ step.parent \in Parents /\ g # Top
      /\ t.members[g] = step.members
  BY GroupParent, Names DEF Sound, FitsGroup
<1>2. u.parent = pa /\ u.hidden = t.hidden \ {g}
  BY <1>1, GroupIs DEF IsTree
<1>3. Creates(step) = {g}
  BY DEF Creates
<1>4. \A n \in Nodes : n # g => pa[n] = IF n \in step.members THEN g ELSE t.parent[n]
  BY <1>1 DEF Rehomed
<1>. HIDE DEF u, pa
<1>5. \A n \in Live(u) : n \in Nodes /\ (n \in Live(t) \/ n = g)
  BY <1>2 DEF Live
<1>6. \A n \in TopLevel(u) : n \in TopLevel(t) \/ n = g
  BY <1>1, <1>2, <1>4, <1>5 DEF TopLevel
<1>7. ASSUME NEW j \in 1 .. Len(s.frames), NEW n \in s.frames[j].outside
      PROVE  n # g /\ (n \in Live(u) => n \in Live(t) /\ u.parent[n] = Top)
  <2>1. n # g /\ n \notin step.members
    BY <1>3, <1>7 DEF Clear
  <2>. QED BY <1>2, <1>4, <1>5, <1>7, <2>1 DEF Aside
<1>. QED BY <1>3, <1>6, <1>7 DEF Shows, u

LEMMA UngroupShows ==
  ASSUME NEW s, NEW fr, Sound(s, fr), Aside(s, fr), NEW step, FitsUngroup(s.tree, step)
  PROVE  LET u == ApplyUngroup(s.tree, step)
         IN  Shows(s, u, u.members[step.node])
<1>. DEFINE t == s.tree  u == ApplyUngroup(t, step)  g == step.node  ms == t.members[g]
<1>1. /\ t \in Trees /\ g \in Groups /\ g \in Nodes /\ step.parent \in Parents /\ g # Top
      /\ step.parent # g /\ ms = {n \in Live(t) : t.parent[n] = g}
      /\ t.members \in [Groups -> SUBSET Nodes]
  BY UngroupParent, TreeFacts, Names DEF Sound
<1>2. /\ u.parent = Rehomed(t.parent, ms, step.parent) /\ u.hidden = t.hidden \cup {g}
      /\ u.members = IF step.parent = Top THEN t.members ELSE Spliced(t.members, step.parent, g, ms)
  BY <1>1, UngroupIs DEF IsTree
<1>3. u.members[g] = ms
  BY <1>1, <1>2 DEF Spliced
<1>. HIDE DEF u, ms
<1>4. \A n \in Live(u) : n \in Nodes /\ n \in Live(t)
  BY <1>2 DEF Live
<1>5. \A n \in Nodes : n \notin ms => u.parent[n] = t.parent[n]
  BY <1>2 DEF Rehomed
<1>6. \A n \in TopLevel(u) : n \in TopLevel(t) \/ n \in ms
  BY <1>4, <1>5 DEF TopLevel
<1>7. ASSUME NEW j \in 1 .. Len(s.frames), NEW n \in s.frames[j].outside
      PROVE  n \notin ms /\ (n \in Live(u) => n \in Live(t) /\ u.parent[n] = Top)
  <2>1. n \in Live(t) => t.parent[n] = Top
    BY <1>7 DEF Aside
  <2>2. n \notin ms
    BY <1>1, <2>1
  <2>. QED BY <1>4, <1>5, <2>1, <2>2
<1>. QED BY <1>3, <1>6, <1>7 DEF Shows, u

\* The sessions of a document in which an edit surfaced these nodes.
LEMMA ScopedStays ==
  ASSUME NEW s, NEW fr, Scoped(s, fr), NEW d, NEW ns, d.frames = s.frames, IsSeq(s.frames),
         Shows(s, d.tree, ns), Gone(d, fr),
         \A j \in 1 .. Len(s.frames) : Its(d, j) = Its(s, j) \cup ns
  PROVE  Scoped(d, fr)
<1>. DEFINE m == Len(s.frames)  f == s.frames
<1>1. m \in Nat
  BY SeqFacts
<1>2. \A j \in 1 .. m : Within(d, j) = Within(s, j)
  BY DEF Within
<1>3. ASSUME NEW j \in 1 .. m, NEW n \in Under(d, j)
      PROVE  n \in Under(s, j) \/ n \in ns
  <2>1. CASE j = m
    BY <1>3, <2>1 DEF Under, Shows
  <2>2. CASE j # m
    <3>1. j + 1 \in 1 .. m
      BY <1>1, <2>2
    <3>2. n = f[j + 1].group \/ (n \in f[j + 1].outside /\ (n \in Live(d.tree) \/ n \in Within(d, j + 1)))
      BY <1>3, <2>2 DEF Under
    <3>3. n = f[j + 1].group \/ (n \in f[j + 1].outside /\ (n \in Live(s.tree) \/ n \in Within(s, j + 1)))
      BY <1>2, <3>1, <3>2 DEF Shows
    <3>. QED BY <2>2, <3>3 DEF Under
  <2>. QED BY <2>1, <2>2
<1>4. Apart(d)
  <2>1. SUFFICES ASSUME NEW j \in 1 .. m, NEW n \in Under(d, j)
                 PROVE  n \in Its(d, j) <=> n \notin f[j].outside
    BY DEF Apart
  <2>2. n \in Under(s, j) => (n \in Its(s, j) <=> n \notin f[j].outside)
    BY DEF Scoped, Apart
  <2>3. n \in ns => n \notin f[j].outside
    BY DEF Shows
  <2>. QED BY <1>3, <2>2, <2>3
<1>5. Aside(d, fr)
  BY DEF Scoped, Aside, Shows
<1>6. Nested(d)
  <2>1. SUFFICES ASSUME NEW j \in 1 .. m, NEW k \in 1 .. m, j < k, NEW n \in f[j].outside,
                        n \in Live(d.tree) \cup Within(d, k)
                 PROVE  n \in f[k].outside
    BY DEF Nested
  <2>2. n \in Live(s.tree) \cup Within(s, k)
    BY <1>2, <2>1 DEF Shows
  <2>. QED BY <2>1, <2>2 DEF Scoped, Nested
<1>. QED BY <1>4, <1>5, <1>6 DEF Scoped

\* A session that opens takes for its own the group's members, and what was
\* at the top level beside the group is outside.
LEMMA ScopedOpens ==
  ASSUME NEW s, NEW fr, Sound(s, fr), Scoped(s, fr), NEW step, FitsOpen(s.tree, step), NEW d,
         d.tree = ApplyOpen(s.tree, step), d.frames = Append(s.frames, FrameOf(s, step)),
         Gone(d, fr), Surfaced(d.tree, d.stack, Len(s.stack) + 1) = {},
         \A j \in 1 .. Len(s.frames) :
           Surfaced(d.tree, d.stack, s.frames[j].bound)
             = Surfaced(s.tree, s.stack, s.frames[j].bound)
  PROVE  Scoped(d, fr)
<1>. DEFINE t == s.tree  u == d.tree  m == Len(s.frames)  f == s.frames  h == d.frames
            g == step.node  ms == step.members  top == FrameOf(s, step)
<1>1. TreeOk(t, fr) /\ IsSeq(f)
  BY DEF Sound, FramesOk
<1>2. /\ t \in Trees /\ Live(t) \subseteq Nodes /\ g \in Groups /\ g \in Live(t) /\ t.parent[g] = Top
      /\ ms = {n \in Live(t) : t.parent[n] = g} /\ g # Top /\ \A n \in Live(t) : n \notin fr
  <2>1. g \in Groups /\ g \in Live(t) /\ t.parent[g] = Top /\ ms = t.members[g]
    BY DEF FitsOpen
  <2>2. \A n \in Live(t) : n \notin fr /\ n \in Nodes
    BY <1>1 DEF TreeOk, Live
  <2>. QED BY <1>1, <2>1, <2>2, Names DEF TreeOk
<1>3. u.parent = Rehomed(t.parent, ms, Top) /\ u.hidden = t.hidden \cup {g}
  <2>1. IsTree(ApplyOpen(t, step), Rehomed(t.parent, ms, Top), t.hidden \cup {g}, t.members, t.line)
    BY <1>2, OpenIs
  <2>2. u = ApplyOpen(t, step)
    OBVIOUS
  <2>. HIDE DEF u
  <2>. QED BY <2>1, <2>2 DEF IsTree
<1>4. /\ m \in Nat /\ Len(h) = m + 1 /\ h[m + 1] = top /\ \A j \in 1 .. m : h[j] = f[j]
  BY <1>1, AppendFacts, SeqFacts
<1>5. top.group = g /\ top.members = ms /\ top.bound = Len(s.stack) + 1 /\ top.outside = TopLevel(t) \ {g}
  BY DEF FrameOf
<1>6. Live(u) = Live(t) \ {g} /\ g \notin ms
  BY <1>2, <1>3, Names DEF Live
<1>7. \A n \in Live(t) : u.parent[n] = IF n \in ms THEN Top ELSE t.parent[n]
  BY <1>2, <1>3 DEF Rehomed
<1>. HIDE DEF u, h, top, m, t
<1>8. TopLevel(u) = (TopLevel(t) \ {g}) \cup ms
  BY <1>2, <1>6, <1>7 DEF TopLevel
<1>9. Within(d, m + 1) = {} /\ \A j \in 1 .. m : Within(d, j) = Within(s, j) \cup {g}
  <2>1. Within(d, m + 1) = {}
    BY <1>4 DEF Within, h
  <2>2. ASSUME NEW j \in 1 .. m
        PROVE  Within(d, j) = Within(s, j) \cup {g}
    <3>1. \A k \in j + 1 .. m + 1 : k = m + 1 \/ (k \in j + 1 .. m /\ k \in 1 .. m)
      BY <1>4
    <3>2. m + 1 \in j + 1 .. m + 1 /\ \A k \in j + 1 .. m : k \in j + 1 .. m + 1 /\ k \in 1 .. m
      BY <1>4
    <3>3. Within(d, j) = {h[k].group : k \in j + 1 .. m + 1}
      BY <1>4 DEF Within, h
    <3>4. Within(s, j) = {f[k].group : k \in j + 1 .. m}
      BY DEF Within, m
    <3>. QED BY <1>4, <1>5, <3>1, <3>2, <3>3, <3>4
  <2>. QED BY <2>1, <2>2
<1>10. /\ Its(d, m + 1) = ms /\ \A j \in 1 .. m : Its(d, j) = Its(s, j)
  <2>1. Its(d, m + 1) = ms
    BY <1>4, <1>5 DEF Its, h, u
  <2>2. \A j \in 1 .. m : Its(d, j) = Its(s, j)
    BY <1>4 DEF Its, h, u, m
  <2>. QED BY <2>1, <2>2
<1>11. Under(d, m + 1) = TopLevel(u)
  BY <1>4 DEF Under, h, u
<1>12. ASSUME NEW j \in 1 .. m, NEW n \in Under(d, j)
       PROVE  n \in Under(s, j)
  <2>1. j + 1 \in 1 .. m + 1 /\ j # m + 1
    BY <1>4
  <2>2. n = h[j + 1].group \/ (n \in h[j + 1].outside /\ (n \in Live(u) \/ n \in Within(d, j + 1)))
    BY <1>4, <1>12, <2>1 DEF Under, h, u
  <2>3. CASE j = m
    <3>1. n \in TopLevel(t)
      BY <1>2, <1>4, <1>5, <2>2, <2>3 DEF TopLevel
    <3>. QED BY <2>3, <3>1 DEF Under, t, m
  <2>4. CASE j # m
    <3>1. j + 1 \in 1 .. m
      BY <1>4, <2>4
    <3>2. n = f[j + 1].group \/ (n \in f[j + 1].outside /\ (n \in Live(t) \/ n \in Within(s, j + 1)))
      BY <1>2, <1>4, <1>6, <1>9, <2>2, <3>1
    <3>. QED BY <2>4, <3>2 DEF Under, t, m
  <2>. QED BY <2>3, <2>4
<1>13. Apart(d)
  <2>1. ASSUME NEW j \in 1 .. m + 1, NEW n \in Under(d, j)
        PROVE  n \in Its(d, j) <=> n \notin h[j].outside
    <3>1. CASE j = m + 1
      <4>1. n \in ms => n \notin TopLevel(t)
        BY <1>2 DEF TopLevel
      <4>. QED BY <1>4, <1>5, <1>8, <1>10, <1>11, <2>1, <3>1, <4>1
    <3>2. CASE j # m + 1
      <4>1. j \in 1 .. m
        BY <1>4, <3>2
      <4>2. n \in Its(s, j) <=> n \notin f[j].outside
        BY <1>12, <2>1, <4>1 DEF Scoped, Apart, m
      <4>. QED BY <1>4, <1>10, <4>1, <4>2
    <3>. QED BY <3>1, <3>2
  <2>. QED BY <1>4, <2>1 DEF Apart, h
<1>14. Aside(d, fr)
  <2>1. ASSUME NEW j \in 1 .. m + 1, NEW n \in h[j].outside
        PROVE  n \in Nodes /\ n \notin fr /\ (n \in Live(u) => u.parent[n] = Top)
    <3>1. CASE j = m + 1
      <4>1. n \in Live(t) /\ t.parent[n] = Top
        BY <1>4, <1>5, <2>1, <3>1 DEF TopLevel
      <4>. QED BY <1>2, <1>7, <4>1
    <3>2. CASE j # m + 1
      <4>1. j \in 1 .. m
        BY <1>4, <3>2
      <4>2. n \in Nodes /\ n \notin fr /\ (n \in Live(t) => t.parent[n] = Top)
        BY <1>4, <2>1, <4>1 DEF Scoped, Aside, m, t
      <4>. QED BY <1>6, <1>7, <4>2
    <3>. QED BY <3>1, <3>2
  <2>. QED BY <1>4, <2>1 DEF Aside, h, u
<1>15. Nested(d)
  <2>1. ASSUME NEW j \in 1 .. m + 1, NEW k \in 1 .. m + 1, j < k, NEW n \in h[j].outside,
               n \in Live(u) \cup Within(d, k)
        PROVE  n \in h[k].outside
    <3>1. j \in 1 .. m /\ n \in f[j].outside
      BY <1>4, <2>1
    <3>2. CASE k = m + 1
      <4>1. n \in Live(t) /\ n # g
        BY <1>6, <1>9, <2>1, <3>2
      <4>2. t.parent[n] = Top
        BY <3>1, <4>1 DEF Scoped, Aside, m, t
      <4>. QED BY <1>4, <1>5, <3>2, <4>1, <4>2 DEF TopLevel
    <3>3. CASE k # m + 1
      <4>1. k \in 1 .. m
        BY <1>4, <3>3
      <4>2. n \in Live(t) \cup Within(s, k)
        BY <1>2, <1>6, <1>9, <2>1, <4>1
      <4>3. n \in f[k].outside
        BY <2>1, <3>1, <4>1, <4>2 DEF Scoped, Nested, m, t
      <4>. QED BY <1>4, <4>1, <4>3
    <3>. QED BY <3>2, <3>3
  <2>. QED BY <1>4, <2>1 DEF Nested, h, u
<1>. QED BY <1>13, <1>14, <1>15 DEF Scoped

\* A close leaves at the top level what was outside, and the group.
LEMMA CloseShows ==
  ASSUME NEW s, NEW fr, Sound(s, fr), Apart(s), s.frames # <<>>
  PROVE  LET f == Last(s.frames)
             u == Exit(s.tree, f, s.stack)
         IN  /\ TopLevel(u) \ {f.group} = TopLevel(s.tree) \cap f.outside
             /\ \A n \in Live(u) : n \in Live(s.tree) \/ n = f.group
             /\ f.group \in Nodes /\ f.group \notin Live(s.tree) /\ u.parent[f.group] = Top
             /\ \A n \in TopLevel(s.tree) \cap f.outside : u.parent[n] = Top
<1>. DEFINE t == s.tree  m == Len(s.frames)  f == Last(s.frames)  g == f.group
            ms == Folded(t, f, s.stack)  u == Exit(t, f, s.stack)
<1>1. TreeOk(t, fr) /\ FramesOk(t, s.frames, fr)
  BY DEF Sound
<1>2. t \in Trees /\ g \in Groups /\ g \in Nodes /\ g \in t.hidden /\ t.parent[g] = Top /\ g # Top
      /\ Live(t) \subseteq Nodes
  BY <1>1, TopFrame, Names DEF TreeOk, Live
<1>3. m \in 1 .. m /\ f = s.frames[m]
  BY <1>1, LastFrame
<1>4. Its(s, m) = f.members \cup Surfaced(t, s.stack, f.bound) /\ Under(s, m) = TopLevel(t)
  BY <1>3 DEF Its, Under
<1>5. \A n \in TopLevel(t) : n \in Its(s, m) <=> n \notin f.outside
  BY <1>3, <1>4 DEF Apart
<1>6. ms = TopLevel(t) \ f.outside
  BY <1>4, <1>5 DEF Folded
<1>7. u.parent = Rehomed(t.parent, ms, g) /\ (u.hidden = t.hidden \/ u.hidden = t.hidden \ {g})
  BY <1>2, ExitIs DEF IsTree
<1>. HIDE DEF u, ms, f, t
<1>8. \A n \in Nodes : u.parent[n] = IF n \in ms THEN g ELSE t.parent[n]
  BY <1>7 DEF Rehomed
<1>9. g \notin Live(t) /\ g \notin ms /\ (Live(u) = Live(t) \/ Live(u) = Live(t) \cup {g})
  BY <1>2, <1>6, <1>7 DEF Live, TopLevel
<1>10. TopLevel(u) \ {g} = TopLevel(t) \cap f.outside
  BY <1>2, <1>6, <1>8, <1>9 DEF TopLevel
<1>11. \A n \in TopLevel(t) \cap f.outside : u.parent[n] = Top
  BY <1>2, <1>6, <1>8 DEF TopLevel
<1>. QED BY <1>2, <1>8, <1>9, <1>10, <1>11 DEF u, f, t

LEMMA ScopedCloses ==
  ASSUME NEW s, NEW fr, Sound(s, fr), Scoped(s, fr), s.frames # <<>>, NEW d,
         d.tree = Exit(s.tree, Last(s.frames), s.stack), d.frames = Front(s.frames),
         Gone(d, fr),
         \A j \in 1 .. Len(s.frames) :
           Surfaced(d.tree, d.stack, s.frames[j].bound)
             = Surfaced(s.tree, s.stack, s.frames[j].bound)
  PROVE  Scoped(d, fr)
<1>. DEFINE t == s.tree  u == d.tree  m == Len(s.frames)  f == s.frames  h == d.frames
            last == Last(f)  g == last.group
<1>1. FramesOk(t, f, fr) /\ IsSeq(f) /\ TreeOk(t, fr) /\ Apart(s)
  BY DEF Sound, FramesOk, Scoped
<1>2. m \in Nat /\ m >= 1 /\ last = f[m] /\ Len(h) = m - 1 /\ \A j \in 1 .. m - 1 : h[j] = f[j]
  <2>1. m \in Nat /\ m >= 1 /\ last = f[m]
    BY <1>1, LastFrame, SeqFacts
  <2>2. Len(h) = m - 1 /\ \A j \in 1 .. m - 1 : h[j] = f[j]
    BY <1>1, FrontFacts
  <2>. QED BY <2>1, <2>2
<1>3. /\ TopLevel(u) \ {g} = TopLevel(t) \cap last.outside
      /\ \A n \in Live(u) : n \in Live(t) \/ n = g
      /\ g \in Nodes /\ g \notin Live(t) /\ u.parent[g] = Top
      /\ \A n \in TopLevel(t) \cap last.outside : u.parent[n] = Top
  BY <1>1, CloseShows
<1>. HIDE DEF u, h, last, m, t, f
<1>4. \A j \in 1 .. m - 1 : Within(s, j) = Within(d, j) \cup {g}
  <2>1. ASSUME NEW j \in 1 .. m - 1
        PROVE  Within(s, j) = Within(d, j) \cup {g}
    <3>1. \A k \in j + 1 .. m : k = m \/ (k \in j + 1 .. m - 1 /\ k \in 1 .. m - 1)
      BY <1>2
    <3>2. m \in j + 1 .. m /\ \A k \in j + 1 .. m - 1 : k \in j + 1 .. m /\ k \in 1 .. m - 1
      BY <1>2
    <3>3. Within(d, j) = {h[k].group : k \in j + 1 .. m - 1}
      BY <1>2 DEF Within, h
    <3>4. Within(s, j) = {f[k].group : k \in j + 1 .. m}
      BY DEF Within, m, f
    <3>. QED BY <1>2, <3>1, <3>2, <3>3, <3>4
  <2>. QED BY <2>1
<1>5. Within(s, m) = {}
  BY <1>2 DEF Within, m
<1>6. ASSUME NEW j \in 1 .. m - 1, NEW n \in Under(d, j)
      PROVE  n \in Under(s, j)
  <2>1. j # m /\ j + 1 \in 1 .. m
    BY <1>2
  <2>2. SUFFICES n = f[j + 1].group \/ (n \in f[j + 1].outside /\ (n \in Live(t) \/ n \in Within(s, j + 1)))
    BY <2>1 DEF Under, t, f, m
  <2>3. CASE j = m - 1
    <3>1. n \in TopLevel(u) /\ j + 1 = m
      BY <1>2, <1>6, <2>3 DEF Under, h, u
    <3>2. n = g \/ n \in TopLevel(t) \cap last.outside
      BY <1>3, <3>1
    <3>. QED BY <1>2, <3>1, <3>2 DEF TopLevel
  <2>4. CASE j # m - 1
    <3>1. j + 1 \in 1 .. m - 1
      BY <1>2, <2>4
    <3>2. n = h[j + 1].group \/ (n \in h[j + 1].outside /\ (n \in Live(u) \/ n \in Within(d, j + 1)))
      BY <1>2, <1>6, <2>4 DEF Under, h, u
    <3>. QED BY <1>2, <1>3, <1>4, <3>1, <3>2
  <2>. QED BY <2>3, <2>4
<1>7. Apart(d)
  <2>1. ASSUME NEW j \in 1 .. m - 1, NEW n \in Under(d, j)
        PROVE  n \in Its(d, j) <=> n \notin h[j].outside
    <3>1. j \in 1 .. m /\ n \in Under(s, j)
      BY <1>2, <1>6, <2>1
    <3>2. n \in Its(s, j) <=> n \notin f[j].outside
      BY <1>1, <3>1 DEF Apart, m, f
    <3>3. Its(d, j) = Its(s, j)
      BY <1>2, <3>1 DEF Its, h, u, m, f
    <3>. QED BY <1>2, <3>2, <3>3
  <2>. QED BY <1>2, <2>1 DEF Apart, h
<1>8. ASSUME NEW j \in 1 .. m - 1, NEW n \in h[j].outside
      PROVE  /\ n \in Nodes /\ n \notin fr /\ n \in f[j].outside
             /\ n \in Live(u) => u.parent[n] = Top
  <2>1. j \in 1 .. m /\ m \in 1 .. m /\ j < m /\ n \in f[j].outside
    BY <1>2
  <2>2. n \in Nodes /\ n \notin fr /\ (n \in Live(t) => t.parent[n] = Top)
    BY <2>1 DEF Scoped, Aside, m, t, f
  <2>3. n \in Live(t) => n \in f[m].outside
    BY <2>1 DEF Scoped, Nested, m, t, f
  <2>. QED BY <1>2, <1>3, <2>1, <2>2, <2>3 DEF TopLevel
<1>9. Aside(d, fr)
  BY <1>2, <1>8 DEF Aside, h, u
<1>10. Nested(d)
  <2>1. ASSUME NEW j \in 1 .. m - 1, NEW k \in 1 .. m - 1, j < k, NEW n \in h[j].outside,
               n \in Live(u) \cup Within(d, k)
        PROVE  n \in h[k].outside
    <3>1. j \in 1 .. m /\ k \in 1 .. m /\ n \in f[j].outside
      BY <1>2, <2>1
    <3>2. n \in Live(t) \cup Within(s, k)
      BY <1>3, <1>4, <2>1
    <3>3. n \in f[k].outside
      BY <2>1, <3>1, <3>2 DEF Scoped, Nested, m, t, f
    <3>. QED BY <1>2, <3>3
  <2>. QED BY <1>2, <2>1 DEF Nested, h, u
<1>. QED BY <1>7, <1>9, <1>10 DEF Scoped

\* An entry of one step keeps the sessions apart, if the edit's guards held.
LEMMA ScopedStep ==
  ASSUME NEW s, NEW fr, Sound(s, fr), Scoped(s, fr), NEW step, Fits(s, step), May(s, step, fr),
         Clear(s, step), NEW e, e.steps = <<step>>, e.compound = Child(step).compound
  PROVE  LET d == Apply(s, step)
         IN  Scoped(State(d.tree, d.frames, Append(s.stack, e)), fr)
<1>. DEFINE t == s.tree  f == s.frames  d == Apply(s, step)  u == d.tree
            stack == Append(s.stack, e)  z == State(u, d.frames, stack)
<1>. SUFFICES Scoped(z, fr)
  OBVIOUS
<1>1. /\ TreeOk(t, fr) /\ FramesOk(t, f, fr) /\ IsSeq(s.stack) /\ IsSeq(f)
      /\ Len(s.stack) \in Nat /\ Gone(s, fr)
  BY SeqFacts DEF Sound, FramesOk, Scoped
<1>2. z.tree = u /\ z.frames = d.frames /\ z.stack = stack
  <2>. HIDE DEF d, u, stack
  <2>. QED BY StateIs
<1>4. OneMore(stack, s.stack, e)
  BY <1>1, AppendFacts DEF OneMore
<1>. HIDE DEF stack
<1>3. /\ \A n \in Dissolved(s.stack) : u.members[n] = t.members[n] /\ n # step.node
      /\ \A n \in Dissolved(stack) :
           /\ n \in Groups /\ n \in u.hidden /\ n \notin fr
           /\ \A j \in 1 .. Len(f) : f[j].group # n
           /\ step.op = "open" => step.node # n
  <2>1. Gone(s, fr)
    BY <1>1
  <2>. QED BY <1>4, <2>1, GoneStays
<1>5. \A j \in 1 .. Len(f) : f[j].bound \in 0 .. Len(s.stack)
  BY BoundIs
<1>6. \A b \in 0 .. Len(s.stack) : Surfaced(u, stack, b) = Surfaced(t, s.stack, b) \cup Adds(u, e)
  <2>1. SameLists(t, u, s.stack)
    BY <1>3 DEF SameLists
  <2>. HIDE DEF u
  <2>. QED BY <1>4, <2>1, SurfacedGrows
<1>7. step.op # "ungroup" => Adds(u, e) = Creates(step)
  BY AddsOne
<1>. HIDE DEF z
<1>8. ASSUME d.frames = f
      PROVE  Gone(z, fr) /\ \A j \in 1 .. Len(f) : Its(z, j) = Its(s, j) \cup Adds(u, e)
  <2>1. Gone(z, fr)
    BY <1>2, <1>3, <1>8 DEF Gone
  <2>2. \A j \in 1 .. Len(f) : Surfaced(u, stack, f[j].bound) = Surfaced(t, s.stack, f[j].bound) \cup Adds(u, e)
    BY <1>5, <1>6
  <2>. QED BY <1>2, <1>8, <2>1, <2>2 DEF Its
<1>9. ASSUME d.frames = f, Shows(s, u, Adds(u, e))
      PROVE  Scoped(z, fr)
  <2>. HIDE DEF d, u
  <2>. QED BY <1>1, <1>2, <1>8, <1>9, ScopedStays
<1>10. CASE step.op = "draw" /\ FitsDraw(t, step)
  <2>1. u = ApplyDraw(t, step) /\ d.frames = f
    BY <1>10, ApplyIs, StateIs
  <2>2. Shows(s, ApplyDraw(t, step), Creates(step))
    BY <1>10, DrawShows DEF Scoped
  <2>. QED BY <1>7, <1>9, <1>10, <2>1, <2>2
<1>11. CASE step.op = "delete" /\ FitsDelete(t, step)
  <2>1. u = ApplyDelete(t, step) /\ d.frames = f
    BY <1>11, ApplyIs, StateIs
  <2>2. Shows(s, ApplyDelete(t, step), {}) /\ Creates(step) = {}
    BY <1>11, DeleteShows DEF Scoped, Creates
  <2>. QED BY <1>7, <1>9, <1>11, <2>1, <2>2
<1>12. CASE step.op = "group" /\ FitsGroup(t, step)
  <2>1. u = ApplyGroup(t, step) /\ d.frames = f
    BY <1>12, ApplyIs, StateIs
  <2>2. Shows(s, ApplyGroup(t, step), Creates(step))
    BY <1>12, GroupShows DEF Scoped
  <2>. QED BY <1>7, <1>9, <1>12, <2>1, <2>2
<1>13. CASE step.op = "ungroup" /\ FitsUngroup(t, step)
  <2>1. u = ApplyUngroup(t, step) /\ d.frames = f
    BY <1>13, ApplyIs, StateIs
  <2>2. Shows(s, ApplyUngroup(t, step), ApplyUngroup(t, step).members[step.node])
    BY <1>13, UngroupShows DEF Scoped
  <2>3. Adds(u, e) = u.members[step.node]
    BY <1>13, AddsOne DEF Clear
  <2>. QED BY <1>9, <2>1, <2>2, <2>3
<1>14. CASE step.op = "move" /\ FitsMove(t, step)
  <2>1. d.frames = f /\ f = <<>>
    BY <1>14, ApplyIs, StateIs DEF Clear
  <2>2. Len(z.frames) = 0
    BY <1>2, <2>1
  <2>3. \A j \in 1 .. Len(z.frames) : FALSE
    BY <2>2
  <2>4. Gone(z, fr)
    BY <1>8, <2>1
  <2>. QED BY <2>3, <2>4 DEF Scoped, Apart, Aside, Nested
<1>15. CASE step.op = "open" /\ FitsOpen(t, step)
  <2>. DEFINE h == Append(f, FrameOf(s, step))
  <2>1. u = ApplyOpen(t, step) /\ d.frames = h
    <3>1. d = State(ApplyOpen(t, step), h, Append(s.stack, Child(step)))
      BY <1>15, ApplyIs
    <3>. HIDE DEF d, h
    <3>. QED BY <3>1, StateIs
  <2>2. Adds(u, e) = {}
    BY <1>7, <1>15 DEF Creates
  <2>3. \A j \in 1 .. Len(f) : Surfaced(u, stack, f[j].bound) = Surfaced(t, s.stack, f[j].bound)
    BY <1>5, <1>6, <2>2
  <2>4. Surfaced(u, stack, Len(s.stack) + 1) = {}
    <3>1. Len(s.stack) + 1 + 1 .. Len(stack) = {}
      BY <1>1, <1>4 DEF OneMore
    <3>2. Surfaced(u, stack, Len(s.stack) + 1)
            = UNION {Adds(u, stack[i]) : i \in Len(s.stack) + 1 + 1 .. Len(stack)}
      BY SurfacedIs
    <3>. QED BY <3>1, <3>2
  <2>5. Gone(z, fr)
    <3>1. \A j \in 1 .. Len(h) : (j \in 1 .. Len(f) /\ h[j] = f[j]) \/ h[j].group = step.node
      <4>1. /\ Len(f) \in Nat /\ Len(h) = Len(f) + 1 /\ h[Len(f) + 1] = FrameOf(s, step)
            /\ \A j \in 1 .. Len(f) : h[j] = f[j]
        BY <1>1, AppendFacts, SeqFacts
      <4>2. FrameOf(s, step).group = step.node
        BY DEF FrameOf
      <4>. HIDE DEF h
      <4>. QED BY <4>1, <4>2
    <3>. HIDE DEF h
    <3>. QED BY <1>2, <1>3, <1>15, <2>1, <3>1 DEF Gone
  <2>. HIDE DEF d, u
  <2>. QED BY <1>2, <1>15, <2>1, <2>3, <2>4, <2>5, ScopedOpens
<1>16. CASE step.op = "close" /\ FitsClose(s, step)
  <2>1. u = Exit(t, Last(f), s.stack) /\ d.frames = Front(f)
    <3>1. d = State(Exit(t, Last(f), s.stack), Front(f), Append(s.stack, Child(step)))
      BY <1>16, ApplyIs
    <3>. HIDE DEF d
    <3>. QED BY <3>1, StateIs
  <2>2. Adds(u, e) = {}
    BY <1>7, <1>16 DEF Creates
  <2>3. \A j \in 1 .. Len(f) : Surfaced(u, stack, f[j].bound) = Surfaced(t, s.stack, f[j].bound)
    BY <1>5, <1>6, <2>2
  <2>4. f # <<>>
    BY <1>16 DEF FitsClose
  <2>5. Gone(z, fr)
    <3>1. \A j \in 1 .. Len(Front(f)) : j \in 1 .. Len(f) /\ Front(f)[j] = f[j]
      <4>1. /\ Len(f) \in Nat /\ Len(Front(f)) = Len(f) - 1
            /\ \A j \in 1 .. Len(f) - 1 : Front(f)[j] = f[j]
        BY <1>1, <2>4, FrontFacts, SeqFacts
      <4>. QED BY <4>1
    <3>. QED BY <1>2, <1>3, <2>1, <3>1 DEF Gone
  <2>. HIDE DEF d, u
  <2>. QED BY <1>2, <2>1, <2>3, <2>4, <2>5, ScopedCloses
<1>. HIDE DEF d, u
<1>. QED
  BY <1>10, <1>11, <1>12, <1>13, <1>14, <1>15, <1>16 DEF Fits

\* Fewer nodes are fresh, and a late record of a group: the same sessions.
LEMMA ScopedShrinks ==
  ASSUME NEW s, NEW fr, Scoped(s, fr), NEW less \in SUBSET fr
  PROVE  Scoped(s, less)
BY DEF Scoped, Aside, Gone

LEMMA ScopedLate ==
  ASSUME NEW s, NEW fr, Sound(s, fr), Scoped(s, fr), NEW g \in fr, NEW ms, NEW p,
         Formed(g, ms, p)
  PROVE  Scoped(LaterState(s, g, ms, p), fr \ {g})
<1>. DEFINE t == s.tree  w == WithGroup(t, g, ms, p)  z == LaterState(s, g, ms, p)
<1>1. z.tree = w /\ z.frames = s.frames /\ z.stack = s.stack
  BY LaterParts
<1>2. TreeOk(t, fr) /\ IsSeq(s.stack) /\ Known(s.stack, fr)
  BY DEF Sound
<1>3. /\ t \in Trees /\ w.hidden = t.hidden /\ Live(w) = Live(t) /\ TopLevel(w) = TopLevel(t)
      /\ \A n \in Live(t) : w.parent[n] = t.parent[n]
  BY <1>2, LateFacts
<1>4. \A j \in 1 .. Len(s.frames) :
        Surfaced(w, s.stack, s.frames[j].bound) = Surfaced(t, s.stack, s.frames[j].bound)
  BY <1>2, <1>3, BoundIs, SurfacedLate2
<1>. HIDE DEF w, z
<1>5. \A j \in 1 .. Len(s.frames) :
        Under(z, j) = Under(s, j) /\ Its(z, j) = Its(s, j) /\ Within(z, j) = Within(s, j)
  BY <1>1, <1>3, <1>4 DEF Under, Its, Within
<1>6. Apart(z)
  BY <1>1, <1>5 DEF Scoped, Apart
<1>7. Aside(z, fr \ {g})
  BY <1>1, <1>3 DEF Scoped, Aside
<1>8. Nested(z)
  BY <1>1, <1>3, <1>5 DEF Scoped, Nested
<1>9. Gone(z, fr \ {g})
  BY <1>1, <1>3 DEF Scoped, Gone
<1>10. Scoped(z, fr \ {g})
  BY <1>6, <1>7, <1>8, <1>9 DEF Scoped
<1>. QED BY <1>10 DEF z

-----------------------------------------------------------------------------
(* Entries: undo replays the steps back, redo replays them again.         *)

-----------------------------------------------------------------------------
(* An entry and the way its steps took the document.                       *)

Took(c, step, d, fr) ==
  /\ Sound(c, fr) /\ Sound(d, fr)
  /\ Fits(c, step) /\ step.node \notin fr
  /\ d = Apply(c, step)

Way(v, c, e, fr) ==
  /\ v[0] = c
  /\ \A i \in 1 .. Len(e.steps) : Took(v[i - 1], e.steps[i], v[i], fr)

Ends(v, c, e, d) ==
  LET n == Len(e.steps) IN d = State(v[n].tree, v[n].frames, Append(c.stack, e))

\* An entry of one step is the step's own, and a compound counts as one.
Single(e) == \E step : e.steps = <<step>> /\ e.compound = Child(step).compound

\* The entry e took the document c to d, and notes what c looked like.
Link(c, e, d, fr) ==
  /\ Whole(e) /\ (e.compound = TRUE \/ Single(e))
  /\ e.before = Look(c.tree, c.frames, c.stack)
  /\ Sound(d, fr)
  /\ \E v : Way(v, c, e, fr) /\ Ends(v, c, e, d)

\* The stack x is the given one with the first k children on it.
Spreads(x, stack, steps, k) ==
  /\ IsSeq(x) /\ Len(x) = Len(stack) + k
  /\ \A i \in 1 .. Len(stack) : x[i] = stack[i]
  /\ \A j \in 1 .. k : x[Len(stack) + j] = Child(steps[j])

LEMMA ApplyStack ==
  ASSUME NEW s, NEW step
  PROVE  Apply(s, step).stack = Append(s.stack, Child(step))
BY DEF Apply, State

LEMMA WayFacts ==
  ASSUME NEW v, NEW c, NEW e, NEW fr, Way(v, c, e, fr), Whole(e)
  PROVE  /\ Len(e.steps) \in Nat /\ Len(e.steps) >= 1
         /\ Sound(c, fr)
         /\ \A k \in 0 .. Len(e.steps) : Sound(v[k], fr) /\ v[k] = State(v[k].tree, v[k].frames, v[k].stack)
<1>1. Len(e.steps) \in Nat /\ Len(e.steps) >= 1
  BY SeqFacts DEF Whole
<1>2. Sound(c, fr)
  <2>1. 1 \in 1 .. Len(e.steps)
    BY <1>1
  <2>2. Took(v[1 - 1], e.steps[1], v[1], fr)
    BY <2>1 DEF Way
  <2>. QED
    BY <2>2 DEF Took, Way
<1>3. ASSUME NEW k \in 0 .. Len(e.steps) PROVE Sound(v[k], fr)
  <2>1. CASE k = 0
    BY <1>2, <2>1 DEF Way
  <2>2. CASE k # 0
    <3>1. k \in 1 .. Len(e.steps)
      BY <2>2
    <3>. QED
      BY <3>1 DEF Way, Took
  <2>. QED
    BY <2>1, <2>2
<1>4. \A k \in 0 .. Len(e.steps) : v[k] = State(v[k].tree, v[k].frames, v[k].stack)
  BY <1>3 DEF Sound
<1>. QED
  BY <1>1, <1>2, <1>3, <1>4

LEMMA SpreadsMore ==
  ASSUME NEW x, NEW stack, NEW steps, NEW k \in Nat, IsSeq(stack), Spreads(x, stack, steps, k)
  PROVE  Spreads(Append(x, Child(steps[k + 1])), stack, steps, k + 1)
<1>. DEFINE y == Append(x, Child(steps[k + 1]))
<1>1. /\ IsSeq(y) /\ Len(y) = Len(x) + 1 /\ Len(stack) \in Nat
      /\ \A i \in 1 .. Len(x) : y[i] = x[i]
      /\ y[Len(x) + 1] = Child(steps[k + 1])
  BY AppendFacts, SeqFacts DEF Spreads
<1>. HIDE DEF y
<1>2. Len(x) = Len(stack) + k
  BY DEF Spreads
<1>3. \A i \in 1 .. Len(stack) : y[i] = stack[i]
  <2>1. TAKE i \in 1 .. Len(stack)
  <2>2. i \in 1 .. Len(x)
    BY <1>1, <1>2
  <2>. QED
    BY <1>1, <2>2 DEF Spreads
<1>4. \A j \in 1 .. k + 1 : y[Len(stack) + j] = Child(steps[j])
  <2>1. TAKE j \in 1 .. k + 1
  <2>2. CASE j = k + 1
    <3>1. Len(stack) + j = Len(x) + 1
      BY <1>1, <1>2, <2>2
    <3>. QED
      BY <1>1, <2>2, <3>1
  <2>3. CASE j # k + 1
    <3>1. j \in 1 .. k /\ Len(stack) + j \in 1 .. Len(x)
      BY <1>1, <1>2, <2>3
    <3>2. x[Len(stack) + j] = Child(steps[j])
      BY <3>1 DEF Spreads
    <3>. QED
      BY <1>1, <3>1, <3>2
  <2>. QED
    BY <2>2, <2>3
<1>5. Len(y) = Len(stack) + (k + 1)
  BY <1>1, <1>2
<1>6. Spreads(y, stack, steps, k + 1)
  BY <1>1, <1>3, <1>4, <1>5 DEF Spreads
<1>. QED
  BY <1>6 DEF y

LEMMA SpreadsNone ==
  ASSUME NEW stack, IsSeq(stack), NEW steps
  PROVE  Spreads(stack, stack, steps, 0)
BY SeqFacts DEF Spreads

LEMMA WaySpreads ==
  ASSUME NEW v, NEW c, NEW e, NEW fr, Way(v, c, e, fr), Whole(e)
  PROVE  \A k \in 0 .. Len(e.steps) : Spreads(v[k].stack, c.stack, e.steps, k)
<1>. DEFINE n == Len(e.steps)  S == {k \in 0 .. n : Spreads(v[k].stack, c.stack, e.steps, k)}
<1>1. n \in Nat /\ Sound(c, fr) /\ v[0] = c /\ IsSeq(c.stack)
  <2>1. Sound(c, fr)
    BY WayFacts
  <2>. QED
    BY <2>1, WayFacts DEF Way, Sound
<1>2. 0 \in S
  BY <1>1, SpreadsNone
<1>3. ASSUME NEW k \in 0 .. n - 1, k \in S PROVE k + 1 \in S
  <2>1. k \in Nat /\ k + 1 \in 1 .. n /\ k + 1 - 1 = k /\ k + 1 \in 0 .. n
    BY <1>1
  <2>2. Took(v[k], e.steps[k + 1], v[k + 1], fr)
    BY <2>1 DEF Way
  <2>3. v[k + 1].stack = Append(v[k].stack, Child(e.steps[k + 1]))
    BY <2>2, ApplyStack DEF Took
  <2>4. Spreads(v[k].stack, c.stack, e.steps, k)
    BY <1>3
  <2>5. Spreads(v[k + 1].stack, c.stack, e.steps, k + 1)
    BY <1>1, <2>1, <2>3, <2>4, SpreadsMore
  <2>. QED
    BY <2>1, <2>5
<1>. HIDE DEF S
<1>4. \A k \in 0 .. n : k \in S
  BY <1>1, <1>2, <1>3, UpTo
<1>. QED
  BY <1>4 DEF S

LEMMA SpreadsIs ==
  ASSUME NEW stack, IsSeq(stack), NEW steps, IsSeq(steps), NEW x,
         Spreads(x, stack, steps, Len(steps))
  PROVE  Spread(stack, steps) = x
<1>. DEFINE kids == [i \in DOMAIN steps |-> Child(steps[i])]
            T == Stack(x) \cup Stack(stack) \cup {Child(steps[i]) : i \in DOMAIN steps}
<1>1. Len(steps) \in Nat /\ DOMAIN steps = 1 .. Len(steps) /\ Len(stack) \in Nat
  BY SeqFacts
<1>2. x \in Seq(T) /\ stack \in Seq(T)
  BY SeqMonotonic DEF IsSeq, Spreads
<1>3. kids \in Seq(T) /\ Len(kids) = Len(steps) /\ \A i \in 1 .. Len(steps) : kids[i] = Child(steps[i])
  <2>1. kids \in [1 .. Len(steps) -> T]
    BY <1>1
  <2>2. \A i \in 1 .. Len(steps) : kids[i] = Child(steps[i])
    BY <1>1
  <2>. HIDE DEF kids, T
  <2>3. kids \in Seq(T)
    BY <1>1, <2>1, SeqDef
  <2>. QED
    BY <1>1, <2>1, <2>2, <2>3, LenProperties
<1>. HIDE DEF kids, T
<1>4. /\ stack \o kids \in Seq(T) /\ Len(stack \o kids) = Len(stack) + Len(kids)
      /\ \A i \in 1 .. Len(stack) + Len(kids) :
           (stack \o kids)[i] = IF i <= Len(stack) THEN stack[i] ELSE kids[i - Len(stack)]
  BY <1>2, <1>3, ConcatProperties
<1>. DEFINE y == stack \o kids
<1>5. \A i \in 1 .. Len(x) : x[i] = y[i]
  <2>1. TAKE i \in 1 .. Len(x)
  <2>2. i \in 1 .. Len(stack) + Len(steps)
    BY DEF Spreads
  <2>3. CASE i <= Len(stack)
    <3>1. i \in 1 .. Len(stack)
      BY <1>1, <2>2, <2>3
    <3>. QED
      BY <1>3, <1>4, <2>2, <2>3, <3>1 DEF Spreads
  <2>4. CASE ~ (i <= Len(stack))
    <3>. DEFINE j == i - Len(stack)
    <3>1. j \in 1 .. Len(steps) /\ i = Len(stack) + j
      BY <1>1, <2>2, <2>4
    <3>. HIDE DEF j
    <3>2. x[i] = Child(steps[j])
      BY <3>1 DEF Spreads
    <3>3. y[i] = kids[j]
      BY <1>3, <1>4, <2>2, <2>4 DEF j
    <3>. QED
      BY <1>3, <3>1, <3>2, <3>3
  <2>. QED
    BY <2>3, <2>4
<1>6. Len(x) = Len(y)
  BY <1>3, <1>4 DEF Spreads
<1>7. y \in Seq(T)
  BY <1>4
<1>. HIDE DEF y
<1>8. x = y
  BY <1>2, <1>5, <1>6, <1>7, SeqEqual
<1>. QED
  BY <1>8 DEF y, kids, Spread

LEMMA Countdown ==
  ASSUME NEW n \in Nat, NEW k \in 1 .. n
  PROVE  /\ k - 1 \in 0 .. n /\ n - (k - 1) = n + 1 - k /\ n + 1 - k \in 1 .. n
         /\ n + 1 - k - 1 = n - k /\ n - k \in 0 .. n /\ k \in 0 .. n
OBVIOUS

LEMMA CountdownNext ==
  ASSUME NEW n \in Nat, NEW k \in 0 .. n - 1
  PROVE  /\ k + 1 \in 0 .. n /\ k + 1 # 0 /\ k + 1 - 1 = k /\ n + 1 - (k + 1) = n - k
         /\ n - k \in 1 .. n /\ n - k - 1 = n - (k + 1)
OBVIOUS

LEMMA GoesBack ==
  ASSUME NEW n \in Nat, NEW g, NEW z, NEW steps, NEW k \in 0 .. n - 1,
         g = [i \in 0 .. n |-> IF i = 0 THEN z ELSE Revert(g[i - 1], steps[n + 1 - i])]
  PROVE  g[k + 1] = Revert(g[k], steps[n - k])
<1>. DEFINE j == k + 1
<1>1. j \in 0 .. n /\ j # 0 /\ j - 1 = k /\ n + 1 - j = n - k
  OBVIOUS
<1>. HIDE DEF j
<1>2. g[j] = IF j = 0 THEN z ELSE Revert(g[j - 1], steps[n + 1 - j])
  BY <1>1, Zenon
<1>. QED
  BY <1>1, <1>2 DEF j

\* Undoing an entry and taking it again, from where it ended and started.
LEMMA UndoLink ==
  ASSUME NEW c, NEW e, NEW d, NEW fr, Link(c, e, d, fr)
  PROVE  UndoEntry(d.tree, d.frames, d.stack) = c
<1>1. Whole(e) /\ IsSeq(e.steps)
  BY DEF Link, Whole
<1>2. PICK v : Way(v, c, e, fr) /\ Ends(v, c, e, d)
  BY DEF Link
<1>. DEFINE steps == e.steps  n == Len(steps)
<1>3. /\ n \in Nat /\ Sound(c, fr) /\ c = State(c.tree, c.frames, c.stack) /\ IsSeq(c.stack)
      /\ \A k \in 0 .. n : v[k] = State(v[k].tree, v[k].frames, v[k].stack)
  BY <1>1, <1>2, WayFacts DEF Sound
<1>4. d.tree = v[n].tree /\ d.frames = v[n].frames /\ d.stack = Append(c.stack, e)
  <2>1. d = State(v[n].tree, v[n].frames, Append(c.stack, e))
    BY <1>2 DEF Ends
  <2>. DEFINE x == v[n].tree  y == v[n].frames  z == Append(c.stack, e)
  <2>. HIDE DEF x, y, z
  <2>2. d = State(x, y, z)
    BY <2>1 DEF x, y, z
  <2>3. d.tree = x /\ d.frames = y /\ d.stack = z
    BY <2>2, StateIs
  <2>. QED
    BY <2>3 DEF x, y, z
<1>5. Front(d.stack) = c.stack /\ Last(d.stack) = e
  BY <1>3, <1>4, AppendFacts
<1>. DEFINE last == Spread(Front(d.stack), Last(d.stack).steps)
<1>6. State(d.tree, d.frames, last) = v[n]
  <2>1. n \in 0 .. n
    BY <1>3
  <2>2. Spreads(v[n].stack, c.stack, steps, n)
    BY <1>1, <1>2, <2>1, WaySpreads
  <2>3. last = v[n].stack
    BY <1>1, <1>3, <1>5, <2>2, SpreadsIs
  <2>. HIDE DEF last
  <2>. QED
    BY <1>3, <1>4, <2>1, <2>3
<1>7. \A k \in 1 .. n : Revert(v[k], steps[k]) = v[k - 1]
  <2>1. TAKE k \in 1 .. n
  <2>2. Took(v[k - 1], steps[k], v[k], fr)
    BY <1>2 DEF Way
  <2>. QED
    BY <2>2, Back DEF Took
<1>. DEFINE g == CHOOSE f : f = [k \in 0 .. Len(Last(d.stack).steps) |->
                   IF k = 0 THEN State(d.tree, d.frames, Spread(Front(d.stack), Last(d.stack).steps))
                   ELSE Revert(f[k - 1], Last(d.stack).steps[Len(Last(d.stack).steps) + 1 - k])]
<1>8. UndoEntry(d.tree, d.frames, d.stack) = State(g[n].tree, g[n].frames, c.stack)
  BY <1>5 DEF UndoEntry
<1>9. \E f : f = [k \in 0 .. Len(Last(d.stack).steps) |->
                   IF k = 0 THEN State(d.tree, d.frames, Spread(Front(d.stack), Last(d.stack).steps))
                   ELSE Revert(f[k - 1], Last(d.stack).steps[Len(Last(d.stack).steps) + 1 - k])]
  <2>. DEFINE h == [k \in 0 .. n |-> v[n - k]]
              hh == [k \in 0 .. n |-> IF k = 0 THEN v[n] ELSE Revert(h[k - 1], steps[n + 1 - k])]
  <2>1. \A k \in 0 .. n : h[k] = hh[k]
    <3>1. TAKE k \in 0 .. n
    <3>2. CASE k = 0
      <4>1. n - 0 = n
        BY <1>3
      <4>. QED
        BY <3>2, <4>1
    <3>3. CASE k # 0
      <4>1. /\ k - 1 \in 0 .. n /\ n - (k - 1) = n + 1 - k /\ n + 1 - k \in 1 .. n
            /\ n + 1 - k - 1 = n - k
        <5>1. k \in 1 .. n
          BY <1>3, <3>3
        <5>. QED
          BY <1>3, <5>1, Countdown
      <4>2. h[k - 1] = v[n + 1 - k] /\ h[k] = v[n - k]
        BY <4>1
      <4>3. Revert(v[n + 1 - k], steps[n + 1 - k]) = v[n - k]
        BY <1>7, <4>1
      <4>. QED
        BY <3>3, <4>2, <4>3
    <3>. QED
      BY <3>2, <3>3
  <2>2. h = hh
    BY <2>1
  <2>3. h = [k \in 0 .. n |-> IF k = 0 THEN v[n] ELSE Revert(h[k - 1], steps[n + 1 - k])]
    BY <2>2
  <2>. HIDE DEF h
  <2>. QED
    BY <1>5, <1>6, <2>3
<1>10. g = [k \in 0 .. n |-> IF k = 0 THEN v[n] ELSE Revert(g[k - 1], steps[n + 1 - k])]
  <2>1. g = [k \in 0 .. Len(Last(d.stack).steps) |->
                   IF k = 0 THEN State(d.tree, d.frames, Spread(Front(d.stack), Last(d.stack).steps))
                   ELSE Revert(g[k - 1], Last(d.stack).steps[Len(Last(d.stack).steps) + 1 - k])]
    BY <1>9, Zenon
  <2>. HIDE DEF g
  <2>. QED
    BY <1>5, <1>6, <2>1
<1>. HIDE DEF g
<1>. DEFINE S == {k \in 0 .. n : g[k] = v[n - k]}
<1>11. 0 \in S
  <2>1. 0 \in 0 .. n /\ n - 0 = n
    BY <1>3
  <2>2. g[0] = v[n]
    BY <1>10, <2>1
  <2>. QED
    BY <2>1, <2>2
<1>12. ASSUME NEW k \in 0 .. n - 1, k \in S PROVE k + 1 \in S
  <2>1. /\ k + 1 \in 0 .. n /\ k + 1 # 0 /\ k + 1 - 1 = k /\ n + 1 - (k + 1) = n - k
        /\ n - k \in 1 .. n /\ n - k - 1 = n - (k + 1)
    BY <1>3, CountdownNext
  <2>2. g[k + 1] = Revert(g[k], steps[n - k])
    <3>. DEFINE z == v[n]
    <3>1. g = [i \in 0 .. n |-> IF i = 0 THEN z ELSE Revert(g[i - 1], steps[n + 1 - i])]
      BY <1>10
    <3>. HIDE DEF n, z, steps
    <3>. QED
      BY <1>3, <3>1, GoesBack
  <2>3. Revert(v[n - k], steps[n - k]) = v[n - (k + 1)]
    BY <1>7, <2>1
  <2>. QED
    BY <1>12, <2>1, <2>2, <2>3
<1>. HIDE DEF S
<1>13. n \in S
  <2>1. \A k \in 0 .. n : k \in S
    BY <1>3, <1>11, <1>12, UpTo
  <2>. QED
    BY <1>3, <2>1
<1>14. g[n] = c
  <2>1. n - n = 0
    BY <1>3
  <2>. QED
    BY <1>2, <1>13, <2>1 DEF S, Way
<1>. QED
  BY <1>3, <1>8, <1>14

\* Redo runs the steps again and arrives at the same document.
LEMMA RedoLink ==
  ASSUME NEW c, NEW e, NEW d, NEW fr, Link(c, e, d, fr)
  PROVE  RedoEntry(c.tree, c.frames, c.stack, e) = d
<1>1. Whole(e)
  BY DEF Link
<1>2. PICK v : Way(v, c, e, fr) /\ Ends(v, c, e, d)
  BY DEF Link
<1>. DEFINE steps == e.steps  n == Len(steps)
<1>3. n \in Nat /\ Sound(c, fr) /\ c = State(c.tree, c.frames, c.stack)
  BY <1>1, <1>2, WayFacts DEF Sound
<1>4. v[0] = c /\ \A k \in 1 .. n : v[k] = Apply(v[k - 1], steps[k])
  BY <1>2 DEF Way, Took
<1>. DEFINE g == CHOOSE f : f = [k \in 0 .. Len(e.steps) |->
                   IF k = 0 THEN State(c.tree, c.frames, c.stack)
                   ELSE Apply(f[k - 1], e.steps[k])]
<1>5. RedoEntry(c.tree, c.frames, c.stack, e) = State(g[n].tree, g[n].frames, Append(c.stack, e))
  BY DEF RedoEntry
<1>6. \E f : f = [k \in 0 .. Len(e.steps) |->
                   IF k = 0 THEN State(c.tree, c.frames, c.stack)
                   ELSE Apply(f[k - 1], e.steps[k])]
  <2>. DEFINE h == [k \in 0 .. n |-> v[k]]
              hh == [k \in 0 .. n |-> IF k = 0 THEN c ELSE Apply(h[k - 1], steps[k])]
  <2>1. \A k \in 0 .. n : h[k] = hh[k]
    <3>1. TAKE k \in 0 .. n
    <3>2. CASE k = 0
      BY <1>4, <3>2
    <3>3. CASE k # 0
      <4>1. k - 1 \in 0 .. n /\ k \in 1 .. n
        BY <1>3, <3>3
      <4>. QED
        BY <1>4, <3>3, <4>1
    <3>. QED
      BY <3>2, <3>3
  <2>2. h = hh
    BY <2>1
  <2>3. h = [k \in 0 .. n |-> IF k = 0 THEN c ELSE Apply(h[k - 1], steps[k])]
    BY <2>2
  <2>. HIDE DEF h
  <2>. QED
    BY <1>3, <2>3
<1>7. g = [k \in 0 .. n |-> IF k = 0 THEN c ELSE Apply(g[k - 1], steps[k])]
  <2>1. g = [k \in 0 .. Len(e.steps) |->
               IF k = 0 THEN State(c.tree, c.frames, c.stack) ELSE Apply(g[k - 1], e.steps[k])]
    BY <1>6, Zenon
  <2>. HIDE DEF g
  <2>. QED
    BY <1>3, <2>1
<1>. HIDE DEF g
<1>. DEFINE S == {k \in 0 .. n : g[k] = v[k]}
<1>8. 0 \in S
  BY <1>3, <1>4, <1>7
<1>9. ASSUME NEW k \in 0 .. n - 1, k \in S PROVE k + 1 \in S
  <2>1. k + 1 \in 0 .. n /\ k + 1 # 0 /\ k + 1 - 1 = k /\ k + 1 \in 1 .. n
    BY <1>3
  <2>2. g[k + 1] = Apply(g[k], steps[k + 1]) /\ v[k + 1] = Apply(v[k], steps[k + 1])
    BY <1>4, <1>7, <2>1
  <2>. QED
    BY <1>9, <2>1, <2>2
<1>. HIDE DEF S
<1>10. n \in S
  <2>1. \A k \in 0 .. n : k \in S
    BY <1>3, <1>8, <1>9, UpTo
  <2>. QED
    BY <1>3, <2>1
<1>. QED
  BY <1>2, <1>5, <1>10 DEF S, Ends

-----------------------------------------------------------------------------
(* The history a document stands on: a document before and after every    *)
(* entry of the two stacks, and undo, redo, cutting the redo stack and one*)
(* more entry as ways along it.                                           *)

-----------------------------------------------------------------------------
(* A line of documents under a line of entries.                            *)

\* An instance in which an ungroup frees its members for good, and no bracket
\* makes them part of a compound.
UngroupsSeen == "ungroup" \notin Ops \/ (Drawn = {} /\ "bracket" \notin Ops)

AllScoped(W, n, fr) == UngroupsSeen => \A i \in 0 .. n : Scoped(W[i], fr)

\* W[i] is the document after the first i entries of T.
History(W, T, fr) ==
  /\ \A i \in 0 .. Len(T) : Sound(W[i], fr) /\ Len(W[i].stack) = i /\ Begins(W[i].stack, T)
  /\ \A i \in 1 .. Len(T) : Link(W[i - 1], T[i], W[i], fr)
  /\ AllScoped(W, Len(T), fr)

\* The document s, with what redo would put back, stands on the line W.
Stands(W, s, r, fr) ==
  /\ IsSeq(s.stack) /\ IsSeq(r)
  /\ History(W, Timeline(s.stack, r), fr)
  /\ W[Len(s.stack)] = s

LEMMA StandsFacts ==
  ASSUME NEW W, NEW s, NEW r, NEW fr, Stands(W, s, r, fr)
  PROVE  LET T == Timeline(s.stack, r)
         IN  /\ IsSeq(T) /\ Len(T) \in Nat /\ Len(T) = Len(s.stack) + Len(r)
             /\ Len(s.stack) \in Nat /\ Len(r) \in Nat /\ Len(s.stack) \in 0 .. Len(T)
             /\ Begins(s.stack, T) /\ Sound(s, fr) /\ s = State(s.tree, s.frames, s.stack)
<1>. DEFINE u == s.stack  T == Timeline(u, r)
<1>1. IsSeq(u) /\ IsSeq(r) /\ History(W, T, fr) /\ W[Len(u)] = s
  BY DEF Stands
<1>2. IsSeq(T) /\ Begins(u, T) /\ Len(u) \in Nat /\ Len(r) \in Nat /\ Len(T) \in Nat
  BY <1>1, TimelineFacts, SeqFacts
<1>3. Len(T) = Len(u) + Len(r)
  <2>. DEFINE n == Len(u) + Len(r)
  <2>1. DOMAIN T = 1 .. n /\ DOMAIN T = 1 .. Len(T) /\ n \in Nat
    BY <1>2, SeqFacts DEF Timeline
  <2>. HIDE DEF T, n
  <2>2. Len(T) = n
    BY <1>2, <2>1
  <2>. QED
    BY <2>2 DEF n
<1>. HIDE DEF T
<1>4. Len(u) \in 0 .. Len(T)
  BY <1>2, <1>3
<1>5. Sound(s, fr)
  BY <1>1, <1>4 DEF History
<1>6. s = State(s.tree, s.frames, s.stack)
  BY <1>5 DEF Sound
<1>. QED
  BY <1>2, <1>3, <1>4, <1>5, <1>6 DEF T

LEMMA LinkEnds ==
  ASSUME NEW c, NEW e, NEW d, NEW fr, Link(c, e, d, fr)
  PROVE  /\ Sound(c, fr) /\ Sound(d, fr) /\ d.stack = Append(c.stack, e)
         /\ c = State(c.tree, c.frames, c.stack) /\ d = State(d.tree, d.frames, d.stack)
<1>1. Whole(e) /\ Sound(d, fr)
  BY DEF Link
<1>2. PICK v : Way(v, c, e, fr) /\ Ends(v, c, e, d)
  BY DEF Link
<1>3. Sound(c, fr)
  BY <1>1, <1>2, WayFacts
<1>4. d.stack = Append(c.stack, e)
  <2>. DEFINE x == v[Len(e.steps)].tree  y == v[Len(e.steps)].frames  z == Append(c.stack, e)
  <2>1. d = State(x, y, z)
    BY <1>2 DEF Ends
  <2>. HIDE DEF x, y, z
  <2>2. d.stack = z
    BY <2>1, StateIs
  <2>. QED
    BY <2>2 DEF z
<1>5. c = State(c.tree, c.frames, c.stack) /\ d = State(d.tree, d.frames, d.stack)
  BY <1>1, <1>3 DEF Sound
<1>. QED
  BY <1>1, <1>3, <1>4, <1>5

\* Undo and redo go along the history; cutting it leaves a history, and so does
\* one entry more.
LEMMA UndoStands ==
  ASSUME NEW W, NEW s, NEW r, NEW fr, Stands(W, s, r, fr), s.stack # <<>>
  PROVE  LET c == UndoEntry(s.tree, s.frames, s.stack)
             e == Last(s.stack)
         IN  /\ Link(c, e, s, fr) /\ c = W[Len(s.stack) - 1] /\ c.stack = Front(s.stack)
             /\ Stands(W, c, Append(r, e), fr)
<1>. DEFINE u == s.stack  T == Timeline(u, r)  n == Len(u)  c == W[n - 1]  e == Last(u)
<1>1. /\ IsSeq(u) /\ IsSeq(r) /\ History(W, T, fr) /\ W[n] = s
      /\ n \in Nat /\ n \in 0 .. Len(T) /\ Len(T) \in Nat /\ Begins(u, T)
  BY StandsFacts DEF Stands
<1>2. /\ IsSeq(Front(u)) /\ Len(Front(u)) = n - 1 /\ n >= 1 /\ u = Append(Front(u), e)
  BY <1>1, FrontFacts
<1>3. n \in 1 .. Len(T) /\ n \in 1 .. n
  BY <1>1, <1>2
<1>4. T[n] = e
  BY <1>1, <1>3 DEF Begins, Last
<1>5. Link(c, e, s, fr)
  <2>. HIDE DEF T
  <2>1. Link(W[n - 1], T[n], W[n], fr)
    BY <1>1, <1>3 DEF History
  <2>. QED
    BY <1>1, <1>4, <2>1
<1>. HIDE DEF c
<1>6. Sound(c, fr) /\ u = Append(c.stack, e) /\ UndoEntry(s.tree, s.frames, u) = c
  BY <1>5, LinkEnds, UndoLink
<1>7. IsSeq(c.stack)
  BY <1>6 DEF Sound
<1>8. c.stack = Front(u)
  <2>. HIDE DEF e
  <2>1. Front(Append(c.stack, e)) = c.stack
    BY <1>7, AppendFacts
  <2>. QED
    BY <1>6, <2>1, Zenon
<1>9. Timeline(Front(u), Append(r, e)) = T
  <2>. HIDE DEF e
  <2>1. Timeline(Append(Front(u), e), r) = Timeline(Front(u), Append(r, e))
    BY <1>1, <1>2, TimelineMoves
  <2>2. Append(Front(u), e) = u
    BY <1>2
  <2>. QED
    BY <2>1, <2>2, Zenon
<1>10. IsSeq(Append(r, e))
  BY <1>1, AppendFacts
<1>11. W[Len(c.stack)] = c
  BY <1>2, <1>8 DEF c
<1>12. Stands(W, c, Append(r, e), fr)
  BY <1>1, <1>7, <1>8, <1>9, <1>10, <1>11 DEF Stands
<1>. QED
  BY <1>5, <1>6, <1>8, <1>12 DEF c

LEMMA RedoStands ==
  ASSUME NEW W, NEW s, NEW r, NEW fr, Stands(W, s, r, fr), r # <<>>
  PROVE  LET e == Last(r)
             d == RedoEntry(s.tree, s.frames, s.stack, e)
         IN  /\ Link(s, e, d, fr) /\ d = W[Len(s.stack) + 1] /\ d.stack = Append(s.stack, e)
             /\ Stands(W, d, Front(r), fr)
<1>. DEFINE u == s.stack  T == Timeline(u, r)  n == Len(u)  d == W[n + 1]  e == Last(r)
<1>1. /\ IsSeq(u) /\ IsSeq(r) /\ History(W, T, fr) /\ W[n] = s
      /\ n \in Nat /\ Len(T) = n + Len(r) /\ Len(r) \in Nat
  BY StandsFacts DEF Stands
<1>2. /\ IsSeq(Front(r)) /\ Len(r) >= 1 /\ r = Append(Front(r), e)
  BY <1>1, FrontFacts
<1>3. T = Timeline(Append(u, e), Front(r))
  <2>. HIDE DEF e
  <2>1. Timeline(Append(u, e), Front(r)) = Timeline(u, Append(Front(r), e))
    BY <1>1, <1>2, TimelineMoves
  <2>2. Append(Front(r), e) = r
    BY <1>2
  <2>. QED
    BY <2>1, <2>2, Zenon
<1>4. /\ IsSeq(Append(u, e)) /\ Len(Append(u, e)) = n + 1 /\ Append(u, e)[n + 1] = e
  BY <1>1, AppendFacts
<1>5. Begins(Append(u, e), T)
  BY <1>2, <1>3, <1>4, TimelineFacts
<1>6. n + 1 \in 1 .. Len(T) /\ n + 1 \in 1 .. n + 1 /\ n + 1 - 1 = n
  BY <1>1, <1>2
<1>7. T[n + 1] = e
  BY <1>4, <1>5, <1>6 DEF Begins
<1>8. Link(s, e, d, fr)
  <2>. HIDE DEF T
  <2>1. Link(W[n + 1 - 1], T[n + 1], W[n + 1], fr)
    BY <1>1, <1>6 DEF History
  <2>. QED
    BY <1>1, <1>6, <1>7, <2>1
<1>. HIDE DEF d
<1>9. d.stack = Append(u, e) /\ RedoEntry(s.tree, s.frames, u, e) = d
  BY <1>8, LinkEnds, RedoLink
<1>10. W[Len(d.stack)] = d
  BY <1>4, <1>9 DEF d
<1>11. Stands(W, d, Front(r), fr)
  BY <1>1, <1>2, <1>3, <1>4, <1>9, <1>10 DEF Stands
<1>. QED
  BY <1>8, <1>9, <1>11 DEF d

LEMMA CutStands ==
  ASSUME NEW W, NEW s, NEW r, NEW fr, Stands(W, s, r, fr),
         NEW i \in 0 .. Len(Timeline(s.stack, r))
  PROVE  /\ Stands(W, W[i], <<>>, fr) /\ Len(W[i].stack) = i
         /\ Begins(W[i].stack, Timeline(s.stack, r))
<1>. DEFINE T == Timeline(s.stack, r)  u == W[i].stack
<1>1. IsSeq(T) /\ Len(T) \in Nat /\ History(W, T, fr)
  BY StandsFacts DEF Stands
<1>. HIDE DEF T
<1>2. i \in 0 .. Len(T) /\ i \in Nat /\ i <= Len(T)
  BY <1>1 DEF T
<1>3. Sound(W[i], fr) /\ Len(u) = i /\ Begins(u, T)
  BY <1>1, <1>2 DEF History
<1>4. IsSeq(u)
  BY <1>3 DEF Sound
<1>5. Timeline(u, <<>>) = u
  BY <1>4, TimelineOfUndo
<1>. HIDE DEF u
<1>6. \A j \in 1 .. i : u[j] = T[j]
  BY <1>3 DEF Begins
<1>7. ASSUME NEW j \in 0 .. i
      PROVE  Sound(W[j], fr) /\ Len(W[j].stack) = j /\ Begins(W[j].stack, u)
  <2>1. j \in 0 .. Len(T)
    BY <1>1, <1>2
  <2>2. Sound(W[j], fr) /\ Len(W[j].stack) = j /\ Begins(W[j].stack, T)
    BY <1>1, <2>1 DEF History
  <2>3. \A k \in 1 .. j : W[j].stack[k] = T[k] /\ k \in 1 .. i
    BY <1>2, <2>2 DEF Begins
  <2>4. \A k \in 1 .. Len(W[j].stack) : W[j].stack[k] = u[k]
    BY <1>6, <2>2, <2>3
  <2>5. Len(W[j].stack) <= Len(u)
    BY <1>2, <1>3, <2>2
  <2>. QED
    BY <2>2, <2>4, <2>5 DEF Begins
<1>8. ASSUME NEW j \in 1 .. i PROVE Link(W[j - 1], u[j], W[j], fr)
  <2>1. j \in 1 .. Len(T)
    BY <1>1, <1>2
  <2>. QED
    BY <1>1, <1>6, <2>1 DEF History
<1>9. History(W, u, fr)
  <2>1. AllScoped(W, Len(T), fr)
    BY <1>1 DEF History
  <2>2. AllScoped(W, i, fr)
    BY <1>1, <1>2, <2>1 DEF AllScoped
  <2>. QED
    BY <1>3, <1>7, <1>8, <2>2 DEF History
<1>10. Stands(W, W[i], <<>>, fr)
  BY <1>3, <1>4, <1>5, <1>9, EmptyFacts DEF Stands, u
<1>. QED
  BY <1>3, <1>10 DEF u, T

\* The line with one more document on it.
Grown(W, n, d) == [i \in 0 .. n + 1 |-> IF i = n + 1 THEN d ELSE W[i]]

LEMMA GrownIs ==
  ASSUME NEW W, NEW n \in Nat, NEW d
  PROVE  Grown(W, n, d)[n + 1] = d /\ \A i \in 0 .. n : Grown(W, n, d)[i] = W[i]
BY DEF Grown

LEMMA GrowStands ==
  ASSUME NEW W, NEW s, NEW fr, Stands(W, s, <<>>, fr), NEW e, NEW d, Link(s, e, d, fr),
         UngroupsSeen => Scoped(d, fr)
  PROVE  Stands(Grown(W, Len(s.stack), d), d, <<>>, fr)
<1>. DEFINE u == s.stack  n == Len(u)  X == Grown(W, n, d)  z == d.stack
<1>1. IsSeq(u) /\ n \in Nat /\ Timeline(u, <<>>) = u /\ History(W, u, fr) /\ W[n] = s
  BY TimelineOfUndo, SeqFacts DEF Stands
<1>2. z = Append(u, e) /\ Sound(d, fr)
  BY LinkEnds
<1>3. /\ IsSeq(z) /\ Len(z) = n + 1 /\ z[n + 1] = e
      /\ \A i \in 1 .. n : z[i] = u[i]
  BY <1>1, <1>2, AppendFacts
<1>4. X[n + 1] = d /\ \A i \in 0 .. n : X[i] = W[i]
  BY <1>1, GrownIs
<1>. HIDE DEF X, z, u
<1>5. ASSUME NEW i \in 0 .. n + 1
      PROVE  Sound(X[i], fr) /\ Len(X[i].stack) = i /\ Begins(X[i].stack, z)
  <2>1. CASE i = n + 1
    <3>1. Begins(z, z)
      BY <1>1, <1>3 DEF Begins
    <3>. QED
      BY <1>2, <1>3, <1>4, <2>1, <3>1 DEF z
  <2>2. CASE i # n + 1
    <3>1. i \in 0 .. n
      BY <1>1, <2>2
    <3>2. Sound(W[i], fr) /\ Len(W[i].stack) = i /\ Begins(W[i].stack, u)
      BY <1>1, <3>1 DEF History
    <3>3. IsSeq(W[i].stack)
      BY <3>2 DEF Sound
    <3>4. Begins(W[i].stack, z)
      BY <1>1, <1>2, <3>2, <3>3, BeginsFacts
    <3>. QED
      BY <1>4, <3>1, <3>2, <3>4
  <2>. QED
    BY <2>1, <2>2
<1>6. ASSUME NEW i \in 1 .. n + 1 PROVE Link(X[i - 1], z[i], X[i], fr)
  <2>1. CASE i = n + 1
    <3>1. i - 1 = n /\ n \in 0 .. n
      BY <1>1, <2>1
    <3>. QED
      BY <1>1, <1>3, <1>4, <2>1, <3>1
  <2>2. CASE i # n + 1
    <3>1. i \in 1 .. n /\ i \in 0 .. n /\ i - 1 \in 0 .. n
      BY <1>1, <2>2
    <3>2. Link(W[i - 1], u[i], W[i], fr)
      BY <1>1, <3>1 DEF History
    <3>. QED
      BY <1>3, <1>4, <3>1, <3>2
  <2>. QED
    BY <2>1, <2>2
<1>7. History(X, z, fr)
  <2>1. AllScoped(W, n, fr)
    BY <1>1 DEF History
  <2>2. ASSUME UngroupsSeen, NEW i \in 0 .. n + 1 PROVE Scoped(X[i], fr)
    <3>1. CASE i = n + 1
      BY <1>4, <2>2, <3>1
    <3>2. CASE i # n + 1
      <4>1. i \in 0 .. n
        BY <1>1, <3>2
      <4>. QED
        BY <1>4, <2>1, <2>2, <4>1 DEF AllScoped
    <3>. QED
      BY <3>1, <3>2
  <2>3. AllScoped(X, n + 1, fr)
    BY <2>2 DEF AllScoped
  <2>. QED
    BY <1>3, <1>5, <1>6, <2>3 DEF History
<1>8. Timeline(z, <<>>) = z
  BY <1>3, TimelineOfUndo
<1>9. Stands(X, d, <<>>, fr)
  BY <1>3, <1>4, <1>7, <1>8, EmptyFacts DEF Stands, z
<1>. QED
  BY <1>9 DEF X, u

-----------------------------------------------------------------------------
(* A node that is drawn or formed leaves the fresh ones, all along a line. *)

LEMMA TookShrinks ==
  ASSUME NEW c, NEW step, NEW d, NEW fr, Took(c, step, d, fr), NEW less \in SUBSET fr
  PROVE  Took(c, step, d, less)
BY Shrink DEF Took

LEMMA LinkShrinks ==
  ASSUME NEW c, NEW e, NEW d, NEW fr, Link(c, e, d, fr), NEW less \in SUBSET fr
  PROVE  Link(c, e, d, less)
<1>1. PICK v : Way(v, c, e, fr) /\ Ends(v, c, e, d)
  BY DEF Link
<1>2. Way(v, c, e, less)
  BY <1>1, TookShrinks DEF Way
<1>3. Sound(d, less)
  BY Shrink DEF Link
<1>. QED
  BY <1>1, <1>2, <1>3 DEF Link

LEMMA StandsShrinks ==
  ASSUME NEW W, NEW s, NEW r, NEW fr, Stands(W, s, r, fr), NEW less \in SUBSET fr
  PROVE  Stands(W, s, r, less)
<1>. DEFINE T == Timeline(s.stack, r)
<1>1. History(W, T, fr)
  BY DEF Stands
<1>. HIDE DEF T
<1>2. \A i \in 0 .. Len(T) : Sound(W[i], less) /\ Len(W[i].stack) = i /\ Begins(W[i].stack, T)
  BY <1>1, Shrink DEF History
<1>3. \A i \in 1 .. Len(T) : Link(W[i - 1], T[i], W[i], less)
  BY <1>1, LinkShrinks DEF History
<1>4. AllScoped(W, Len(T), less)
  BY <1>1, ScopedShrinks DEF History, AllScoped
<1>5. History(W, T, less)
  BY <1>2, <1>3, <1>4 DEF History
<1>. QED
  BY <1>5 DEF Stands, T

LEMMA TookLate ==
  ASSUME NEW c, NEW step, NEW d, NEW fr, Took(c, step, d, fr),
         NEW g \in fr, NEW ms, NEW p, Formed(g, ms, p), ms \cap fr = {}
  PROVE  Took(LaterState(c, g, ms, p), step, LaterState(d, g, ms, p), fr \ {g})
<1>1. Sound(c, fr) /\ Sound(d, fr) /\ Fits(c, step) /\ step.node \notin fr /\ d = Apply(c, step)
  BY DEF Took
<1>2. Sound(LaterState(c, g, ms, p), fr \ {g}) /\ Sound(LaterState(d, g, ms, p), fr \ {g})
  BY <1>1, SoundLate
<1>3. Fits(LaterState(c, g, ms, p), step)
  BY <1>1, FitsLate
<1>4. LaterState(d, g, ms, p) = Apply(LaterState(c, g, ms, p), step)
  BY <1>1, ApplyLate
<1>5. step.node \notin fr \ {g}
  BY <1>1
<1>. QED
  BY <1>2, <1>3, <1>4, <1>5 DEF Took

LEMMA LinkLate ==
  ASSUME NEW c, NEW e, NEW d, NEW fr, Link(c, e, d, fr),
         NEW g \in fr, NEW ms, NEW p, Formed(g, ms, p), ms \cap fr = {}
  PROVE  Link(LaterState(c, g, ms, p), e, LaterState(d, g, ms, p), fr \ {g})
<1>. DEFINE x == LaterState(c, g, ms, p)  y == LaterState(d, g, ms, p)  n == Len(e.steps)
            less == fr \ {g}
<1>1. PICK v : Way(v, c, e, fr) /\ Ends(v, c, e, d)
  BY DEF Link
<1>2. Whole(e) /\ (e.compound = TRUE \/ Single(e)) /\ e.before = Look(c.tree, c.frames, c.stack)
      /\ Sound(d, fr)
  BY DEF Link
<1>3. Sound(c, fr) /\ n \in Nat
  BY <1>1, <1>2, WayFacts
<1>. DEFINE w == [i \in 0 .. n |-> LaterState(v[i], g, ms, p)]
<1>4. \A i \in 0 .. n : w[i] = LaterState(v[i], g, ms, p)
  OBVIOUS
<1>. HIDE DEF w
<1>5. Way(w, x, e, less)
  <2>1. w[0] = x
    BY <1>1, <1>3, <1>4 DEF Way
  <2>2. ASSUME NEW i \in 1 .. n PROVE Took(w[i - 1], e.steps[i], w[i], less)
    <3>1. i \in 0 .. n /\ i - 1 \in 0 .. n
      BY <1>3
    <3>2. Took(v[i - 1], e.steps[i], v[i], fr)
      BY <1>1 DEF Way
    <3>3. Took(LaterState(v[i - 1], g, ms, p), e.steps[i], LaterState(v[i], g, ms, p), less)
      BY <3>2, TookLate
    <3>. QED
      BY <1>4, <3>1, <3>3
  <2>. HIDE DEF x, less
  <2>. QED
    BY <2>1, <2>2 DEF Way
<1>6. Ends(w, x, e, y)
  <2>. DEFINE a == v[n].tree  b == v[n].frames  z == Append(c.stack, e)
  <2>1. d = State(a, b, z)
    BY <1>1 DEF Ends
  <2>2. n \in 0 .. n
    BY <1>3
  <2>3. w[n].tree = WithGroup(a, g, ms, p) /\ w[n].frames = b /\ x.stack = c.stack
    BY <1>4, <2>2, LaterParts
  <2>. HIDE DEF a, b, z
  <2>4. d.tree = a /\ d.frames = b /\ d.stack = z
    BY <2>1, StateIs
  <2>5. y = State(WithGroup(a, g, ms, p), b, z)
    BY <2>4 DEF LaterState
  <2>. HIDE DEF x, y
  <2>. QED
    BY <2>3, <2>5 DEF Ends, z
<1>7. e.before = Look(x.tree, x.frames, x.stack)
  BY <1>2, <1>3, LookLate, LaterParts
<1>8. Sound(y, less)
  BY <1>2, SoundLate
<1>. HIDE DEF x, y, less
<1>9. Link(x, e, y, less)
  BY <1>2, <1>5, <1>6, <1>7, <1>8 DEF Link
<1>. QED
  BY <1>9 DEF x, y, less

\* The line of the same documents, each with the record of the group.
Amended(W, n, g, ms, p) == [i \in 0 .. n |-> LaterState(W[i], g, ms, p)]

\* The history with the late record of a group in every document of it.
LEMMA StandsLate ==
  ASSUME NEW W, NEW s, NEW r, NEW fr, Stands(W, s, r, fr),
         NEW g \in fr, NEW ms, NEW p, Formed(g, ms, p), ms \cap fr = {}
  PROVE  Stands(Amended(W, Len(Timeline(s.stack, r)), g, ms, p), LaterState(s, g, ms, p),
                r, fr \ {g})
<1>. DEFINE T == Timeline(s.stack, r)  n == Len(T)  X == Amended(W, n, g, ms, p)
            y == LaterState(s, g, ms, p)  less == fr \ {g}
<1>1. /\ History(W, T, fr) /\ n \in Nat /\ Len(s.stack) \in 0 .. n /\ IsSeq(s.stack) /\ IsSeq(r)
      /\ W[Len(s.stack)] = s
  BY StandsFacts DEF Stands
<1>. HIDE DEF n
<1>2. \A i \in 0 .. n : X[i] = LaterState(W[i], g, ms, p)
  BY DEF Amended
<1>. HIDE DEF X, T
<1>3. ASSUME NEW i \in 0 .. n
      PROVE  Sound(X[i], less) /\ Len(X[i].stack) = i /\ Begins(X[i].stack, T)
  <2>1. Sound(W[i], fr) /\ Len(W[i].stack) = i /\ Begins(W[i].stack, T)
    BY <1>1 DEF History, n
  <2>2. Sound(LaterState(W[i], g, ms, p), less) /\ LaterState(W[i], g, ms, p).stack = W[i].stack
    BY <2>1, SoundLate, LaterParts
  <2>. QED
    BY <1>2, <2>1, <2>2
<1>4. ASSUME NEW i \in 1 .. n PROVE Link(X[i - 1], T[i], X[i], less)
  <2>1. i \in 0 .. n /\ i - 1 \in 0 .. n
    BY <1>1
  <2>2. Link(W[i - 1], T[i], W[i], fr)
    BY <1>1 DEF History, n
  <2>3. Link(LaterState(W[i - 1], g, ms, p), T[i], LaterState(W[i], g, ms, p), less)
    BY <2>2, LinkLate
  <2>. QED
    BY <1>2, <2>1, <2>3
<1>5. History(X, T, less)
  <2>1. ASSUME UngroupsSeen, NEW i \in 0 .. n PROVE Scoped(X[i], less)
    <3>1. Sound(W[i], fr) /\ Scoped(W[i], fr)
      BY <1>1, <2>1 DEF History, AllScoped, n
    <3>2. Scoped(LaterState(W[i], g, ms, p), less)
      BY <3>1, ScopedLate
    <3>. QED
      BY <1>2, <3>2
  <2>. HIDE DEF less
  <2>2. AllScoped(X, n, less)
    BY <2>1 DEF AllScoped
  <2>. QED
    BY <1>3, <1>4, <2>2 DEF History, n
<1>6. y.stack = s.stack
  BY LaterParts
<1>. HIDE DEF y
<1>7. X[Len(s.stack)] = y
  BY <1>1, <1>2 DEF y
<1>8. Stands(X, y, r, less)
  BY <1>1, <1>5, <1>6, <1>7 DEF Stands, T
<1>. QED
  BY <1>8 DEF X, y, less, n, T

-----------------------------------------------------------------------------
(* An edit is an entry of one step; a commit is one of many.              *)

-----------------------------------------------------------------------------
(* A step reads of the stack what the entries did, and not what they note. *)

Alike(x, y) ==
  /\ IsSeq(x) /\ IsSeq(y) /\ Len(x) = Len(y)
  /\ \A i \in 1 .. Len(x) : x[i].steps = y[i].steps /\ x[i].compound = y[i].compound

LEMMA AlikeGrows ==
  ASSUME NEW x, NEW y, Alike(x, y), NEW a, NEW b, a.steps = b.steps, a.compound = b.compound
  PROVE  Alike(Append(x, a), Append(y, b))
<1>. DEFINE xa == Append(x, a)  yb == Append(y, b)
<1>1. /\ IsSeq(xa) /\ Len(xa) = Len(x) + 1 /\ Len(x) \in Nat
      /\ \A i \in 1 .. Len(x) : xa[i] = x[i]
      /\ xa[Len(x) + 1] = a
  BY AppendFacts DEF Alike
<1>2. /\ IsSeq(yb) /\ Len(yb) = Len(x) + 1
      /\ \A i \in 1 .. Len(x) : yb[i] = y[i]
      /\ yb[Len(x) + 1] = b
  BY AppendFacts DEF Alike
<1>. HIDE DEF xa, yb
<1>3. \A i \in 1 .. Len(xa) : xa[i].steps = yb[i].steps /\ xa[i].compound = yb[i].compound
  <2>1. TAKE i \in 1 .. Len(xa)
  <2>2. i \in 1 .. Len(x) \/ i = Len(x) + 1
    BY <1>1
  <2>. QED
    BY <1>1, <1>2, <2>2 DEF Alike
<1>4. Alike(xa, yb)
  BY <1>1, <1>2, <1>3 DEF Alike
<1>. QED
  BY <1>4 DEF xa, yb

LEMMA AlikeShows ==
  ASSUME NEW x, NEW y, Alike(x, y), NEW b \in Nat
  PROVE  /\ \A t : Surfaced(t, x, b) = Surfaced(t, y, b)
         /\ Released(x, b) = Released(y, b)
<1>1. Len(x) \in Nat /\ Len(x) = Len(y)
  BY SeqFacts DEF Alike
<1>2. \A i \in b + 1 .. Len(x) : x[i].steps = y[i].steps /\ x[i].compound = y[i].compound
  BY <1>1 DEF Alike
<1>3. ASSUME NEW t PROVE Surfaced(t, x, b) = Surfaced(t, y, b)
  BY <1>1, <1>2 DEF Surfaced
<1>4. Released(x, b) = Released(y, b)
  BY <1>1, <1>2 DEF Released
<1>. QED
  BY <1>3, <1>4

LEMMA AlikeExits ==
  ASSUME NEW x, NEW y, Alike(x, y), NEW f, f.bound \in Nat, NEW t
  PROVE  Folded(t, f, x) = Folded(t, f, y) /\ Exit(t, f, x) = Exit(t, f, y)
<1>1. Surfaced(t, x, f.bound) = Surfaced(t, y, f.bound) /\ Released(x, f.bound) = Released(y, f.bound)
  BY AlikeShows
<1>2. Folded(t, f, x) = Folded(t, f, y)
  BY <1>1 DEF Folded
<1>. QED
  BY <1>1, <1>2 DEF Exit

LEMMA SoundAlike ==
  ASSUME NEW s, NEW fr, Sound(s, fr), NEW y, Alike(s.stack, y)
  PROVE  Sound(State(s.tree, s.frames, y), fr)
<1>. DEFINE z == State(s.tree, s.frames, y)
<1>1. z.tree = s.tree /\ z.frames = s.frames /\ z.stack = y /\ z = State(s.tree, s.frames, y)
  BY StateIs
<1>. HIDE DEF z
<1>2. Known(y, fr)
  BY DEF Sound, Known, Alike
<1>3. BoundsOk(s.frames, y)
  BY DEF Sound, BoundsOk, Sits, Alike
<1>4. Sound(z, fr)
  BY <1>1, <1>2, <1>3 DEF Sound, Alike
<1>. QED
  BY <1>4 DEF z

LEMMA ApplyAlike ==
  ASSUME NEW s, NEW fr, Sound(s, fr), NEW y, Alike(s.stack, y), NEW step, Fits(s, step)
  PROVE  LET z == State(s.tree, s.frames, y)
             d == Apply(s, step)
         IN  /\ Fits(z, step)
             /\ Apply(z, step) = State(d.tree, d.frames, Append(y, Child(step)))
<1>. DEFINE z == State(s.tree, s.frames, y)  d == Apply(s, step)  c == Append(y, Child(step))
            b == Append(s.stack, Child(step))
<1>1. z.tree = s.tree /\ z.frames = s.frames /\ z.stack = y
  BY StateIs
<1>2. ASSUME NEW t, NEW fs, d = State(t, fs, b) PROVE d.tree = t /\ d.frames = fs
  <2>. HIDE DEF d, b
  <2>. QED
    BY <1>2, StateIs
<1>. HIDE DEF z
<1>3. CASE step.op = "draw" /\ FitsDraw(s.tree, step)
  <2>1. d = State(ApplyDraw(s.tree, step), s.frames, b)
    BY <1>3, ApplyIs
  <2>2. Apply(z, step) = State(ApplyDraw(s.tree, step), s.frames, c)
    BY <1>1, <1>3, ApplyIs
  <2>. HIDE DEF d, b, c
  <2>. QED
    BY <1>1, <1>2, <1>3, <2>1, <2>2 DEF Fits, z, c, d
<1>4. CASE step.op = "delete" /\ FitsDelete(s.tree, step)
  <2>1. d = State(ApplyDelete(s.tree, step), s.frames, b)
    BY <1>4, ApplyIs
  <2>2. Apply(z, step) = State(ApplyDelete(s.tree, step), s.frames, c)
    BY <1>1, <1>4, ApplyIs
  <2>. HIDE DEF d, b, c
  <2>. QED
    BY <1>1, <1>2, <1>4, <2>1, <2>2 DEF Fits, z, c, d
<1>5. CASE step.op = "group" /\ FitsGroup(s.tree, step)
  <2>1. d = State(ApplyGroup(s.tree, step), s.frames, b)
    BY <1>5, ApplyIs
  <2>2. Apply(z, step) = State(ApplyGroup(s.tree, step), s.frames, c)
    BY <1>1, <1>5, ApplyIs
  <2>. HIDE DEF d, b, c
  <2>. QED
    BY <1>1, <1>2, <1>5, <2>1, <2>2 DEF Fits, z, c, d
<1>6. CASE step.op = "ungroup" /\ FitsUngroup(s.tree, step)
  <2>1. d = State(ApplyUngroup(s.tree, step), s.frames, b)
    BY <1>6, ApplyIs
  <2>2. Apply(z, step) = State(ApplyUngroup(s.tree, step), s.frames, c)
    BY <1>1, <1>6, ApplyIs
  <2>. HIDE DEF d, b, c
  <2>. QED
    BY <1>1, <1>2, <1>6, <2>1, <2>2 DEF Fits, z, c, d
<1>7. CASE step.op = "move" /\ FitsMove(s.tree, step)
  <2>1. d = State(ApplyMove(s.tree, step), s.frames, b)
    BY <1>7, ApplyIs
  <2>2. Apply(z, step) = State(ApplyMove(s.tree, step), s.frames, c)
    BY <1>1, <1>7, ApplyIs
  <2>. HIDE DEF d, b, c
  <2>. QED
    BY <1>1, <1>2, <1>7, <2>1, <2>2 DEF Fits, z, c, d
<1>8. CASE step.op = "open" /\ FitsOpen(s.tree, step)
  <2>1. FrameOf(z, step) = FrameOf(s, step)
    BY <1>1 DEF FrameOf, Alike
  <2>2. d = State(ApplyOpen(s.tree, step), Append(s.frames, FrameOf(s, step)), b)
    BY <1>8, ApplyIs
  <2>3. Apply(z, step) = State(ApplyOpen(s.tree, step), Append(s.frames, FrameOf(s, step)), c)
    BY <1>1, <1>8, <2>1, ApplyIs
  <2>. HIDE DEF d, b, c
  <2>. QED
    BY <1>1, <1>2, <1>8, <2>2, <2>3 DEF Fits, z, c, d
<1>9. CASE step.op = "close" /\ FitsClose(s, step)
  <2>. DEFINE f == Last(s.frames)
  <2>1. f.bound \in Nat
    BY <1>9, TopFrame DEF FitsClose
  <2>2. Folded(s.tree, f, y) = Folded(s.tree, f, s.stack) /\ Exit(s.tree, f, y) = Exit(s.tree, f, s.stack)
    BY <2>1, AlikeExits
  <2>3. Released(y, f.bound) = Released(s.stack, f.bound)
    BY <2>1, AlikeShows
  <2>4. FitsClose(z, step)
    BY <1>1, <1>9, <2>2, <2>3 DEF FitsClose
  <2>5. d = State(Exit(s.tree, f, s.stack), Front(s.frames), b)
    BY <1>9, ApplyIs
  <2>6. Apply(z, step) = State(Exit(s.tree, f, s.stack), Front(s.frames), c)
    BY <1>1, <1>9, <2>2, ApplyIs
  <2>. HIDE DEF d, b, c, f
  <2>. QED
    BY <1>1, <1>2, <1>9, <2>4, <2>5, <2>6 DEF Fits, z, c, d
<1>. QED
  BY <1>3, <1>4, <1>5, <1>6, <1>7, <1>8, <1>9 DEF Fits

-----------------------------------------------------------------------------
(* The entry of an edit links what was to what is.                         *)

\* A first run that fits is an entry of one step.
LEMMA EditLinks ==
  ASSUME NEW s, NEW fr, Sound(s, fr), NEW step, Fits(s, step), May(s, step, fr),
         NEW e, e.steps = <<step>>, e.compound = Child(step).compound,
         e.before = Look(s.tree, s.frames, s.stack)
  PROVE  LET d == Apply(s, step)
         IN  Link(s, e, State(d.tree, d.frames, Append(s.stack, e)), fr)
<1>. DEFINE d == Apply(s, step)  z == State(d.tree, d.frames, Append(s.stack, e))
            v == [i \in 0 .. 1 |-> IF i = 0 THEN s ELSE d]
<1>1. Sound(d, fr) /\ step.node \notin fr /\ d.stack = Append(s.stack, Child(step)) /\ IsSeq(s.stack)
  BY Keeps, ApplyStack DEF May, Sound
<1>2. Took(s, step, d, fr)
  BY <1>1 DEF Took
<1>3. v[0] = s /\ v[1] = d
  OBVIOUS
<1>4. Len(e.steps) = 1 /\ e.steps[1] = step /\ Whole(e)
  BY OneStep DEF Whole
<1>. HIDE DEF v, d
<1>5. Way(v, s, e, fr)
  <2>1. \A i \in 1 .. Len(e.steps) : i = 1
    BY <1>4
  <2>. QED
    BY <1>2, <1>3, <1>4, <2>1 DEF Way
<1>6. Ends(v, s, e, z)
  BY <1>3, <1>4 DEF Ends
<1>7. Alike(d.stack, Append(s.stack, e))
  <2>1. Alike(s.stack, s.stack)
    BY <1>1 DEF Alike
  <2>2. Child(step).steps = e.steps
    BY ChildIs
  <2>. QED
    BY <1>1, <2>1, <2>2, AlikeGrows
<1>8. Sound(z, fr)
  BY <1>1, <1>7, SoundAlike
<1>9. Single(e)
  BY DEF Single
<1>. HIDE DEF z
<1>10. Link(s, e, z, fr)
  BY <1>4, <1>5, <1>6, <1>8, <1>9 DEF Link
<1>. QED
  BY <1>10 DEF z, d

-----------------------------------------------------------------------------
(* A collapsed bracket: one entry with the steps of its own entries.       *)

\* Flattening sequences of one element each.
LEMMA FlattenSingles ==
  ASSUME NEW n \in Nat, n # 0, NEW seqs, IsSeq(seqs), Len(seqs) = n,
         \A i \in 1 .. n : \E x : seqs[i] = <<x>>
  PROVE  /\ Len(FlattenSeq(seqs)) = n
         /\ \A i \in 1 .. n : seqs[i] = <<FlattenSeq(seqs)[i]>>
<1>. DEFINE g == CHOOSE f : f = [i \in 1 .. n |-> IF i = 1 THEN seqs[i] ELSE f[i - 1] \o seqs[i]]
<1>1. FlattenSeq(seqs) = g[n]
  <2>1. Len(seqs) # 0
    OBVIOUS
  <2>2. seqs # <<>>
    BY <2>1, EmptyFacts
  <2>. QED
    BY <2>2 DEF FlattenSeq
<1>2. \E f : f = [i \in 1 .. n |-> IF i = 1 THEN seqs[i] ELSE f[i - 1] \o seqs[i]]
  BY FlatteningExists DEF Flattens
<1>3. g = [i \in 1 .. n |-> IF i = 1 THEN seqs[i] ELSE g[i - 1] \o seqs[i]]
  BY <1>2, Zenon
<1>. HIDE DEF g
<1>8. \A i \in 1 .. n : g[i] = IF i = 1 THEN seqs[i] ELSE g[i - 1] \o seqs[i]
  BY <1>3
<1>4. g[1] = seqs[1] /\ \A i \in 1 .. n : i # 1 => g[i] = g[i - 1] \o seqs[i]
  <2>1. 1 \in 1 .. n
    OBVIOUS
  <2>. QED
    BY <1>8, <2>1
<1>. DEFINE S == {k \in 0 .. n : k = 0 \/ (/\ IsSeq(g[k]) /\ Len(g[k]) = k
                                           /\ \A i \in 1 .. k : seqs[i] = <<g[k][i]>>)}
<1>5. 0 \in S
  OBVIOUS
<1>6. ASSUME NEW k \in 0 .. n - 1, k \in S PROVE k + 1 \in S
  <2>1. k \in Nat /\ k + 1 \in 1 .. n /\ k + 1 \in 0 .. n /\ k + 1 - 1 = k
    OBVIOUS
  <2>2. PICK x : seqs[k + 1] = <<x>>
    BY <2>1
  <2>3. IsSeq(<<x>>) /\ Len(<<x>>) = 1 /\ <<x>>[1] = x
    BY OneStep
  <2>4. CASE k = 0
    <3>1. g[k + 1] = <<x>>
      BY <1>4, <2>1, <2>2, <2>4
    <3>2. \A i \in 1 .. k + 1 : i = 1
      BY <2>4
    <3>. QED
      BY <2>1, <2>2, <2>3, <2>4, <3>1, <3>2
  <2>5. CASE k # 0
    <3>1. /\ IsSeq(g[k]) /\ Len(g[k]) = k
          /\ \A i \in 1 .. k : seqs[i] = <<g[k][i]>>
      BY <1>6, <2>5
    <3>2. g[k + 1] = g[k] \o <<x>>
      <4>. DEFINE j == k + 1
      <4>1. j \in 1 .. n /\ j # 1 /\ j - 1 = k /\ seqs[j] = <<x>>
        BY <2>1, <2>2, <2>5
      <4>. HIDE DEF j
      <4>2. g[j] = g[j - 1] \o seqs[j]
        BY <1>4, <4>1, Zenon
      <4>3. g[j] = g[k] \o <<x>>
        BY <4>1, <4>2, Zenon
      <4>. QED
        BY <4>3 DEF j
    <3>3. g[k] \in Seq(Stack(g[k])) /\ <<x>> = Append(<<>>, x)
      BY <3>1 DEF IsSeq
    <3>4. g[k] \o <<x>> = Append(g[k], x)
      <4>. DEFINE U == Stack(g[k]) \cup {x}
      <4>1. g[k] \in Seq(U) /\ x \in U
        BY <3>3, SeqMonotonic
      <4>. HIDE DEF U
      <4>. QED
        BY <4>1, AppendIsConcat
    <3>5. /\ IsSeq(g[k + 1]) /\ Len(g[k + 1]) = k + 1
          /\ \A i \in 1 .. k : g[k + 1][i] = g[k][i]
          /\ g[k + 1][k + 1] = x
      <4>. DEFINE b == g[k]
      <4>1. IsSeq(b) /\ Len(b) = k
        BY <3>1
      <4>2. g[k + 1] = Append(b, x)
        BY <3>2, <3>4
      <4>. HIDE DEF b
      <4>3. /\ IsSeq(Append(b, x)) /\ Len(Append(b, x)) = k + 1
            /\ \A i \in 1 .. k : Append(b, x)[i] = b[i]
            /\ Append(b, x)[k + 1] = x
        BY <4>1, AppendFacts
      <4>. QED
        BY <4>2, <4>3 DEF b
    <3>6. ASSUME NEW i \in 1 .. k + 1 PROVE seqs[i] = <<g[k + 1][i]>>
      <4>1. i \in 1 .. k \/ i = k + 1
        BY <2>1
      <4>. QED
        BY <2>2, <3>1, <3>5, <4>1
    <3>. QED
      BY <2>1, <3>5, <3>6
  <2>. QED
    BY <2>4, <2>5
<1>. HIDE DEF S
<1>7. n \in S
  <2>1. \A k \in 0 .. n : k \in S
    BY <1>5, <1>6, UpTo
  <2>. QED
    BY <2>1
<1>. QED
  BY <1>1, <1>7 DEF S

\* The stack with the first j children of a collapsed bracket on it.
Filled(stack, steps, j) ==
  [i \in 1 .. Len(stack) + j |-> IF i <= Len(stack) THEN stack[i] ELSE Child(steps[i - Len(stack)])]

FilledParts(stack, steps, j) ==
  /\ IsSeq(Filled(stack, steps, j)) /\ Len(Filled(stack, steps, j)) = Len(stack) + j
  /\ \A i \in 1 .. Len(stack) : Filled(stack, steps, j)[i] = stack[i]
  /\ \A i \in 1 .. j : Filled(stack, steps, j)[Len(stack) + i] = Child(steps[i])

LEMMA FilledIs ==
  ASSUME NEW stack, IsSeq(stack), NEW steps, NEW j \in Nat
  PROVE  FilledParts(stack, steps, j)
<1>. DEFINE x == Filled(stack, steps, j)  n == Len(stack)  T == Stack(stack) \cup {Child(steps[i]) : i \in 1 .. j}
<1>1. n \in Nat /\ \A i \in 1 .. n : stack[i] \in Stack(stack)
  BY SeqFacts
<1>2. DOMAIN x = 1 .. n + j /\ \A i \in 1 .. n : x[i] = stack[i]
  BY <1>1 DEF Filled
<1>3. \A i \in 1 .. j : x[n + i] = Child(steps[i])
  <2>1. TAKE i \in 1 .. j
  <2>2. n + i \in 1 .. n + j /\ ~ (n + i <= n) /\ n + i - n = i
    BY <1>1
  <2>. QED
    BY <2>2 DEF Filled
<1>4. x \in [1 .. n + j -> T]
  <2>1. ASSUME NEW i \in 1 .. n + j PROVE x[i] \in T
    <3>1. CASE i <= n
      <4>1. i \in 1 .. n
        BY <1>1, <3>1
      <4>. QED
        BY <1>1, <1>2, <4>1
    <3>2. CASE ~ (i <= n)
      <4>1. i - n \in 1 .. j /\ n + (i - n) = i
        BY <1>1, <3>2
      <4>2. x[i] = Child(steps[i - n])
        BY <1>3, <4>1
      <4>. QED
        BY <4>1, <4>2
    <3>. QED
      BY <3>1, <3>2
  <2>. QED
    BY <2>1 DEF Filled
<1>. HIDE DEF x, T
<1>5. n + j \in Nat
  BY <1>1
<1>. HIDE DEF n
<1>6. x \in Seq(T) /\ Len(x) = n + j
  <2>1. x \in Seq(T)
    BY <1>4, <1>5, SeqDef
  <2>. QED
    BY <1>2, <1>5, <2>1, LenProperties
<1>7. IsSeq(x)
  BY <1>6, SeqOfOwn
<1>. QED
  BY <1>2, <1>3, <1>6, <1>7 DEF x, n, FilledParts

\* Two sequences with the same elements are the same.
LEMMA SameSeq ==
  ASSUME NEW x, IsSeq(x), NEW y, IsSeq(y), Len(x) = Len(y), \A i \in 1 .. Len(x) : x[i] = y[i]
  PROVE  x = y
<1>. DEFINE T == Stack(x) \cup Stack(y)
<1>1. x \in Seq(T) /\ y \in Seq(T)
  BY SeqMonotonic DEF IsSeq
<1>. HIDE DEF T
<1>. QED
  BY <1>1, SeqEqual

LEMMA FilledGrows ==
  ASSUME NEW stack, IsSeq(stack), NEW steps, NEW j \in Nat
  PROVE  Filled(stack, steps, j + 1) = Append(Filled(stack, steps, j), Child(steps[j + 1]))
<1>. DEFINE n == Len(stack)  x == Filled(stack, steps, j + 1)  b == Filled(stack, steps, j)
            y == Append(b, Child(steps[j + 1]))
<1>1. /\ IsSeq(x) /\ Len(x) = n + (j + 1) /\ n \in Nat
      /\ \A i \in 1 .. n : x[i] = stack[i]
      /\ \A i \in 1 .. j + 1 : x[n + i] = Child(steps[i])
  BY FilledIs, SeqFacts DEF FilledParts
<1>2. /\ IsSeq(b) /\ Len(b) = n + j
      /\ \A i \in 1 .. n : b[i] = stack[i]
      /\ \A i \in 1 .. j : b[n + i] = Child(steps[i])
  BY FilledIs DEF FilledParts
<1>. HIDE DEF x, b
<1>3. /\ IsSeq(y) /\ Len(y) = n + j + 1
      /\ \A i \in 1 .. n + j : y[i] = b[i]
      /\ y[n + j + 1] = Child(steps[j + 1])
  BY <1>2, AppendFacts
<1>. HIDE DEF y, n
<1>4. ASSUME NEW i \in 1 .. Len(x) PROVE x[i] = y[i]
  <2>1. CASE i <= n
    <3>1. i \in 1 .. n /\ i \in 1 .. n + j
      BY <1>1, <2>1
    <3>. QED
      BY <1>1, <1>2, <1>3, <3>1
  <2>2. CASE i = n + j + 1
    <3>1. i = n + (j + 1) /\ j + 1 \in 1 .. j + 1
      BY <1>1, <2>2
    <3>. QED
      BY <1>1, <1>3, <2>2, <3>1
  <2>3. CASE i > n /\ i # n + j + 1
    <3>1. i - n \in 1 .. j /\ i - n \in 1 .. j + 1 /\ n + (i - n) = i /\ i \in 1 .. n + j
      BY <1>1, <2>3
    <3>. QED
      BY <1>1, <1>2, <1>3, <3>1
  <2>. QED
    BY <1>1, <2>1, <2>2, <2>3
<1>5. Len(x) = Len(y)
  BY <1>1, <1>3
<1>6. x = y
  BY <1>1, <1>3, <1>4, <1>5, SameSeq
<1>. QED
  BY <1>6 DEF x, y, b

LEMMA FilledNone ==
  ASSUME NEW stack, IsSeq(stack), NEW steps
  PROVE  Filled(stack, steps, 0) = stack
<1>. DEFINE x == Filled(stack, steps, 0)
<1>1. IsSeq(x) /\ Len(x) = Len(stack) /\ \A i \in 1 .. Len(stack) : x[i] = stack[i]
  BY FilledIs, SeqFacts DEF FilledParts
<1>. HIDE DEF x
<1>2. x = stack
  BY <1>1, SameSeq
<1>. QED
  BY <1>2 DEF x

\* What the link of an entry of one step says of the step.
LEMMA SingleTook ==
  ASSUME NEW c, NEW e, NEW d, NEW fr, Link(c, e, d, fr), NEW step, e.steps = <<step>>
  PROVE  /\ Sound(c, fr) /\ Sound(d, fr) /\ Fits(c, step) /\ step.node \notin fr
         /\ d.tree = Apply(c, step).tree /\ d.frames = Apply(c, step).frames
         /\ d.stack = Append(c.stack, e)
<1>1. PICK v : Way(v, c, e, fr) /\ Ends(v, c, e, d)
  BY DEF Link
<1>2. Len(e.steps) = 1 /\ e.steps[1] = step
  OBVIOUS
<1>3. Took(c, step, v[1], fr)
  <2>1. 1 \in 1 .. Len(e.steps)
    BY <1>2
  <2>2. Took(v[1 - 1], e.steps[1], v[1], fr) /\ v[0] = c
    BY <1>1, <2>1 DEF Way
  <2>. QED
    BY <1>2, <2>2
<1>4. d.tree = v[1].tree /\ d.frames = v[1].frames
  <2>. DEFINE x == v[1].tree  y == v[1].frames  z == Append(c.stack, e)
  <2>1. d = State(x, y, z)
    BY <1>1, <1>2 DEF Ends
  <2>. HIDE DEF x, y, z
  <2>2. d.tree = x /\ d.frames = y
    BY <2>1, StateIs
  <2>. QED
    BY <2>2 DEF x, y
<1>. QED
  BY <1>3, <1>4, LinkEnds DEF Took

LEMMA KnownMore ==
  ASSUME NEW stack, NEW fr, IsSeq(stack), Known(stack, fr), NEW e, Whole(e),
         \A j \in 1 .. Len(e.steps) : KnownStep(e.steps[j], fr)
  PROVE  Known(Append(stack, e), fr)
<1>. DEFINE x == Append(stack, e)
<1>1. /\ Len(x) = Len(stack) + 1 /\ Len(stack) \in Nat
      /\ \A i \in 1 .. Len(stack) : x[i] = stack[i]
      /\ x[Len(stack) + 1] = e
  BY AppendFacts
<1>. HIDE DEF x
<1>2. DOMAIN e.steps = 1 .. Len(e.steps) /\ Len(e.steps) >= 1 /\ Len(e.steps) \in Nat
  BY SeqFacts DEF Whole
<1>3. 1 \in DOMAIN e.steps
  BY <1>2
<1>4. ASSUME NEW i \in 1 .. Len(x)
      PROVE  1 \in DOMAIN x[i].steps /\ \A j \in DOMAIN x[i].steps : KnownStep(x[i].steps[j], fr)
  <2>1. i \in 1 .. Len(stack) \/ i = Len(stack) + 1
    BY <1>1
  <2>. QED
    BY <1>1, <1>2, <1>3, <2>1 DEF Known
<1>5. Known(x, fr)
  BY <1>4 DEF Known
<1>. QED
  BY <1>5 DEF x

LEMMA BoundsMore ==
  ASSUME NEW frames, NEW stack, IsSeq(stack), BoundsOk(frames, stack), NEW e
  PROVE  BoundsOk(frames, Append(stack, e))
<1>. DEFINE x == Append(stack, e)
<1>1. /\ Len(x) = Len(stack) + 1 /\ Len(stack) \in Nat
      /\ \A i \in 1 .. Len(stack) : x[i] = stack[i]
  BY AppendFacts
<1>. HIDE DEF x
<1>2. \A i \in 1 .. Len(frames) : Sits(frames[i], x)
  <2>1. TAKE i \in 1 .. Len(frames)
  <2>2. Sits(frames[i], stack)
    BY DEF BoundsOk
  <2>3. frames[i].bound \in 1 .. Len(stack) /\ frames[i].bound \in 1 .. Len(x)
    BY <1>1, <2>2 DEF Sits
  <2>4. x[frames[i].bound] = stack[frames[i].bound]
    BY <1>1, <2>3
  <2>. QED
    BY <2>2, <2>3, <2>4 DEF Sits
<1>. QED
  BY <1>2 DEF BoundsOk, x

\* The collapse of the entries of one step from k on links the document of
\* the time of k to what is.
LEMMA CollapseLinks ==
  ASSUME NEW W, NEW s, NEW fr, Stands(W, s, <<>>, fr), NEW k \in 0 .. Len(s.stack) - 1,
         \A i \in k + 1 .. Len(s.stack) : Single(s.stack[i]),
         NEW e, e.compound = TRUE, Whole(e), Len(e.steps) = Len(s.stack) - k,
         \A j \in 1 .. Len(e.steps) : s.stack[k + j].steps = <<e.steps[j]>>,
         e.before = Look(W[k].tree, W[k].frames, W[k].stack),
         BoundsOk(s.frames, W[k].stack)
  PROVE  Link(W[k], e, State(s.tree, s.frames, Append(W[k].stack, e)), fr)
<1>. DEFINE u == s.stack  n == Len(u)  m == n - k  c == W[k]  steps == e.steps
            X(j) == Filled(c.stack, steps, j)
            d == State(s.tree, s.frames, Append(c.stack, e))
            v == [j \in 0 .. m |-> State(W[k + j].tree, W[k + j].frames, X(j))]
<1>1. IsSeq(u) /\ n \in Nat /\ History(W, u, fr) /\ W[n] = s
  BY TimelineOfUndo, SeqFacts DEF Stands
<1>2. k \in Nat /\ m \in Nat /\ m >= 1 /\ k \in 0 .. n /\ k + m = n /\ Len(steps) = m
  BY <1>1
<1>3. Sound(c, fr) /\ Len(c.stack) = k /\ Begins(c.stack, u) /\ IsSeq(c.stack)
  BY <1>1, <1>2 DEF History, Sound
<1>4. ASSUME NEW j \in 0 .. m
      PROVE  /\ Sound(W[k + j], fr) /\ Alike(W[k + j].stack, X(j))
  <2>1. k + j \in 0 .. n /\ j \in Nat
    BY <1>1, <1>2
  <2>2. Sound(W[k + j], fr) /\ Len(W[k + j].stack) = k + j /\ Begins(W[k + j].stack, u)
    BY <1>1, <2>1 DEF History
  <2>3. IsSeq(W[k + j].stack)
    BY <2>2 DEF Sound
  <2>. DEFINE x == W[k + j].stack  y == X(j)
  <2>4. /\ IsSeq(y) /\ Len(y) = k + j
        /\ \A i \in 1 .. k : y[i] = c.stack[i]
        /\ \A i \in 1 .. j : y[k + i] = Child(steps[i])
    <3>1. j \in Nat
      BY <2>1
    <3>2. FilledParts(c.stack, steps, j)
      BY <1>3, <3>1, FilledIs
    <3>. QED
      BY <1>3, <3>2 DEF FilledParts
  <2>5. ASSUME NEW i \in 1 .. k + j PROVE x[i].steps = y[i].steps /\ x[i].compound = y[i].compound
    <3>1. x[i] = u[i]
      BY <2>2 DEF Begins
    <3>. HIDE DEF x, y
    <3>2. CASE i <= k
      <4>1. i \in 1 .. k
        BY <1>2, <3>2
      <4>2. c.stack[i] = u[i]
        BY <1>3, <4>1 DEF Begins
      <4>. QED
        BY <2>4, <3>1, <4>1, <4>2
    <3>3. CASE ~ (i <= k)
      <4>. DEFINE l == i - k
      <4>1. l \in 1 .. j /\ l \in 1 .. m /\ k + l = i /\ i \in k + 1 .. n
        BY <1>1, <1>2, <2>1, <3>3
      <4>. HIDE DEF l
      <4>2. u[k + l].steps = <<steps[l]>>
        BY <1>2, <4>1
      <4>3. PICK step : u[i].steps = <<step>> /\ u[i].compound = Child(step).compound
        BY <4>1 DEF Single
      <4>4. step = steps[l]
        BY <4>1, <4>2, <4>3
      <4>5. y[i] = Child(steps[l])
        BY <2>4, <4>1
      <4>. QED
        BY <3>1, <4>3, <4>4, <4>5, ChildIs
    <3>. QED
      BY <3>2, <3>3
  <2>6. Alike(x, y)
    BY <2>2, <2>3, <2>4, <2>5 DEF Alike
  <2>. QED
    BY <2>2, <2>6
<1>5. \A j \in 0 .. m : v[j] = State(W[k + j].tree, W[k + j].frames, X(j))
  OBVIOUS
<1>. HIDE DEF v
<1>6. \A j \in 0 .. m : Sound(v[j], fr)
  BY <1>4, <1>5, SoundAlike
<1>7. ASSUME NEW j \in 1 .. m PROVE Took(v[j - 1], steps[j], v[j], fr)
  <2>. DEFINE i == k + j  a == W[i - 1]  step == steps[j]  l == j - 1
  <2>1. /\ i \in 1 .. n /\ j \in 0 .. m /\ l \in 0 .. m /\ k + l = i - 1 /\ l \in Nat /\ l + 1 = j
    BY <1>1, <1>2
  <2>2. Link(a, u[i], W[i], fr)
    BY <1>1, <2>1 DEF History
  <2>3. u[i].steps = <<step>>
    BY <1>2
  <2>. HIDE DEF a
  <2>4. /\ Fits(a, step) /\ step.node \notin fr
        /\ W[i].tree = Apply(a, step).tree /\ W[i].frames = Apply(a, step).frames
    BY <2>2, <2>3, SingleTook
  <2>5. Sound(a, fr) /\ Alike(a.stack, X(l)) /\ v[l] = State(a.tree, a.frames, X(l))
    BY <1>4, <1>5, <2>1 DEF a
  <2>. DEFINE xl == X(l)  z == State(a.tree, a.frames, xl)
  <2>. HIDE DEF xl
  <2>6. /\ Fits(z, step)
        /\ Apply(z, step) = State(Apply(a, step).tree, Apply(a, step).frames, Append(xl, Child(step)))
    BY <2>4, <2>5, ApplyAlike DEF xl
  <2>7. X(j) = Append(xl, Child(step))
    <3>1. X(l + 1) = Append(X(l), Child(steps[l + 1]))
      BY <1>3, <2>1, FilledGrows
    <3>. QED
      BY <2>1, <3>1 DEF xl
  <2>8. v[j] = Apply(z, step)
    BY <1>5, <2>1, <2>4, <2>6, <2>7
  <2>9. v[l] = z
    BY <2>5 DEF xl
  <2>10. Sound(v[l], fr) /\ Sound(v[j], fr)
    BY <1>6, <2>1
  <2>. HIDE DEF z
  <2>11. Took(v[l], step, v[j], fr)
    BY <2>4, <2>6, <2>8, <2>9, <2>10 DEF Took
  <2>. QED
    BY <2>11
<1>8. v[0] = c
  <2>1. 0 \in 0 .. m /\ k + 0 = k
    BY <1>2
  <2>2. v[0] = State(c.tree, c.frames, X(0)) /\ X(0) = c.stack
    BY <1>3, <1>5, <2>1, FilledNone
  <2>3. c = State(c.tree, c.frames, c.stack)
    BY <1>3 DEF Sound
  <2>. QED
    BY <2>2, <2>3
<1>9. v[m].tree = s.tree /\ v[m].frames = s.frames
  <2>1. m \in 0 .. m /\ W[k + m] = s
    BY <1>1, <1>2
  <2>2. v[m] = State(s.tree, s.frames, X(m))
    BY <1>5, <2>1
  <2>. QED
    BY <2>2, StateIs
<1>10. Sound(d, fr)
  <2>1. Sound(s, fr)
    BY <1>1 DEF History
  <2>. DEFINE x == Append(c.stack, e)
  <2>2. IsSeq(x)
    BY <1>3, AppendFacts
  <2>3. ASSUME NEW j \in 1 .. Len(steps) PROVE KnownStep(steps[j], fr)
    <3>1. k + j \in 1 .. n
      BY <1>1, <1>2
    <3>2. u[k + j].steps = <<steps[j]>>
      OBVIOUS
    <3>3. 1 \in DOMAIN u[k + j].steps /\ u[k + j].steps[1] = steps[j]
      BY <3>2
    <3>4. Known(u, fr)
      BY <2>1 DEF Sound
    <3>. QED
      BY <3>1, <3>3, <3>4 DEF Known
  <2>4. Known(x, fr)
    BY <1>3, <2>3, KnownMore DEF Sound
  <2>5. BoundsOk(s.frames, x)
    BY <1>3, BoundsMore
  <2>6. d = State(s.tree, s.frames, x)
    OBVIOUS
  <2>. HIDE DEF x, d
  <2>7. d.tree = s.tree /\ d.frames = s.frames /\ d.stack = x
    BY <2>6, StateIs
  <2>. QED
    BY <2>1, <2>2, <2>4, <2>5, <2>6, <2>7 DEF Sound
<1>11. Way(v, c, e, fr)
  <2>. HIDE DEF m
  <2>. QED
    BY <1>2, <1>7, <1>8 DEF Way
<1>12. Ends(v, c, e, d)
  BY <1>2, <1>9 DEF Ends
<1>. HIDE DEF c, d
<1>13. Link(c, e, d, fr)
  BY <1>10, <1>11, <1>12 DEF Link, c
<1>. QED
  BY <1>13 DEF c, d

-----------------------------------------------------------------------------
(* The actions keep the history that the document stands on.              *)

\* The parts of a sound state.
LEMMA SoundParts ==
  ASSUME NEW t, NEW frames, NEW stack, NEW fr, Sound(State(t, frames, stack), fr)
  PROVE  /\ TreeOk(t, fr) /\ FramesOk(t, frames, fr) /\ BoundsOk(frames, stack)
         /\ IsSeq(stack) /\ IsSeq(frames) /\ Known(stack, fr)
BY StateIs DEF Sound, FramesOk

\* The document as it is, and as the open bracket found it.
Now == State(tree, sessions, undo)
Found == State(bracket.tree, bracket.sessions, bracket.undo)

\* What an edit of the document t does to the history.
Recorded(t, step) ==
  LET s == Apply(State(t, sessions, undo), step)
  IN  /\ tree' = s.tree
      /\ fresh' = fresh \ Creates(step)
      /\ sessions' = s.frames
      /\ undo' = Append(undo, [Child(step) EXCEPT !.before = Look(tree, sessions, undo)])
      /\ redo' = <<>>
      /\ pushes'.redo = pushes.redo
      /\ bracket' = bracket

\* Record writes the one entry, and leaves the bracket alone.
LEMMA RecordIs ==
  ASSUME StackInv, NEW t, NEW step, RecordOn(t, step)
  PROVE  Recorded(t, step)
<1>1. pushes \in [undo : Nat, redo : Nat]
  BY DEF StackInv, StacksHold, Counts
<1>2. [pushes EXCEPT !.undo = @ + 1].redo = pushes.redo
  BY <1>1
<1>. QED BY <1>2 DEF RecordOn, Recorded

LEMMA EntryIs ==
  ASSUME NEW step, NEW look
  PROVE  LET e == [Child(step) EXCEPT !.before = look]
         IN  e.steps = <<step>> /\ e.compound = Child(step).compound /\ e.before = look
BY DEF Child

\* The edit of t fits the document that the history stands on.
Suits(W, t, step) ==
  LET s == State(t, sessions, undo)
      fr == fresh \ Creates(step)
  IN  /\ Stands(W, s, <<>>, fr)
      /\ Fits(s, step) /\ May(s, step, fr)
      /\ Look(t, sessions, undo) = Look(tree, sessions, undo)
      /\ UngroupsSeen => Clear(s, step)

LEMMA StandsScoped ==
  ASSUME NEW W, NEW s, NEW r, NEW fr, Stands(W, s, r, fr), UngroupsSeen
  PROVE  Scoped(s, fr)
<1>. DEFINE n == Len(Timeline(s.stack, r))
<1>1. Len(s.stack) \in 0 .. n /\ W[Len(s.stack)] = s
  BY StandsFacts DEF Stands
<1>2. AllScoped(W, n, fr)
  BY DEF Stands, History
<1>. HIDE DEF n
<1>. QED BY <1>1, <1>2 DEF AllScoped

\* After an edit the document stands on the old history and one entry more.
LEMMA RecordedStands ==
  ASSUME NEW W, NEW t, NEW step, Recorded(t, step), Suits(W, t, step)
  PROVE  /\ Stands(Grown(W, Len(undo), Now'), Now', <<>>, fresh')
         /\ Link(State(t, sessions, undo), Last(undo'), Now', fresh')
<1>. DEFINE s == State(t, sessions, undo)
           fr == fresh \ Creates(step)
           e == [Child(step) EXCEPT !.before = Look(tree, sessions, undo)]
           d == Apply(s, step)
<1>1. s.tree = t /\ s.frames = sessions /\ s.stack = undo
  BY StateIs
<1>2. e.steps = <<step>> /\ e.compound = Child(step).compound
      /\ e.before = Look(s.tree, s.frames, s.stack)
  BY EntryIs, <1>1 DEF Suits
<1>3. Stands(W, s, <<>>, fr) /\ Fits(s, step) /\ May(s, step, fr)
  BY DEF Suits
<1>4. Now' = State(d.tree, d.frames, Append(s.stack, e)) /\ fresh' = fr /\ undo' = Append(undo, e)
  BY <1>1 DEF Recorded, Now
<1>5. Sound(s, fr) /\ IsSeq(s.stack)
  BY <1>3, StandsFacts DEF Stands
<1>6. Last(undo') = e
  BY <1>1, <1>4, <1>5, AppendFacts
<1>. HIDE DEF s, fr, e, d
<1>7. Link(s, e, State(d.tree, d.frames, Append(s.stack, e)), fr)
  BY <1>2, <1>3, <1>5, EditLinks DEF d
<1>9. UngroupsSeen => Scoped(Now', fr)
  <2>1. UngroupsSeen => Scoped(s, fr) /\ Clear(s, step)
    BY <1>3, StandsScoped DEF Suits, s
  <2>2. UngroupsSeen => Scoped(State(d.tree, d.frames, Append(s.stack, e)), fr)
    BY <1>2, <1>3, <1>5, <2>1, ScopedStep DEF d
  <2>. QED BY <1>4, <2>2
<1>8. Stands(Grown(W, Len(s.stack), Now'), Now', <<>>, fr)
  BY <1>3, <1>4, <1>7, <1>9, GrowStands
<1>. QED BY <1>1, <1>4, <1>6, <1>7, <1>8 DEF s

\* What a save would write in the state s.
FileOf(s) == Written(SessionClosed(s.tree, s.frames, s.stack))

\* Two histories of n entries that write the same files all along.
SameFiles(W, X, n) ==
  \A i \in 0 .. n : /\ X[i].stack = W[i].stack /\ FileOf(X[i]) = FileOf(W[i])
                     /\ X[i].tree.line = W[i].tree.line

LEMMA ItsOwnFiles ==
  ASSUME NEW W, NEW n
  PROVE  SameFiles(W, W, n)
BY DEF SameFiles

\* A late record of a group changes no file.
LEMMA AmendedFiles ==
  ASSUME NEW W, NEW s, NEW r, NEW fr, Stands(W, s, r, fr),
         NEW g \in fr, NEW ms, NEW p, Formed(g, ms, p)
  PROVE  LET n == Len(Timeline(s.stack, r))
         IN  SameFiles(W, Amended(W, n, g, ms, p), n)
<1>. DEFINE n == Len(Timeline(s.stack, r))
           X == Amended(W, n, g, ms, p)
<1>1. ASSUME NEW i \in 0 .. n
      PROVE  /\ X[i].stack = W[i].stack /\ FileOf(X[i]) = FileOf(W[i])
             /\ X[i].tree.line = W[i].tree.line
  <2>1. Sound(W[i], fr)
    BY DEF Stands, History
  <2>2. X[i] = LaterState(W[i], g, ms, p)
    BY DEF Amended
  <2>. HIDE DEF X
  <2>3. X[i].tree = WithGroup(W[i].tree, g, ms, p) /\ X[i].frames = W[i].frames
        /\ X[i].stack = W[i].stack
    BY <2>2, LaterParts
  <2>4. Written(SessionClosed(WithGroup(W[i].tree, g, ms, p), W[i].frames, W[i].stack))
          = Written(SessionClosed(W[i].tree, W[i].frames, W[i].stack))
    BY <2>1, LookLate
  <2>5. WithGroup(W[i].tree, g, ms, p).line = W[i].tree.line
    <3>1. W[i].tree \in Trees /\ g \in Groups
      BY <2>1 DEF Sound, TreeOk, Formed
    <3>2. \A t : t \in Trees => WithGroup(t, g, ms, p).line = t.line
      BY DEF WithGroup, Trees
    <3>. QED BY <3>1, <3>2
  <2>. QED BY <2>3, <2>4, <2>5 DEF FileOf
<1>. QED BY <1>1 DEF SameFiles

\* Nothing was released where no ungroup could.
LEMMA ReleasedNone ==
  ASSUME NEW stack, NEW fr, IsSeq(stack), Known(stack, fr), NEW b \in Nat,
         Drawn = {} \/ "ungroup" \notin Ops
  PROVE  Released(stack, b) = {}
<1>1. Len(stack) \in Nat
  BY SeqFacts
<1>2. ASSUME NEW i \in b + 1 .. Len(stack), NEW s \in Stack(stack[i].steps), s.op = "ungroup"
      PROVE  s.lines = {}
  <2>1. i \in 1 .. Len(stack)
    BY <1>1
  <2>2. KnownStep(s, fr)
    BY <1>2, <2>1 DEF Known, Stack
  <2>. QED BY <2>2, <1>2 DEF KnownStep
<1>. QED BY <1>2 DEF Released

LEMMA LiveIsOld ==
  ASSUME NEW t, NEW fr, TreeOk(t, fr), NEW n \in Live(t)
  PROVE  n \notin fr /\ n \in Nodes
BY DEF TreeOk, Live

\* A step on what there is, outside no session.
LEMMA OldIsClear ==
  ASSUME NEW s, NEW step, step.op \in {"delete", "open", "close"}
  PROVE  Clear(s, step)
BY DEF Clear, Creates

\* What is grouped in a session is not from outside it.
LEMMA GroupedIsClear ==
  ASSUME NEW W, Stands(W, Now, <<>>, fresh), NEW g \in Groups, NEW ms \in SUBSET Nodes,
         Group(g, ms), UngroupsSeen, NEW t, NEW step, step.op = "group", step.node = g,
         step.members = ms
  PROVE  Clear(State(t, sessions, undo), step)
<1>1. Scoped(Now, fresh)
  BY StandsScoped
<1>2. Now.tree = tree /\ Now.frames = sessions /\ Now.stack = undo
  BY StateIs DEF Now
<1>3. Apart(Now) /\ Aside(Now, fresh) /\ Nested(Now) /\ Gone(Now, fresh)
  BY <1>1 DEF Scoped
<1>4. g \in fresh /\ ms \subseteq Live(tree) /\ (sessions # <<>> => \A m \in ms : InScope(m))
  BY DEF Group
<1>. DEFINE m == Len(sessions)
<1>5. IsSeq(sessions)
  BY StandsFacts, SoundParts DEF Now
<1>6. m \in Nat
  BY <1>5, SeqFacts
<1>7. ASSUME NEW j \in 1 .. m, NEW n \in sessions[j].outside, n \in ms
      PROVE  FALSE
  <2>1. n \in Nodes /\ n \in Live(tree) /\ tree.parent[n] = Top
    BY <1>2, <1>3, <1>4, <1>7 DEF Aside
  <2>2. sessions # <<>> /\ m \in 1 .. m
    BY <1>5, <1>6, <1>7, EmptyFacts
  <2>3. Chain(n) \subseteq {n}
    <3>1. {n} \in SUBSET Nodes /\ n \in {n} /\ \A k \in {n} : tree.parent[k] \in {n} \cup {Top}
      BY <2>1
    <3>. QED BY <3>1 DEF Chain
  <2>4. n \in Scope(tree, sessions, undo)
    BY <1>4, <1>7, <2>2, <2>3 DEF InScope
  <2>5. n \in Its(Now, m)
    BY <1>2, <2>4 DEF Scope, Its, Last
  <2>6. n \in Under(Now, m)
    BY <1>2, <2>1 DEF Under, TopLevel
  <2>7. n \notin sessions[m].outside
    BY <1>2, <1>3, <2>2, <2>5, <2>6 DEF Apart
  <2>8. j = m \/ j < m
    BY <1>6
  <2>9. CASE j < m
    BY <1>2, <1>3, <1>7, <2>1, <2>2, <2>7, <2>9 DEF Nested
  <2>. QED BY <1>7, <2>7, <2>8, <2>9
<1>8. \A j \in 1 .. m : \A n \in sessions[j].outside : n \notin fresh
  BY <1>2, <1>3 DEF Aside
<1>9. g \notin Dissolved(undo)
  BY <1>2, <1>3, <1>4 DEF Gone
<1>. DEFINE s == State(t, sessions, undo)
<1>10. s.frames = sessions /\ s.stack = undo
  BY StateIs
<1>. HIDE DEF s
<1>11. Creates(step) = {g}
  BY DEF Creates
<1>12. Clear(s, step)
  BY <1>4, <1>7, <1>8, <1>9, <1>10, <1>11 DEF Clear
<1>. QED BY <1>12 DEF s

\* The guards of each edit make its step fit the document.
LEMMA DrawFits ==
  ASSUME NEW W, Stands(W, Now, <<>>, fresh), NEW n \in Objects, Draw(n), StackInv
  PROVE  \E t, step, X : Recorded(t, step) /\ Suits(X, t, step)
                         /\ SameFiles(W, X, Len(undo)) /\ step.op \notin Bookkeeping
<1>. DEFINE step == [op |-> "draw", node |-> n]
<1>1. TreeOk(tree, fresh)
  BY StandsFacts, SoundParts DEF Now
<1>2. step.op = "draw" /\ step.node = n
  OBVIOUS
<1>3. RecordOn(tree, step) /\ n \in fresh
  BY DEF Draw, Record
<1>4. Creates(step) = {n}
  BY DEF Creates
<1>5. Now.tree = tree
  BY StateIs DEF Now
<1>. HIDE DEF step
<1>6. Recorded(tree, step)
  BY <1>3, RecordIs
<1>7. Stands(W, Now, <<>>, fresh \ {n})
  BY StandsShrinks
<1>8. n \in tree.hidden /\ tree.parent[n] = Top
  BY <1>1, <1>3 DEF TreeOk
<1>9. Fits(Now, step)
  BY <1>2, <1>5, <1>8 DEF Fits, FitsDraw
<1>10. May(Now, step, fresh \ {n})
  BY <1>2, <1>5, <1>8 DEF May
<1>12. UngroupsSeen => Clear(Now, step)
  BY <1>2, <1>3, <1>4, StandsScoped DEF Clear, Scoped, Aside
<1>11. Suits(W, tree, step)
  BY <1>4, <1>7, <1>9, <1>10, <1>12 DEF Suits, Now
<1>. QED BY <1>2, <1>6, <1>11, ItsOwnFiles DEF Bookkeeping

LEMMA DeleteFits ==
  ASSUME NEW W, Stands(W, Now, <<>>, fresh), NEW n \in Objects, Delete(n), StackInv
  PROVE  \E t, step, X : Recorded(t, step) /\ Suits(X, t, step)
                         /\ SameFiles(W, X, Len(undo)) /\ step.op \notin Bookkeeping
<1>. DEFINE step == [op |-> "delete", node |-> n, parent |-> tree.parent[n],
                    prev |-> SiblingsOf(n)]
<1>1. TreeOk(tree, fresh)
  BY StandsFacts, SoundParts DEF Now
<1>2. step.op = "delete" /\ step.node = n /\ step.parent = tree.parent[n]
      /\ step.prev = Siblings(tree, step.parent)
  BY DEF SiblingsOf, Siblings
<1>3. RecordOn(tree, step) /\ n \in Live(tree)
  BY DEF Delete, Record
<1>4. Creates(step) = {}
  BY DEF Creates
<1>5. Now.tree = tree
  BY StateIs DEF Now
<1>. HIDE DEF step
<1>6. Recorded(tree, step)
  BY <1>3, RecordIs
<1>7. n \notin fresh
  BY <1>1, <1>3, LiveIsOld
<1>8. Fits(Now, step)
  BY <1>2, <1>3, <1>5 DEF Fits, FitsDelete
<1>9. May(Now, step, fresh)
  BY <1>2, <1>7 DEF May
<1>10. fresh \ Creates(step) = fresh
  BY <1>4
<1>12. Clear(Now, step)
  BY <1>2, OldIsClear
<1>11. Suits(W, tree, step)
  BY <1>8, <1>9, <1>10, <1>12 DEF Suits, Now
<1>. QED BY <1>2, <1>6, <1>11, ItsOwnFiles DEF Bookkeeping

LEMMA UngroupFits ==
  ASSUME NEW W, Stands(W, Now, <<>>, fresh), NEW g \in Groups, Ungroup(g), StackInv
  PROVE  \E t, step, X : Recorded(t, step) /\ Suits(X, t, step)
                         /\ SameFiles(W, X, Len(undo)) /\ step.op \notin Bookkeeping
<1>. DEFINE step == [op |-> "ungroup", node |-> g, parent |-> tree.parent[g],
                    prev |-> SiblingsOf(g), lines |-> {h \in Drawn : tree.line[h] = g}]
<1>1. TreeOk(tree, fresh)
  BY StandsFacts, SoundParts DEF Now
<1>2. step.op = "ungroup" /\ step.node = g /\ step.parent = tree.parent[g]
      /\ step.prev = Siblings(tree, step.parent)
      /\ step.lines = {h \in Drawn : tree.line[h] = g}
  BY DEF SiblingsOf, Siblings
<1>3. RecordOn(tree, step) /\ g \in Live(tree) /\ "ungroup" \in Ops
  BY DEF Ungroup, Record
<1>4. Creates(step) = {}
  BY DEF Creates
<1>5. Now.tree = tree
  BY StateIs DEF Now
<1>. HIDE DEF step
<1>6. Recorded(tree, step)
  BY <1>3, RecordIs
<1>7. g \notin fresh
  BY <1>1, <1>3, LiveIsOld
<1>8. Fits(Now, step)
  BY <1>2, <1>3, <1>5 DEF Fits, FitsUngroup
<1>9. May(Now, step, fresh)
  BY <1>2, <1>3, <1>7 DEF May
<1>10. fresh \ Creates(step) = fresh
  BY <1>4
<1>12. UngroupsSeen => Clear(Now, step)
  BY <1>2, <1>3, <1>4 DEF UngroupsSeen, Clear
<1>11. Suits(W, tree, step)
  BY <1>8, <1>9, <1>10, <1>12 DEF Suits, Now
<1>. QED BY <1>2, <1>6, <1>11, ItsOwnFiles DEF Bookkeeping

LEMMA OpenFits ==
  ASSUME NEW W, Stands(W, Now, <<>>, fresh), NEW g \in Groups, OpenGroupSession(g), StackInv
  PROVE  \E t, step, X : Recorded(t, step) /\ Suits(X, t, step)
                         /\ SameFiles(W, X, Len(undo)) /\ step.op = "open" /\ "session" \in Ops
<1>. DEFINE step == [op |-> "open", node |-> g, members |-> tree.members[g]]
<1>1. TreeOk(tree, fresh)
  BY StandsFacts, SoundParts DEF Now
<1>2. step.op = "open" /\ step.node = g /\ step.members = tree.members[g]
      /\ step = [op |-> "open", node |-> step.node, members |-> step.members]
  OBVIOUS
<1>3. RecordOn(tree, step) /\ g \in Live(tree) /\ tree.parent[g] = Top /\ "session" \in Ops
  BY DEF OpenGroupSession, Record, TopLevel
<1>4. Creates(step) = {}
  BY DEF Creates
<1>5. Now.tree = tree
  BY StateIs DEF Now
<1>. HIDE DEF step
<1>6. Recorded(tree, step)
  BY <1>3, RecordIs
<1>7. g \notin fresh
  BY <1>1, <1>3, LiveIsOld
<1>8. Fits(Now, step)
  BY <1>2, <1>3, <1>5 DEF Fits, FitsOpen
<1>9. May(Now, step, fresh)
  BY <1>2, <1>7 DEF May
<1>10. fresh \ Creates(step) = fresh
  BY <1>4
<1>12. Clear(Now, step)
  BY <1>2, OldIsClear
<1>11. Suits(W, tree, step)
  BY <1>8, <1>9, <1>10, <1>12 DEF Suits, Now
<1>. QED BY <1>2, <1>3, <1>6, <1>11, ItsOwnFiles

\* The new group is known to no entry: its record may have been there all along.
LEMMA GroupFits ==
  ASSUME NEW W, Stands(W, Now, <<>>, fresh), NEW g \in Groups, NEW ms \in SUBSET Nodes,
         Group(g, ms), StackInv
  PROVE  \E t, step, X : Recorded(t, step) /\ Suits(X, t, step)
                         /\ SameFiles(W, X, Len(undo)) /\ step.op \notin Bookkeeping
<1>. DEFINE m == CHOOSE n \in ms : TRUE
           p == tree.parent[m]
           t == WithGroup(tree, g, ms, p)
           step == [op |-> "group", node |-> g, members |-> ms, parent |-> p,
                    prev |-> SiblingsOf(m)]
           fr == fresh \ {g}
           X == Amended(W, Len(Timeline(Now.stack, <<>>)), g, ms, p)
<1>1. Sound(Now, fresh) /\ TreeOk(tree, fresh) /\ FramesOk(tree, sessions, fresh)
  BY StandsFacts, SoundParts DEF Now
<1>2. Now.tree = tree /\ Now.frames = sessions /\ Now.stack = undo
  BY StateIs DEF Now
<1>3. /\ g \in fresh /\ ms # {} /\ ms \subseteq Live(tree) /\ RecordOn(t, step)
      /\ \A x, y \in ms : tree.parent[x] = tree.parent[y]
  BY DEF Group
<1>4. m \in ms
  BY <1>3
<1>5. step.op = "group" /\ step.node = g /\ step.members = ms /\ step.parent = p
      /\ step.prev = Siblings(tree, p)
  BY DEF SiblingsOf, Siblings
<1>6. \A x \in ms : tree.parent[x] = p
  BY <1>3, <1>4
<1>7. m \in Live(tree) /\ p = tree.parent[m]
  BY <1>3, <1>4
<1>. HIDE DEF m, p
<1>8. p = Top \/ p \in Groups \cap Live(tree)
  BY <1>1, <1>7, TreeFacts
<1>9. p \in Parents /\ Formed(g, ms, p)
  BY <1>8, Names DEF Formed
<1>10. ms \cap fresh = {}
  BY <1>1, <1>3, LiveIsOld
<1>11. /\ t \in Trees /\ t.hidden = tree.hidden /\ Live(t) = Live(tree)
       /\ g \in tree.hidden /\ g \notin Live(tree) /\ g # Top
       /\ \A n \in Live(tree) : t.parent[n] = tree.parent[n]
       /\ t.parent[g] = p /\ t.members[g] = ms
       /\ \A q \in Parents : q # g => Siblings(t, q) = Siblings(tree, q)
  <2>. HIDE DEF t
  <2>. QED BY <1>1, <1>3, <1>9, LateFacts DEF t
<1>12. Stands(X, LaterState(Now, g, ms, p), <<>>, fr)
  <2>. HIDE DEF X
  <2>. QED BY <1>3, <1>9, <1>10, StandsLate DEF X
<1>23. SameFiles(W, X, Len(undo))
  <2>1. Len(Timeline(Now.stack, <<>>)) = Len(undo)
    BY <1>1, <1>2, TimelineOfUndo DEF Sound
  <2>. QED BY <1>3, <1>9, <2>1, AmendedFiles
<1>13. LaterState(Now, g, ms, p) = State(t, sessions, undo)
  BY <1>2 DEF LaterState
<1>14. Look(t, sessions, undo) = Look(tree, sessions, undo)
  <2>. HIDE DEF t
  <2>. QED BY <1>1, <1>2, <1>3, <1>9, LookLate DEF t
<1>. HIDE DEF t, X
<1>15. Recorded(t, step)
  <2>. HIDE DEF step
  <2>. QED BY <1>3, RecordIs
<1>16. Creates(step) = {g}
  BY <1>5 DEF Creates
<1>. HIDE DEF step
<1>17. FitsGroup(t, step)
  <2>1. p # g
    BY <1>8, <1>11
  <2>2. step.prev = Siblings(t, p)
    BY <2>1, <1>5, <1>9, <1>11
  <2>3. g \in Groups \cap t.hidden
    BY <1>9, <1>11 DEF Formed
  <2>4. \A x \in ms : x \in Live(t) /\ t.parent[x] = p
    BY <1>3, <1>6, <1>11
  <2>. QED BY <2>2, <2>3, <2>4, <1>3, <1>5, <1>9, <1>11 DEF FitsGroup
<1>. DEFINE s == State(t, sessions, undo)
<1>18. s.tree = t /\ s.frames = sessions
  BY StateIs
<1>. HIDE DEF s
<1>19. Fits(s, step)
  BY <1>5, <1>17, <1>18 DEF Fits
<1>20. \A i \in 1 .. Len(sessions) : sessions[i].group # g
  BY <1>1, <1>3 DEF FramesOk
<1>21. May(s, step, fr)
  BY <1>5, <1>18, <1>20 DEF May
<1>24. UngroupsSeen => Clear(s, step)
  BY <1>5, GroupedIsClear DEF s
<1>22. Suits(X, t, step)
  BY <1>12, <1>13, <1>14, <1>16, <1>19, <1>21, <1>24 DEF Suits, s
<1>. QED BY <1>5, <1>15, <1>22, <1>23 DEF Bookkeeping

\* A node outside the chain of its new parent can be moved into it.

LEMMA ReparentFits ==
  ASSUME NEW W, Stands(W, Now, <<>>, fresh), NEW n \in Nodes, NEW p \in Parents,
         Reparent(n, p), StackInv
  PROVE  \E t, step, X : Recorded(t, step) /\ Suits(X, t, step)
                         /\ SameFiles(W, X, Len(undo)) /\ step.op \notin Bookkeeping
<1>. DEFINE from == tree.parent[n]
           lists == {from, p} \ {Top}
           after == [g \in lists |-> IF g = p THEN tree.members[g] \cup {n}
                                     ELSE tree.members[g] \ {n}]
           step == [op |-> "move", node |-> n, from |-> from, next |-> p,
                    before |-> [g \in lists |-> tree.members[g]], after |-> after]
           s == Apply(State(tree, sessions, undo), step)
<1>1. TreeOk(tree, fresh)
  BY StandsFacts, SoundParts DEF Now
<1>2. Now.tree = tree
  BY StateIs DEF Now
<1>3. /\ n \in Live(tree) /\ p # from /\ "reparent" \in Ops
      /\ p # Top => p \in Live(tree) /\ n \notin Chain(p)
      /\ tree' = s.tree /\ sessions = <<>> /\ sessions' = sessions /\ fresh' = fresh
      /\ undo' = Append(undo, [Child(step) EXCEPT !.before = Look(tree, sessions, undo)])
      /\ redo' = <<>> /\ pushes' = [pushes EXCEPT !.undo = @ + 2] /\ bracket' = bracket
  BY DEF Reparent
<1>4. step.op = "move" /\ step.node = n /\ step.from = from /\ step.next = p
      /\ step.before = [g \in {from, p} \ {Top} |-> tree.members[g]]
      /\ step.after = [g \in {from, p} \ {Top} |->
                         IF g = p THEN tree.members[g] \cup {n} ELSE tree.members[g] \ {n}]
  OBVIOUS
<1>5. Creates(step) = {}
  BY DEF Creates
<1>6. pushes'.redo = pushes.redo
  BY <1>3 DEF StackInv, StacksHold, Counts
<1>. HIDE DEF step, after
<1>7. s.frames = sessions
  <2>1. s = State(ApplyMove(Now.tree, step), Now.frames, Append(Now.stack, Child(step)))
    BY <1>4, ApplyIs DEF Now
  <2>. QED BY <2>1, StateIs DEF Now
<1>. HIDE DEF s
<1>8. Recorded(tree, step)
  BY <1>3, <1>5, <1>6, <1>7 DEF Recorded, s
<1>9. n \notin fresh
  BY <1>1, <1>3, LiveIsOld
<1>10. from = Top \/ from \in Groups \cap Live(tree)
  BY <1>1, <1>3, TreeFacts
<1>11. /\ tree.members \in [Groups -> SUBSET Nodes]
  BY <1>1, TreeFacts
<1>12. lists \subseteq Groups
  BY <1>10, Names
<1>13. Lists(step.after) /\ DOMAIN step.after = {from, p} \ {Top}
  <2>1. DOMAIN step.after = {from, p} \ {Top}
    BY <1>4
  <2>2. \A g \in DOMAIN step.after : step.after[g] \in SUBSET Nodes
    <3>1. ASSUME NEW g \in {from, p} \ {Top}
          PROVE  step.after[g] \in SUBSET Nodes
      <4>1. tree.members[g] \in SUBSET Nodes
        BY <1>11, <1>12
      <4>2. step.after[g] = IF g = p THEN tree.members[g] \cup {n} ELSE tree.members[g] \ {n}
        BY <1>4
      <4>. QED BY <4>1, <4>2
    <3>. QED BY <2>1, <3>1
  <2>. QED BY <2>1, <2>2, <1>12 DEF Lists
<1>14. FitsMove(tree, step)
  BY <1>3, <1>4, <1>13, Names DEF FitsMove
<1>15. MayMove(tree, step)
  <2>1. ASSUME p # Top
        PROVE  \E C \in SUBSET Nodes : p \in C /\ n \notin C
                 /\ \A k \in C : tree.parent[k] \in C \cup {Top}
    BY <1>3, <2>1 DEF Chain
  <2>. QED BY <2>1, <1>3, <1>4 DEF MayMove
<1>16. Fits(Now, step)
  BY <1>2, <1>4, <1>14 DEF Fits
<1>17. May(Now, step, fresh)
  BY <1>2, <1>4, <1>9, <1>15 DEF May
<1>18. fresh \ Creates(step) = fresh
  BY <1>5
<1>20. Clear(Now, step)
  <2>1. Now.frames = <<>>
    BY <1>3, StateIs DEF Now
  <2>2. Len(Now.frames) = 0
    BY <2>1, EmptyFacts
  <2>. QED BY <1>4, <2>1, <2>2 DEF Clear
<1>19. Suits(W, tree, step)
  BY <1>16, <1>17, <1>18, <1>20 DEF Suits, Now
<1>. QED BY <1>4, <1>8, <1>19, ItsOwnFiles DEF Bookkeeping

\* An instance in which no ungroup inside a session can release a drawing.
Unreleased == Drawn = {} \/ "ungroup" \notin Ops \/ "session" \notin Ops

\* What a close records is what it finds.

LEMMA CloseFits ==
  ASSUME NEW W, Stands(W, Now, <<>>, fresh), CloseGroupSession, StackInv, Unreleased
  PROVE  \E t, step, X : Recorded(t, step) /\ Suits(X, t, step)
                         /\ SameFiles(W, X, Len(undo)) /\ "session" \in Ops
<1>. DEFINE f == Last(sessions)
           step == [op |-> "close", node |-> f.group, bound |-> f.bound,
                    prev |-> tree.members[f.group],
                    members |-> Folded(tree, f, undo), outside |-> f.outside]
<1>1. Sound(Now, fresh) /\ IsSeq(undo) /\ Known(undo, fresh)
  BY StandsFacts, SoundParts DEF Now
<1>2. Now.tree = tree /\ Now.frames = sessions /\ Now.stack = undo
  BY StateIs DEF Now
<1>3. sessions # <<>> /\ RecordOn(tree, step) /\ "session" \in Ops
  BY DEF CloseGroupSession, Record
<1>4. f.bound \in Nat /\ f.group \notin fresh
  BY <1>1, <1>2, <1>3, TopFrame
<1>5. /\ step.op = "close" /\ step.node = f.group /\ step.bound = f.bound
      /\ step.outside = f.outside /\ step.prev = tree.members[f.group]
      /\ step.members = Folded(tree, f, undo)
  OBVIOUS
<1>6. Creates(step) = {}
  BY DEF Creates
<1>. HIDE DEF step
<1>7. Recorded(tree, step)
  BY <1>3, RecordIs
<1>8. Released(undo, f.bound) = {}
  BY <1>1, <1>3, <1>4, ReleasedNone DEF Unreleased
<1>9. Fits(Now, step)
  BY <1>2, <1>3, <1>5, <1>8 DEF Fits, FitsClose
<1>10. May(Now, step, fresh)
  BY <1>4, <1>5 DEF May
<1>11. fresh \ Creates(step) = fresh
  BY <1>6
<1>13. Clear(Now, step)
  BY <1>5, OldIsClear
<1>12. Suits(W, tree, step)
  BY <1>9, <1>10, <1>11, <1>13 DEF Suits, Now
<1>. QED BY <1>3, <1>7, <1>12, ItsOwnFiles

\* While a bracket can commit, its entries are its own: they stand one step
\* each above the stack it found, the first was recorded on the document it
\* found, and the sessions it found are still open below the ones it opened.
Told ==
  bracket.open /\ bracket.pushes.redo = pushes.redo =>
    /\ Begins(bracket.sessions, sessions)
    /\ Len(undo) = Len(bracket.undo) => tree = bracket.tree /\ sessions = bracket.sessions
    /\ Len(undo) > Len(bracket.undo) =>
         undo[Len(bracket.undo) + 1].before
           = Look(bracket.tree, bracket.sessions, bracket.undo)
    /\ \A i \in Len(bracket.undo) + 1 .. Len(undo) : Single(undo[i])

BracketStands ==
  bracket.open =>
    "bracket" \in Ops /\ \E W : Stands(W, Found, bracket.redo, bracket.fresh)

HistoryInv ==
  /\ StackInv
  /\ \E W : Stands(W, Now, redo, fresh)
  /\ BracketStands /\ Told

\* The document stands on the undo stack alone.
LEMMA StandsAlone ==
  ASSUME NEW W, Stands(W, Now, redo, fresh)
  PROVE  Stands(W, Now, <<>>, fresh) /\ Len(undo) \in Nat /\ W[Len(undo)] = Now
<1>1. Now.stack = undo
  BY StateIs DEF Now
<1>2. Len(undo) \in 0 .. Len(Timeline(Now.stack, redo)) /\ Len(undo) \in Nat
  BY <1>1, StandsFacts
<1>3. W[Len(undo)] = Now
  BY <1>1 DEF Stands
<1>4. Stands(W, W[Len(undo)], <<>>, fresh)
  BY <1>2, CutStands
<1>. QED BY <1>2, <1>3, <1>4

LEMMA EditFits ==
  ASSUME StackInv, Unreleased, NEW W, Stands(W, Now, <<>>, fresh), Edits \/ Moves
  PROVE  \E t, step, X : Recorded(t, step) /\ Suits(X, t, step)
                         /\ SameFiles(W, X, Len(undo))
                         /\ (step.op = "close" => CloseGroupSession)
                         /\ (step.op \in Bookkeeping => "session" \in Ops)
<1>1. CASE \E n \in Objects : Draw(n)
  BY <1>1, DrawFits DEF Bookkeeping
<1>2. CASE \E n \in Objects : Delete(n)
  BY <1>2, DeleteFits DEF Bookkeeping
<1>3. CASE \E g \in Groups : Ungroup(g)
  BY <1>3, UngroupFits DEF Bookkeeping
<1>4. CASE \E g \in Groups : OpenGroupSession(g)
  BY <1>4, OpenFits DEF Bookkeeping
<1>5. CASE \E g \in Groups, ms \in SUBSET Nodes : Group(g, ms)
  BY <1>5, GroupFits DEF Bookkeeping
<1>6. CASE CloseGroupSession
  BY <1>6, CloseFits
<1>7. CASE Moves
  BY <1>7, ReparentFits DEF Moves, Bookkeeping
<1>. QED BY <1>1, <1>2, <1>3, <1>4, <1>5, <1>6, <1>7 DEF Edits

LEMMA BeginsFront ==
  ASSUME NEW p, IsSeq(p), NEW s, IsSeq(s), Begins(p, s), Len(s) > Len(p)
  PROVE  Begins(p, Front(s))
<1>1. s # <<>> /\ Len(s) \in Nat /\ Len(p) \in Nat
  BY SeqFacts, EmptyFacts
<1>2. Len(Front(s)) = Len(s) - 1 /\ \A i \in 1 .. Len(s) - 1 : Front(s)[i] = s[i]
  BY <1>1, FrontFacts
<1>. QED BY <1>1, <1>2 DEF Begins

\* The sessions after an edit: as they were, one more, or the last one gone.
LEMMA RecordedSessions ==
  ASSUME NEW W, NEW t, NEW step, Recorded(t, step), Suits(W, t, step)
  PROVE  \/ sessions' = sessions
         \/ \E f : sessions' = Append(sessions, f)
         \/ step.op = "close" /\ sessions' = Front(sessions)
<1>. DEFINE s == State(t, sessions, undo)
           stack == Append(s.stack, Child(step))
<1>1. s.frames = sessions
  BY StateIs
<1>2. sessions' = Apply(s, step).frames /\ Fits(s, step)
  BY DEF Recorded, Suits
<1>. HIDE DEF s
<1>3. CASE step.op = "open"
  <2>. DEFINE u == ApplyOpen(s.tree, step)
             frames == Append(s.frames, FrameOf(s, step))
  <2>1. Apply(s, step) = State(u, frames, stack)
    BY <1>3, ApplyIs
  <2>. HIDE DEF u, frames, stack
  <2>2. sessions' = frames
    BY <1>2, <2>1, StateIs
  <2>. QED BY <1>1, <2>2 DEF frames
<1>4. CASE step.op = "close"
  <2>1. Apply(s, step) = State(Exit(s.tree, Last(s.frames), s.stack), Front(s.frames), stack)
    BY <1>4, ApplyIs
  <2>. QED BY <1>1, <1>2, <1>4, <2>1, StateIs
<1>5. CASE step.op # "open" /\ step.op # "close"
  <2>1. \E u : Apply(s, step) = State(u, s.frames, stack)
    BY <1>2, <1>5, ApplyIs DEF Fits
  <2>. QED BY <1>1, <1>2, <2>1, StateIs
<1>. QED BY <1>3, <1>4, <1>5

\* An edit inside a bracket is one entry of one step above what it found.
LEMMA RecordedTold ==
  ASSUME StackInv, BracketStands, Told, NEW W, NEW t, NEW step, Recorded(t, step), Suits(W, t, step),
         step.op = "close" => CloseGroupSession, IsSeq(sessions)
  PROVE  Told'
<1>. DEFINE e == [Child(step) EXCEPT !.before = Look(tree, sessions, undo)]
<1>1. undo' = Append(undo, e) /\ bracket' = bracket /\ pushes'.redo = pushes.redo
  BY DEF Recorded
<1>2. e.steps = <<step>> /\ e.compound = Child(step).compound /\ e.before = Look(tree, sessions, undo)
  BY EntryIs
<1>. HIDE DEF e
<1>. SUFFICES ASSUME bracket.open, bracket.pushes.redo = pushes.redo
             PROVE  /\ Begins(bracket.sessions, sessions')
                    /\ Len(undo') = Len(bracket.undo)
                         => tree' = bracket.tree /\ sessions' = bracket.sessions
                    /\ Len(undo') > Len(bracket.undo) =>
                         undo'[Len(bracket.undo) + 1].before
                           = Look(bracket.tree, bracket.sessions, bracket.undo)
                    /\ \A i \in Len(bracket.undo) + 1 .. Len(undo') : Single(undo'[i])
  BY <1>1 DEF Told
<1>3. IsSeq(undo) /\ IsSeq(bracket.undo) /\ Begins(bracket.undo, undo)
  BY DEF StackInv, StacksHold, SnapshotHolds, UndisturbedHolds, Entries
<1>4. Len(undo) \in Nat /\ Len(bracket.undo) \in Nat /\ Len(undo') = Len(undo) + 1
      /\ undo'[Len(undo) + 1] = e /\ \A i \in 1 .. Len(undo) : undo'[i] = undo[i]
  BY <1>1, <1>3, AppendFacts, SeqFacts
<1>5. Len(bracket.undo) <= Len(undo)
  BY <1>3 DEF Begins
<1>6. IsSeq(bracket.sessions)
  BY SoundParts, StandsFacts DEF BracketStands, Found
<1>7. /\ Begins(bracket.sessions, sessions)
      /\ Len(undo) = Len(bracket.undo) => tree = bracket.tree /\ sessions = bracket.sessions
      /\ Len(undo) > Len(bracket.undo) =>
           undo[Len(bracket.undo) + 1].before
             = Look(bracket.tree, bracket.sessions, bracket.undo)
      /\ \A i \in Len(bracket.undo) + 1 .. Len(undo) : Single(undo[i])
  BY DEF Told
<1>8. Begins(bracket.sessions, sessions')
  <2>1. CASE sessions' = sessions
    BY <1>7, <2>1
  <2>2. CASE \E f : sessions' = Append(sessions, f)
    BY <1>6, <1>7, <2>2, BeginsFacts
  <2>3. CASE step.op = "close" /\ sessions' = Front(sessions)
    <3>1. Len(sessions) > Len(bracket.sessions)
      BY <2>3 DEF CloseGroupSession
    <3>. QED BY <1>6, <1>7, <2>3, <3>1, BeginsFront
  <2>. QED BY <2>1, <2>2, <2>3, RecordedSessions
<1>9. undo'[Len(bracket.undo) + 1].before = Look(bracket.tree, bracket.sessions, bracket.undo)
  <2>1. CASE Len(undo) = Len(bracket.undo)
    <3>1. undo = bracket.undo
      BY <1>3, <2>1, BeginsFacts
    <3>. QED BY <1>2, <1>4, <1>7, <2>1, <3>1
  <2>2. CASE Len(undo) > Len(bracket.undo)
    <3>1. Len(bracket.undo) + 1 \in 1 .. Len(undo)
      BY <1>4, <2>2
    <3>. QED BY <1>4, <1>7, <2>2, <3>1
  <2>. QED BY <1>4, <1>5, <2>1, <2>2
<1>10. ASSUME NEW i \in Len(bracket.undo) + 1 .. Len(undo')
       PROVE  Single(undo'[i])
  <2>1. CASE i = Len(undo) + 1
    BY <1>2, <1>4, <2>1 DEF Single
  <2>2. CASE i \in Len(bracket.undo) + 1 .. Len(undo)
    <3>1. undo'[i] = undo[i]
      BY <1>4, <2>2
    <3>. QED BY <1>7, <2>2, <3>1
  <2>. QED BY <1>4, <2>1, <2>2
<1>11. Len(undo') # Len(bracket.undo)
  BY <1>4, <1>5
<1>. QED BY <1>8, <1>9, <1>10, <1>11

LEMMA ClosedBracket ==
  ASSUME bracket' = Closed
  PROVE  BracketStands' /\ Told'
BY DEF BracketStands, Told, Closed

LEMMA SameBracket ==
  ASSUME BracketStands, bracket' = bracket
  PROVE  BracketStands'
<1>1. Found' = Found
  BY DEF Found
<1>. QED BY <1>1 DEF BracketStands

LEMMA EditKeepsHistory ==
  ASSUME HistoryInv, Unreleased, Edits \/ Moves
  PROVE  (\E W : Stands(W, Now, redo, fresh))' /\ BracketStands' /\ Told'
<1>1. PICK W : Stands(W, Now, redo, fresh)
  BY DEF HistoryInv
<1>2. Stands(W, Now, <<>>, fresh)
  BY <1>1, StandsAlone
<1>3. PICK t, step, X : /\ Recorded(t, step) /\ Suits(X, t, step)
                        /\ (step.op = "close" => CloseGroupSession)
  BY <1>2, EditFits DEF HistoryInv
<1>4. IsSeq(sessions)
  BY <1>2, StandsFacts, SoundParts DEF Now
<1>5. Told'
  BY <1>3, <1>4, RecordedTold DEF HistoryInv
<1>6. bracket' = bracket /\ redo' = <<>>
  BY <1>3 DEF Recorded
<1>7. BracketStands'
  BY <1>6, SameBracket DEF HistoryInv
<1>8. Stands(Grown(X, Len(undo), Now'), Now', redo', fresh')
  BY <1>3, <1>6, RecordedStands
<1>. QED BY <1>5, <1>7, <1>8

\* Undo moves the document one entry back along the same history.
LEMMA UndoStandsNow ==
  ASSUME NEW W, Stands(W, Now, redo, fresh), Undo
  PROVE  /\ Stands(W, Now', redo', fresh') /\ Link(Now', Last(undo), Now, fresh)
         /\ Now' = W[Len(undo) - 1]
<1>. DEFINE c == UndoEntry(tree, sessions, undo)
           e == Last(undo)
<1>1. Now.tree = tree /\ Now.frames = sessions /\ Now.stack = undo
  BY StateIs DEF Now
<1>2. undo # <<>> /\ tree' = c.tree /\ sessions' = c.frames /\ undo' = c.stack
      /\ redo' = Append(redo, e) /\ fresh' = fresh
  BY DEF Undo
<1>. HIDE DEF c, e
<1>3. Link(c, e, Now, fresh) /\ c = W[Len(undo) - 1] /\ Stands(W, c, Append(redo, e), fresh)
  BY <1>1, <1>2, UndoStands DEF c, e
<1>4. Now' = c
  <2>1. c = State(c.tree, c.frames, c.stack)
    BY <1>3, LinkEnds
  <2>. QED BY <1>2, <2>1 DEF Now
<1>. QED BY <1>2, <1>3, <1>4 DEF e

LEMMA UndoKeepsHistory ==
  ASSUME HistoryInv, StackInv', Undo
  PROVE  (\E W : Stands(W, Now, redo, fresh))' /\ BracketStands' /\ Told'
<1>1. (\E W : Stands(W, Now, redo, fresh))'
  <2>1. PICK W : Stands(W, Now, redo, fresh)
    BY DEF HistoryInv
  <2>. QED BY <2>1, UndoStandsNow
<1>2. CASE bracket.open
  <2>. DEFINE b == [bracket EXCEPT !.undid = TRUE]
  <2>1. /\ bracket' = b
        /\ b.open = TRUE /\ b.undid = TRUE /\ b.tree = bracket.tree
        /\ b.sessions = bracket.sessions /\ b.undo = bracket.undo /\ b.redo = bracket.redo
        /\ b.fresh = bracket.fresh
    BY <1>2, UndoStep, SnapshotFacts DEF HistoryInv, StackInv
  <2>. HIDE DEF b
  <2>2. bracket'.pushes.redo # pushes'.redo
    BY <2>1 DEF StackInv, UndisturbedHolds
  <2>3. Told'
    BY <2>2 DEF Told
  <2>4. Found' = Found /\ bracket'.redo = bracket.redo /\ bracket'.fresh = bracket.fresh
    BY <2>1 DEF Found
  <2>5. BracketStands'
    BY <1>2, <2>4 DEF BracketStands, HistoryInv
  <2>. QED BY <1>1, <2>3, <2>5
<1>3. CASE ~bracket.open
  <2>1. bracket' = bracket
    BY <1>3, UndoStep
  <2>. QED BY <1>1, <1>3, <2>1, SameBracket DEF Told, HistoryInv
<1>. QED BY <1>2, <1>3

\* Redo moves it one entry on.
LEMMA RedoStandsNow ==
  ASSUME NEW W, Stands(W, Now, redo, fresh), Redo
  PROVE  /\ Stands(W, Now', redo', fresh') /\ Link(Now, Last(redo), Now', fresh)
         /\ Now' = W[Len(undo) + 1]
<1>. DEFINE e == Last(redo)
           d == RedoEntry(tree, sessions, undo, e)
<1>1. Now.tree = tree /\ Now.frames = sessions /\ Now.stack = undo
  BY StateIs DEF Now
<1>2. redo # <<>> /\ tree' = d.tree /\ sessions' = d.frames /\ undo' = d.stack
      /\ redo' = Front(redo) /\ fresh' = fresh
  BY DEF Redo
<1>. HIDE DEF d, e
<1>3. Link(Now, e, d, fresh) /\ d = W[Len(undo) + 1] /\ Stands(W, d, Front(redo), fresh)
  BY <1>1, <1>2, RedoStands DEF d, e
<1>4. Now' = d
  <2>1. d = State(d.tree, d.frames, d.stack)
    BY <1>3, LinkEnds
  <2>. QED BY <1>2, <2>1 DEF Now
<1>. QED BY <1>2, <1>3, <1>4 DEF e

LEMMA RedoKeepsHistory ==
  ASSUME HistoryInv, Redo, RedoInBracket = FALSE
  PROVE  (\E W : Stands(W, Now, redo, fresh))' /\ BracketStands' /\ Told'
<1>1. bracket' = bracket /\ ~bracket.open
  BY RedoStep DEF HistoryInv, StackInv, Snapshots, Closed
<1>. QED BY <1>1, SameBracket, RedoStandsNow DEF Told, HistoryInv

LEMMA RestoreKeepsHistory ==
  ASSUME HistoryInv, bracket.open, Restore
  PROVE  (\E W : Stands(W, Now, redo, fresh))' /\ BracketStands' /\ Told'
<1>1. Now' = Found /\ redo' = bracket.redo /\ fresh' = bracket.fresh /\ bracket' = Closed
  BY DEF Restore, Now, Found
<1>. QED BY <1>1, ClosedBracket DEF BracketStands, HistoryInv

LEMMA BeginKeepsHistory ==
  ASSUME HistoryInv, BeginTransaction
  PROVE  (\E W : Stands(W, Now, redo, fresh))' /\ BracketStands' /\ Told'
<1>1. /\ tree' = tree /\ fresh' = fresh /\ sessions' = sessions /\ undo' = undo
      /\ redo' = redo /\ pushes' = pushes
      /\ bracket'.tree = tree /\ bracket'.fresh = fresh /\ bracket'.sessions = sessions
      /\ bracket'.undo = undo /\ bracket'.redo = redo /\ "bracket" \in Ops
  BY DEF BeginTransaction
<1>2. Now' = Now /\ Found' = Now
  BY <1>1 DEF Now, Found
<1>3. BracketStands' /\ (\E W : Stands(W, Now, redo, fresh))'
  BY <1>1, <1>2 DEF BracketStands, HistoryInv
<1>4. Len(undo) \in Nat
  BY StandsAlone DEF HistoryInv
<1>5. Begins(sessions, sessions)
  <2>1. IsSeq(sessions)
    BY StandsFacts, SoundParts DEF HistoryInv, Now
  <2>. QED BY <2>1, SeqFacts DEF Begins
<1>6. Told'
  BY <1>1, <1>4, <1>5 DEF Told
<1>. QED BY <1>3, <1>6

LEMMA StillKeepsHistory ==
  ASSUME HistoryInv, UNCHANGED <<tree, fresh, sessions, undo, redo, bracket>>,
         pushes'.redo = pushes.redo
  PROVE  (\E W : Stands(W, Now, redo, fresh))' /\ BracketStands' /\ Told'
<1>1. Now' = Now
  BY DEF Now
<1>. QED BY <1>1, SameBracket DEF Told, HistoryInv

LEMMA NothingKeepsHistory ==
  ASSUME HistoryInv, CommitNothing
  PROVE  (\E W : Stands(W, Now, redo, fresh))' /\ BracketStands' /\ Told'
<1>1. Now' = Now /\ redo' = redo /\ fresh' = fresh /\ bracket' = Closed
  BY DEF Now, CommitNothing
<1>. QED BY <1>1, ClosedBracket DEF HistoryInv

\* A document without a history stands on itself.
Alone(s) == [i \in {0} |-> s]

\* The start of every history.
LEMMA AloneStands ==
  ASSUME NEW t, NEW fr, TreeOk(t, fr)
  PROVE  LET s == State(t, <<>>, <<>>) IN Stands(Alone(s), s, <<>>, fr)
<1>. DEFINE s == State(t, <<>>, <<>>)
           W == Alone(s)
<1>1. s.tree = t /\ s.frames = <<>> /\ s.stack = <<>>
  BY StateIs
<1>2. s = State(s.tree, s.frames, s.stack)
  BY <1>1
<1>. HIDE DEF s
<1>3. IsSeq(<<>>) /\ Len(<<>>) = 0
  BY EmptyFacts
<1>4. Sound(s, fr)
  BY <1>1, <1>2, <1>3 DEF Sound, Known, FramesOk, BoundsOk
<1>5. Timeline(<<>>, <<>>) = <<>>
  BY <1>3, TimelineOfUndo
<1>6. W[0] = s
  BY DEF Alone
<1>. HIDE DEF W
<1>8. Scoped(s, fr)
  <2>1. Dissolved(<<>>) = {}
    BY <1>3 DEF Dissolved
  <2>. QED BY <1>1, <1>3, <2>1 DEF Scoped, Apart, Aside, Nested, Gone
<1>9. AllScoped(W, 0, fr)
  BY <1>6, <1>8 DEF AllScoped
<1>7. History(W, <<>>, fr)
  BY <1>1, <1>3, <1>4, <1>6, <1>9 DEF History, Begins
<1>. QED BY <1>1, <1>3, <1>5, <1>6, <1>7 DEF Stands, s, W

LEMMA ForgetKeepsHistory ==
  ASSUME HistoryInv, ForgetHistory
  PROVE  (\E W : Stands(W, Now, redo, fresh))' /\ BracketStands' /\ Told'
<1>1. /\ tree' = tree /\ fresh' = fresh /\ sessions' = <<>> /\ undo' = <<>> /\ redo' = <<>>
      /\ bracket' = bracket /\ ~bracket.open
  BY DEF ForgetHistory
<1>2. TreeOk(tree, fresh)
  BY StandsFacts, SoundParts DEF HistoryInv, Now
<1>3. Now' = State(tree, <<>>, <<>>)
  BY <1>1 DEF Now
<1>4. Stands(Alone(Now'), Now', <<>>, fresh)
  BY <1>2, <1>3, AloneStands
<1>. QED BY <1>1, <1>4, SameBracket DEF Told, HistoryInv

\* The tree at the start is a tree.
LEMMA HomeIsTree ==
  ASSUME Init
  PROVE  TreeOk(tree, fresh)
<1>. DEFINE pa == [n \in Nodes |-> IF Home[n] = NoGroup THEN Top ELSE Home[n]]
           hi == {n \in Nodes : Home[n] = NoGroup}
           me == [g \in Groups |-> {n \in Nodes : Home[n] = g}]
           li == [h \in Drawn |-> h]
<1>1. tree = [parent |-> pa, hidden |-> hi, members |-> me, line |-> li] /\ fresh = hi
  BY DEF Init
<1>2. /\ \A n \in Nodes : Home[n] \in Parents \cup {NoGroup}
      /\ \A n \in Nodes : Home[n] \in Groups => Home[Home[n]] # NoGroup
      /\ \A S \in SUBSET Nodes : (\A n \in S : Home[n] \in S) => S = {}
  BY HomeAssumption
<1>3. NoGroup \notin Groups /\ NoGroup # Top
  BY NamesAssumption DEF Parents
<1>4. pa \in [Nodes -> Parents] /\ me \in [Groups -> SUBSET Nodes] /\ li \in [Drawn -> Parents]
  BY <1>2, Names
<1>5. \A n \in Nodes : pa[n] = IF Home[n] = NoGroup THEN Top ELSE Home[n]
  OBVIOUS
<1>6. \A g \in Groups : me[g] = {n \in Nodes : Home[n] = g}
  OBVIOUS
<1>7. \A n : n \in hi <=> n \in Nodes /\ Home[n] = NoGroup
  OBVIOUS
<1>. HIDE DEF pa, hi, me, li
<1>8. /\ tree.parent = pa /\ tree.hidden = hi /\ tree.members = me /\ tree.line = li
      /\ tree \in Trees
  BY <1>1, <1>4, <1>7 DEF Trees
<1>9. \A n : n \in Live(tree) <=> n \in Nodes /\ Home[n] # NoGroup
  BY <1>7, <1>8 DEF Live
<1>10. \A n \in Live(tree) : n \in Nodes /\ tree.parent[n] = Home[n]
  BY <1>5, <1>8, <1>9
<1>11. \A n \in fresh : tree.parent[n] = Top
  BY <1>1, <1>5, <1>7, <1>8
<1>12. \A g \in Groups : tree.members[g] \cap fresh = {}
  BY <1>1, <1>3, <1>6, <1>7, <1>8
<1>13. \A n \in Live(tree) : tree.parent[n] \in Groups => tree.parent[n] \in Live(tree)
  BY <1>2, <1>9, <1>10, Names
<1>14. \A g \in Groups \cap Live(tree) : tree.members[g] = {n \in Live(tree) : tree.parent[n] = g}
  BY <1>3, <1>6, <1>8, <1>9, <1>10
<1>15. ASSUME NEW S \in SUBSET Live(tree), \A n \in S : tree.parent[n] \in S
       PROVE  S = {}
  <2>1. S \in SUBSET Nodes /\ \A n \in S : Home[n] \in S
    BY <1>10, <1>15
  <2>. QED BY <1>2, <2>1
<1>. QED BY <1>1, <1>8, <1>11, <1>12, <1>13, <1>14, <1>15 DEF TreeOk

LEMMA HistoryInit == ASSUME Init PROVE HistoryInv
<1>1. TreeOk(tree, fresh) /\ StackInv
  BY HomeIsTree, StackInit
<1>2. sessions = <<>> /\ undo = <<>> /\ redo = <<>> /\ ~bracket.open
  BY DEF Init, Closed
<1>3. Now = State(tree, <<>>, <<>>)
  BY <1>2 DEF Now
<1>4. Stands(Alone(Now), Now, <<>>, fresh)
  BY <1>1, <1>3, AloneStands
<1>. QED BY <1>1, <1>2, <1>4 DEF HistoryInv, BracketStands, Told

\* The sessions of a bracket that commits are those it found.
LEMMA CommitSessions ==
  ASSUME HistoryInv, bracket.open, ~Disturbed, ~Unbalanced
  PROVE  sessions = bracket.sessions /\ BoundsOk(sessions, bracket.undo)
<1>1. IsSeq(bracket.sessions) /\ BoundsOk(bracket.sessions, bracket.undo)
  BY StandsFacts, SoundParts DEF HistoryInv, BracketStands, Found
<1>2. IsSeq(sessions)
  BY StandsFacts, SoundParts DEF HistoryInv, Now
<1>3. Begins(bracket.sessions, sessions)
  BY DEF HistoryInv, Told, Disturbed
<1>4. FrameIds(sessions) = FrameIds(bracket.sessions)
  BY DEF Unbalanced
<1>5. DOMAIN FrameIds(sessions) = 1 .. Len(sessions)
      /\ DOMAIN FrameIds(bracket.sessions) = 1 .. Len(bracket.sessions)
      /\ Len(sessions) \in Nat /\ Len(bracket.sessions) \in Nat
  BY <1>1, <1>2, SeqFacts DEF FrameIds
<1>6. Len(sessions) = Len(bracket.sessions)
  BY <1>4, <1>5
<1>7. sessions = bracket.sessions
  BY <1>1, <1>2, <1>3, <1>6, BeginsFacts
<1>. QED BY <1>1, <1>7

\* The entry that a commit makes of the bracket's own, and where it starts.
Collapsed(W, e) ==
  LET k == Len(bracket.undo)
      c == W[k]
  IN  /\ undo' = Append(bracket.undo, e) /\ c.stack = bracket.undo
      /\ Stands(W, c, <<>>, fresh)
      /\ Link(c, e, State(tree, sessions, Append(c.stack, e)), fresh)
      /\ e.compound = TRUE /\ Len(e.steps) = Len(undo) - k
      /\ \A j \in 1 .. Len(e.steps) : undo[k + j].steps = <<e.steps[j]>>

\* The steps of the bracket's entries, in the order they were recorded.
Drained(k) == [i \in DOMAIN SubSeq(undo, k + 1, Len(undo)) |->
                 SubSeq(undo, k + 1, Len(undo))[i].steps]

LEMMA SuffixFacts ==
  ASSUME NEW s, IsSeq(s), NEW k \in Nat, NEW n \in Nat, n # 0, Len(s) = k + n
  PROVE  LET q == SubSeq(s, k + 1, Len(s))
         IN  DOMAIN q = 1 .. n /\ \A i \in 1 .. n : q[i] = s[k + i] /\ k + i \in k + 1 .. Len(s)
<1>. DEFINE a == k + 1
           z == Len(s)
           T == Stack(s)
           q == SubSeq(s, a, z)
<1>1. a \in Int /\ z \in Int /\ a <= z /\ z - a + 1 = n
  OBVIOUS
<1>2. \A i \in 1 .. Len(s) : s[i] \in T
  BY SeqFacts
<1>3. \A i \in a .. z : s[i] \in T
  BY <1>2
<1>4. \A i \in 1 .. n : a + i - 1 = k + i /\ k + i \in k + 1 .. Len(s)
  OBVIOUS
<1>. HIDE DEF a, z, T
<1>5. /\ SubSeq(s, a, z) \in Seq(T)
      /\ Len(SubSeq(s, a, z)) = (IF a <= z THEN z - a + 1 ELSE 0)
      /\ \A i \in 1 .. z - a + 1 : SubSeq(s, a, z)[i] = s[a + i - 1]
  BY <1>1, <1>3, SubSeqProperties
<1>6. q \in Seq(T) /\ Len(q) = n /\ \A i \in 1 .. n : q[i] = s[a + i - 1]
  BY <1>1, <1>5
<1>. HIDE DEF q
<1>7. DOMAIN q = 1 .. n
  BY <1>6
<1>. QED BY <1>4, <1>6, <1>7 DEF q, a, z

LEMMA MappedSeq ==
  ASSUME NEW q, NEW n \in Nat, DOMAIN q = 1 .. n
  PROVE  LET d == [i \in DOMAIN q |-> q[i].steps]
         IN  IsSeq(d) /\ Len(d) = n /\ \A i \in 1 .. n : d[i] = q[i].steps
<1>. DEFINE T == {q[i].steps : i \in 1 .. n}
           d == [i \in 1 .. n |-> q[i].steps]
<1>1. \A i \in 1 .. n : q[i].steps \in T
  OBVIOUS
<1>. HIDE DEF T
<1>2. d \in Seq(T) /\ Len(d) = n
  BY <1>1
<1>. HIDE DEF d
<1>3. IsSeq(d)
  BY <1>2, SeqOfOwn
<1>. QED BY <1>2, <1>3 DEF d

LEMMA DrainedIs ==
  ASSUME IsSeq(undo), NEW k \in Nat, NEW n \in Nat, n # 0, Len(undo) = k + n
  PROVE  /\ IsSeq(Drained(k)) /\ Len(Drained(k)) = n
         /\ \A i \in 1 .. n : k + i \in k + 1 .. Len(undo) /\ Drained(k)[i] = undo[k + i].steps
<1>. DEFINE q == SubSeq(undo, k + 1, Len(undo))
<1>1. DOMAIN q = 1 .. n /\ \A i \in 1 .. n : q[i] = undo[k + i] /\ k + i \in k + 1 .. Len(undo)
  BY SuffixFacts
<1>2. Drained(k) = [i \in DOMAIN q |-> q[i].steps]
  BY DEF Drained
<1>. HIDE DEF q
<1>3. IsSeq(Drained(k)) /\ Len(Drained(k)) = n /\ \A i \in 1 .. n : Drained(k)[i] = q[i].steps
  BY <1>1, <1>2, MappedSeq
<1>. QED BY <1>1, <1>3

\* The collapsed entry leads from the document the bracket found to the one it
\* leaves: its steps are those of the entries it replaces.
LEMMA CommitLinks ==
  ASSUME HistoryInv, CommitTransaction, NEW W, Stands(W, Now, <<>>, fresh)
  PROVE  \E e : Collapsed(W, e)
<1>. DEFINE k == Len(bracket.undo)
           n == Len(undo) - k
           steps == FlattenSeq(Drained(k))
           e == [compound |-> TRUE, steps |-> steps,
                 before |-> Look(bracket.tree, bracket.sessions, bracket.undo)]
           c == W[k]
<1>1. /\ bracket.open /\ ~Disturbed /\ ~Unbalanced /\ k < Len(undo)
      /\ undo' = Append(SubSeq(undo, 1, k), e)
  BY DEF CommitTransaction, Collapse, Drained
<1>2. PICK x : Whole(x) /\ Collapse = Append(bracket.undo, x) /\ undo' = Append(bracket.undo, x)
  BY CommitStep DEF HistoryInv
<1>3. IsSeq(undo) /\ IsSeq(bracket.undo) /\ Begins(bracket.undo, undo)
  BY <1>1 DEF HistoryInv, StackInv, StacksHold, SnapshotHolds, UndisturbedHolds, Entries, Disturbed
<1>4. SubSeq(undo, 1, k) = bracket.undo
  BY <1>3, BeginsFacts
<1>5. Whole(e)
  <2>. HIDE DEF e
  <2>1. Append(bracket.undo, e) = Append(bracket.undo, x)
    BY <1>1, <1>2, <1>4
  <2>2. e = x
    BY <1>3, <2>1, AppendFacts
  <2>. QED BY <1>2, <2>2
<1>6. /\ n \in Nat /\ n # 0 /\ IsSeq(Drained(k)) /\ Len(Drained(k)) = n /\ k \in Nat
      /\ \A i \in 1 .. n : k + i \in k + 1 .. Len(undo) /\ Drained(k)[i] = undo[k + i].steps
  <2>1. k \in Nat /\ n \in Nat /\ n # 0 /\ Len(undo) = k + n
    BY <1>1, <1>3, SeqFacts
  <2>. HIDE DEF k, n
  <2>. QED BY <1>3, <2>1, DrainedIs
<1>7. \A i \in k + 1 .. Len(undo) : Single(undo[i])
  BY <1>1 DEF HistoryInv, Told, Disturbed
<1>8. \A i \in 1 .. n : \E s : Drained(k)[i] = <<s>>
  BY <1>6, <1>7 DEF Single
<1>9. Len(steps) = n /\ \A i \in 1 .. n : Drained(k)[i] = <<steps[i]>>
  BY <1>6, <1>8, FlattenSingles
<1>10. e.compound = TRUE /\ e.steps = steps
       /\ e.before = Look(bracket.tree, bracket.sessions, bracket.undo)
  OBVIOUS
<1>. HIDE DEF e, steps
<1>11. Now.tree = tree /\ Now.frames = sessions /\ Now.stack = undo
  BY StateIs DEF Now
<1>12. Timeline(undo, <<>>) = undo
  BY <1>3, TimelineOfUndo
<1>13. k \in 0 .. Len(undo) - 1 /\ k \in 0 .. Len(undo) /\ k + 1 \in 1 .. Len(undo) /\ Len(undo) \in Nat
  BY <1>1, <1>3, <1>6, SeqFacts
<1>14. Stands(W, c, <<>>, fresh) /\ Len(c.stack) = k /\ Begins(c.stack, undo)
  BY <1>11, <1>12, <1>13, CutStands
<1>15. c.stack = bracket.undo
  <2>1. IsSeq(c.stack)
    BY <1>14 DEF Stands
  <2>2. \A i \in 1 .. Len(c.stack) : c.stack[i] = bracket.undo[i]
    BY <1>3, <1>14 DEF Begins
  <2>. QED BY <1>3, <1>14, <2>1, <2>2, SameSeq
<1>16. e.before = Look(c.tree, c.frames, c.stack)
  <2>1. Link(W[k + 1 - 1], undo[k + 1], W[k + 1], fresh)
    BY <1>11, <1>12, <1>13 DEF Stands, History
  <2>2. k + 1 - 1 = k
    BY <1>6
  <2>3. undo[k + 1].before = Look(c.tree, c.frames, c.stack)
    BY <2>1, <2>2 DEF Link
  <2>4. undo[k + 1].before = Look(bracket.tree, bracket.sessions, bracket.undo)
    BY <1>1, <1>13 DEF HistoryInv, Told, Disturbed
  <2>. QED BY <1>10, <2>3, <2>4
<1>17. BoundsOk(sessions, c.stack)
  BY <1>1, <1>15, CommitSessions
<1>18. Len(e.steps) = Len(Now.stack) - k
       /\ \A j \in 1 .. Len(e.steps) : Now.stack[k + j].steps = <<e.steps[j]>>
  BY <1>6, <1>9, <1>10, <1>11
<1>19. Link(c, e, State(Now.tree, Now.frames, Append(c.stack, e)), fresh)
  <2>. HIDE DEF k
  <2>. QED BY <1>5, <1>7, <1>10, <1>11, <1>13, <1>16, <1>17, <1>18, CollapseLinks
<1>. QED BY <1>1, <1>4, <1>10, <1>11, <1>14, <1>15, <1>18, <1>19 DEF Collapsed

\* Where no ungroup is, the one entry surfaces what the many surfaced.
LEMMA CollapsedScoped ==
  ASSUME HistoryInv, CommitTransaction, UngroupsSeen, NEW W, NEW e, Collapsed(W, e),
         Stands(W, Now, <<>>, fresh)
  PROVE  Scoped(State(tree, sessions, Append(bracket.undo, e)), fresh)
<1>. DEFINE k == Len(bracket.undo)
           n == Len(e.steps)
           x == Append(bracket.undo, e)
           d == State(tree, sessions, x)
<1>1. /\ bracket.open /\ ~Disturbed /\ ~Unbalanced /\ k < Len(undo)
  BY DEF CommitTransaction
<1>2. "ungroup" \notin Ops
  BY <1>1 DEF HistoryInv, BracketStands, UngroupsSeen
<1>3. /\ e.compound = TRUE /\ Len(e.steps) = Len(undo) - k
      /\ \A j \in 1 .. Len(e.steps) : undo[k + j].steps = <<e.steps[j]>>
  BY DEF Collapsed
<1>4. Now.tree = tree /\ Now.frames = sessions /\ Now.stack = undo
  BY StateIs DEF Now
<1>5. Scoped(Now, fresh) /\ Sound(Now, fresh)
  BY StandsScoped, StandsFacts
<1>6. IsSeq(undo) /\ IsSeq(bracket.undo) /\ Begins(bracket.undo, undo)
  BY <1>1 DEF HistoryInv, StackInv, StacksHold, SnapshotHolds, UndisturbedHolds, Entries, Disturbed
<1>7. k \in Nat /\ Len(undo) \in Nat /\ \A i \in 1 .. k : undo[i] = bracket.undo[i]
  BY <1>6, SeqFacts DEF Begins
<1>8. BoundsOk(sessions, bracket.undo)
  BY <1>1, CommitSessions
<1>9. x[k + 1] = e /\ Len(x) = k + 1 /\ \A i \in 1 .. k : x[i] = bracket.undo[i]
  BY <1>6, AppendFacts
<1>10. \A i \in 1 .. Len(undo) : undo[i].steps[1].op # "ungroup"
  <2>1. Known(undo, fresh)
    BY <1>4, <1>5 DEF Sound
  <2>. QED BY <1>2, <2>1 DEF Known, KnownStep
<1>. HIDE DEF x
<1>11. d.tree = tree /\ d.frames = sessions /\ d.stack = x
  BY StateIs
<1>. HIDE DEF d, k, n
<1>26. k < Len(undo) /\ n = Len(undo) - k
  BY <1>1, <1>3 DEF k, n
<1>27. \A j \in 1 .. n : undo[k + j].steps = <<e.steps[j]>>
  BY <1>3 DEF k, n
<1>28. x[k + 1] = e /\ Len(x) = k + 1 /\ \A i \in 1 .. k : x[i] = bracket.undo[i]
  BY <1>9 DEF k
<1>12. Dissolved(x) = {}
  <2>1. ASSUME NEW i \in 1 .. k + 1, x[i].steps[1].op = "ungroup", ~x[i].compound
        PROVE  FALSE
    <3>1. CASE i = k + 1
      BY <1>3, <1>28, <2>1, <3>1
    <3>2. CASE i # k + 1
      <4>1. i \in 1 .. k /\ i \in 1 .. Len(undo)
        BY <1>7, <1>26, <3>2
      <4>. QED BY <1>7, <1>28, <1>10, <2>1, <4>1
    <3>. QED BY <3>1, <3>2
  <2>. QED BY <1>28, <2>1 DEF Dissolved
<1>13. ASSUME NEW i \in 1 .. Len(undo)
       PROVE  Adds(tree, undo[i]) = Made(undo[i])
  BY <1>10 DEF Adds, Freed
<1>14. Adds(tree, e) = Made(e)
  BY <1>3 DEF Adds, Freed
<1>15. ASSUME NEW j \in 1 .. n
       PROVE  Made(undo[k + j]) = Creates(e.steps[j])
  <2>1. Stack(undo[k + j].steps) = {e.steps[j]}
    BY <1>27, OneStep
  <2>. QED BY <2>1 DEF Made
<1>16. DOMAIN e.steps = 1 .. n
  <2>1. Whole(e)
    BY DEF Collapsed, Link
  <2>. QED BY <2>1, SeqFacts DEF Whole, n
<1>17. Made(e) = UNION {Creates(e.steps[j]) : j \in 1 .. n}
  BY <1>16 DEF Made, Stack
<1>18. ASSUME NEW b \in 0 .. k
       PROVE  Surfaced(tree, x, b) = Surfaced(tree, undo, b)
  <2>1. Surfaced(tree, x, b) = UNION {Adds(tree, x[i]) : i \in b + 1 .. k + 1}
    BY <1>28, SurfacedIs
  <2>2. Surfaced(tree, undo, b) = UNION {Adds(tree, undo[i]) : i \in b + 1 .. Len(undo)}
    BY SurfacedIs
  <2>3. ASSUME NEW i \in b + 1 .. k + 1, NEW y \in Adds(tree, x[i])
        PROVE  \E h \in b + 1 .. Len(undo) : y \in Adds(tree, undo[h])
    <3>1. CASE i = k + 1
      <4>1. PICK j \in 1 .. n : y \in Creates(e.steps[j])
        BY <1>28, <1>14, <1>17, <2>3, <3>1
      <4>2. k + j \in b + 1 .. Len(undo) /\ k + j \in 1 .. Len(undo)
        BY <1>26, <1>7
      <4>3. y \in Adds(tree, undo[k + j])
        BY <1>13, <1>15, <4>1, <4>2
      <4>. QED BY <4>2, <4>3
    <3>2. CASE i # k + 1
      <4>1. i \in 1 .. k /\ i \in b + 1 .. Len(undo)
        BY <1>7, <1>26, <3>2
      <4>. QED BY <1>7, <1>28, <2>3, <4>1
    <3>. QED BY <3>1, <3>2
  <2>4. ASSUME NEW h \in b + 1 .. Len(undo), NEW y \in Adds(tree, undo[h])
        PROVE  \E i \in b + 1 .. k + 1 : y \in Adds(tree, x[i])
    <3>1. CASE h <= k
      <4>1. h \in 1 .. k /\ h \in b + 1 .. k + 1
        BY <1>7, <3>1
      <4>. QED BY <1>7, <1>28, <2>4, <4>1
    <3>2. CASE h > k
      <4>. DEFINE j == h - k
      <4>1. j \in 1 .. n /\ k + j = h /\ h \in 1 .. Len(undo) /\ k + 1 \in b + 1 .. k + 1
        BY <1>26, <1>7, <3>2
      <4>. HIDE DEF j
      <4>2. y \in Creates(e.steps[j])
        BY <1>13, <1>15, <2>4, <4>1
      <4>. QED BY <1>28, <1>14, <1>17, <4>1, <4>2
    <3>. QED BY <1>7, <3>1, <3>2
  <2>5. \A y : y \in Surfaced(tree, x, b) <=> \E i \in b + 1 .. k + 1 : y \in Adds(tree, x[i])
    BY <2>1
  <2>6. \A y : y \in Surfaced(tree, undo, b)
                 <=> \E h \in b + 1 .. Len(undo) : y \in Adds(tree, undo[h])
    BY <2>2
  <2>. QED BY <2>3, <2>4, <2>5, <2>6
<1>19. ASSUME NEW j \in 1 .. Len(sessions)
       PROVE  Its(d, j) = Its(Now, j)
  <2>2. Sits(sessions[j], bracket.undo)
    BY <1>8 DEF BoundsOk
  <2>3. sessions[j].bound \in 1 .. k
    BY <2>2 DEF Sits, k
  <2>1. sessions[j].bound \in 0 .. k
    BY <2>3
  <2>. QED BY <1>4, <1>11, <1>18, <2>1 DEF Its
<1>20. \A j \in 1 .. Len(sessions) : Under(d, j) = Under(Now, j) /\ Within(d, j) = Within(Now, j)
  BY <1>4, <1>11 DEF Under, Within
<1>21. Apart(d)
  BY <1>4, <1>5, <1>11, <1>19, <1>20 DEF Scoped, Apart
<1>22. Aside(d, fresh)
  BY <1>4, <1>5, <1>11 DEF Scoped, Aside
<1>23. Nested(d)
  BY <1>4, <1>5, <1>11, <1>20 DEF Scoped, Nested
<1>24. Gone(d, fresh)
  BY <1>11, <1>12 DEF Gone
<1>25. Scoped(d, fresh)
  BY <1>21, <1>22, <1>23, <1>24 DEF Scoped
<1>. QED BY <1>25 DEF d, x

LEMMA CommitStands ==
  ASSUME NEW W, NEW e, Collapsed(W, e), CommitTransaction, HistoryInv,
         Stands(W, Now, <<>>, fresh)
  PROVE  LET k == Len(bracket.undo)
         IN  /\ Stands(Grown(W, k, Now'), Now', redo', fresh')
             /\ W[k].stack = bracket.undo /\ Link(W[k], e, Now', fresh)
<1>. DEFINE c == W[Len(bracket.undo)]
<1>1. /\ undo' = Append(c.stack, e) /\ c.stack = bracket.undo /\ Stands(W, c, <<>>, fresh)
      /\ Link(c, e, State(tree, sessions, Append(c.stack, e)), fresh)
  BY DEF Collapsed
<1>2. tree' = tree /\ sessions' = sessions /\ fresh' = fresh /\ redo' = <<>>
  BY DEF CommitTransaction
<1>3. Now' = State(tree, sessions, Append(c.stack, e))
  BY <1>1, <1>2 DEF Now
<1>5. UngroupsSeen => Scoped(Now', fresh)
  BY <1>1, <1>3, CollapsedScoped
<1>. HIDE DEF c
<1>4. Stands(Grown(W, Len(c.stack), Now'), Now', <<>>, fresh)
  BY <1>1, <1>3, <1>5, GrowStands
<1>. QED BY <1>1, <1>2, <1>3, <1>4 DEF c

LEMMA CommitKeepsHistory ==
  ASSUME HistoryInv, CommitTransaction
  PROVE  (\E W : Stands(W, Now, redo, fresh))' /\ BracketStands' /\ Told'
<1>1. PICK W : Stands(W, Now, <<>>, fresh)
  BY StandsAlone DEF HistoryInv
<1>2. PICK e : Collapsed(W, e)
  BY <1>1, CommitLinks
<1>3. bracket' = Closed
  BY DEF CommitTransaction
<1>. QED BY <1>1, <1>2, <1>3, CommitStands, ClosedBracket

\* Every step keeps the history.
LEMMA HistoryNext ==
  ASSUME HistoryInv, [Next]_vars, RedoInBracket = FALSE, Unreleased
  PROVE  HistoryInv'
<1>1. StackInv'
  BY StackNext DEF HistoryInv
<1>2. CASE Edits \/ Moves
  BY <1>1, <1>2, EditKeepsHistory DEF HistoryInv
<1>3. CASE Undo
  BY <1>1, <1>3, UndoKeepsHistory DEF HistoryInv
<1>4. CASE Redo
  BY <1>1, <1>4, RedoKeepsHistory DEF HistoryInv
<1>5. CASE bracket.open /\ Restore
  BY <1>1, <1>5, RestoreKeepsHistory DEF HistoryInv
<1>6. CASE BeginTransaction
  BY <1>1, <1>6, BeginKeepsHistory DEF HistoryInv
<1>7. CASE CommitNothing
  BY <1>1, <1>7, NothingKeepsHistory DEF HistoryInv
<1>8. CASE CommitTransaction
  BY <1>1, <1>8, CommitKeepsHistory DEF HistoryInv
<1>9. CASE ForgetHistory
  BY <1>1, <1>9, ForgetKeepsHistory DEF HistoryInv
<1>10. CASE Save \/ UndoRefused \/ UNCHANGED vars
  <2>1. pushes \in [undo : Nat, redo : Nat]
    BY DEF HistoryInv, StackInv, StacksHold, Counts
  <2>2. [pushes EXCEPT !.undo = @ + 1].redo = pushes.redo
    BY <2>1
  <2>3. UNCHANGED <<tree, fresh, sessions, undo, redo, bracket>> /\ pushes'.redo = pushes.redo
    BY <1>10, <2>2 DEF Save, UndoRefused, vars
  <2>. QED BY <1>1, <2>3, StillKeepsHistory DEF HistoryInv
<1>. QED BY <1>2, <1>3, <1>4, <1>5, <1>6, <1>7, <1>8, <1>9, <1>10, NextCases

-----------------------------------------------------------------------------
(* Undo and redo are each other's inverse, and the tree agrees with itself.*)

\* Undoing or redoing the top entry is a step along the history the document
\* stands on.
LEMMA InvertsHolds == ASSUME HistoryInv PROVE HistoryInverts
<1>1. PICK W : Stands(W, Now, redo, fresh)
  BY DEF HistoryInv
<1>2. Now.tree = tree /\ Now.frames = sessions /\ Now.stack = undo
  BY StateIs DEF Now
<1>3. Sound(Now, fresh)
  BY <1>1, StandsFacts
<1>4. BoundariesSit
  <2>1. IsSeq(sessions) /\ BoundsOk(sessions, undo)
    BY <1>3, SoundParts DEF Now
  <2>2. DOMAIN sessions = 1 .. Len(sessions)
    BY <2>1, SeqFacts
  <2>. QED BY <2>1, <2>2 DEF BoundariesSit, BoundsOk, Sits, Stack
<1>5. ASSUME undo # <<>>
      PROVE  LET s == UndoEntry(tree, sessions, undo)
                 r == RedoEntry(s.tree, s.frames, s.stack, Last(undo))
             IN  Look(s.tree, s.frames, s.stack) = Last(undo).before /\ r = Now
  <2>. DEFINE c == UndoEntry(tree, sessions, undo)
             e == Last(undo)
  <2>1. Link(c, e, Now, fresh)
    BY <1>1, <1>2, <1>5, UndoStands
  <2>. HIDE DEF c, e
  <2>2. Look(c.tree, c.frames, c.stack) = e.before
    BY <2>1 DEF Link
  <2>3. RedoEntry(c.tree, c.frames, c.stack, e) = Now
    BY <2>1, RedoLink
  <2>. QED BY <2>2, <2>3 DEF c, e
<1>. QED BY <1>2, <1>4, <1>5 DEF HistoryInverts, UndoShowsBefore, RedoInvertsUndo

\* A document that stands on a history is a tree.
LEMMA AgreesHolds == ASSUME HistoryInv PROVE TreeAgrees
<1>1. TreeOk(tree, fresh) /\ FramesOk(tree, sessions, fresh) /\ IsSeq(sessions)
      /\ BoundsOk(sessions, undo) /\ IsSeq(undo)
  BY StandsFacts, SoundParts DEF HistoryInv, Now
<1>2. Len(sessions) \in Nat /\ DOMAIN sessions = 1 .. Len(sessions) /\ Len(undo) \in Nat
  BY <1>1, SeqFacts
<1>3. TreeTyped
  <2>1. \A f \in Stack(sessions) : f.group \in Groups /\ f.bound \in Nat
    <3>1. ASSUME NEW i \in 1 .. Len(sessions)
          PROVE  sessions[i].group \in Groups /\ sessions[i].bound \in Nat
      <4>1. sessions[i].bound \in 1 .. Len(undo) /\ sessions[i].group \in Groups
        BY <1>1 DEF FramesOk, BoundsOk, Sits
      <4>. QED BY <1>2, <4>1
    <3>. QED BY <1>2, <3>1 DEF Stack
  <2>. QED BY <1>1, <2>1, TreeFacts DEF TreeTyped
<1>4. \A g \in Groups \cap Live(tree) : tree.members[g] = {n \in Live(tree) : tree.parent[n] = g}
  BY <1>1, TreeFacts
<1>5. Cardinality(OpenGroups(sessions)) = Len(sessions)
  <2>. DEFINE n == Len(sessions)
             h == [i \in 1 .. n |-> sessions[i].group]
  <2>1. OpenGroups(sessions) = {h[i] : i \in 1 .. n}
    BY <1>2 DEF OpenGroups, Stack
  <2>2. \A i, j \in 1 .. n : h[i] = h[j] => i = j
    BY <1>1 DEF FramesOk
  <2>3. ExistsBijection(1 .. n, OpenGroups(sessions))
    <3>1. h \in Bijection(1 .. n, OpenGroups(sessions))
      BY <2>1, <2>2 DEF Bijection, Injection, Surjection, IsInjective
    <3>. QED BY <3>1 DEF ExistsBijection
  <2>. QED BY <1>2, <2>3, FS_CountingElements
<1>. QED BY <1>3, <1>4, <1>5 DEF TreeAgrees

\* Undo and redo are each other's inverse for every tree, any depth of the
\* stacks and any nesting of sessions and brackets (undo_step, redo_step):
\* undoing the top entry shows the document it was recorded on, redo then
\* restores document and sessions exactly, and a session's boundary is the
\* entry that opened it.  A drawing that an ungroup released inside a session
\* and the close folded in stays folded when the close is undone, so the
\* instance must not have all three; and a body that redoes could close the
\* bracket's own session.
THEOREM TheHistoryInverts ==
  ASSUME RedoInBracket = FALSE,
         Drawn = {} \/ "ungroup" \notin Ops \/ "session" \notin Ops
  PROVE  Spec => []HistoryInverts
<1>1. Init => HistoryInv
  BY HistoryInit
<1>2. HistoryInv /\ [Next]_vars => HistoryInv'
  BY HistoryNext DEF Unreleased
<1>3. HistoryInv => HistoryInverts
  BY InvertsHolds
<1>. QED BY <1>1, <1>2, <1>3, PTL DEF Spec

\* Whatever is edited, undone, redone, entered, left, bracketed or aborted,
\* every shown group lists exactly the live nodes whose parent it is, and no
\* group is open in two sessions (splice_out_parent, exit_group_session).
THEOREM TheTreeAgrees ==
  ASSUME RedoInBracket = FALSE,
         Drawn = {} \/ "ungroup" \notin Ops \/ "session" \notin Ops
  PROVE  Spec => []TreeAgrees
<1>1. Init => HistoryInv
  BY HistoryInit
<1>2. HistoryInv /\ [Next]_vars => HistoryInv'
  BY HistoryNext DEF Unreleased
<1>3. HistoryInv => TreeAgrees
  BY AgreesHolds
<1>. QED BY <1>1, <1>2, <1>3, PTL DEF Spec

-----------------------------------------------------------------------------
(* The files along a history: entering and leaving a session writes nothing,*)
(* and where a document reads clean, what it would write is on disk.      *)

\* An entry of one bookkeeping step surfaces nothing and releases nothing.
LEMMA AddsNothing ==
  ASSUME NEW stack, IsSeq(stack), NEW e, NEW step, e.steps = <<step>>, step.op \in Bookkeeping,
         NEW b \in Nat
  PROVE  /\ \A t : Surfaced(t, Append(stack, e), b) = Surfaced(t, stack, b)
         /\ Released(Append(stack, e), b) = Released(stack, b)
<1>. DEFINE x == Append(stack, e)  n == Len(stack)
<1>1. n \in Nat /\ Len(x) = n + 1 /\ x[n + 1] = e /\ \A i \in 1 .. n : x[i] = stack[i]
  BY AppendFacts
<1>2. e.steps[1] = step /\ Stack(e.steps) = {step} /\ step.op # "ungroup" /\ Creates(step) = {}
  BY OneStep DEF Bookkeeping, Creates
<1>. HIDE DEF x, n
<1>3. ASSUME NEW i \in b + 1 .. n + 1
      PROVE  i = n + 1 \/ (i \in b + 1 .. n /\ x[i] = stack[i])
  BY <1>1
<1>4. \A i \in b + 1 .. n : i \in b + 1 .. n + 1 /\ x[i] = stack[i]
  BY <1>1
<1>5. ASSUME NEW t
      PROVE  Surfaced(t, x, b) = Surfaced(t, stack, b)
  <2>. DEFINE A(d) == (UNION {Creates(s) : s \in Stack(d.steps)}) \cup
                        (IF d.steps[1].op = "ungroup" /\ ~d.compound
                         THEN t.members[d.steps[1].node] ELSE {})
  <2>1. A(e) = {}
    BY <1>2
  <2>2. Surfaced(t, x, b) = UNION {A(x[i]) : i \in b + 1 .. n + 1}
    BY <1>1 DEF Surfaced
  <2>3. Surfaced(t, stack, b) = UNION {A(stack[i]) : i \in b + 1 .. n}
    BY DEF Surfaced, n
  <2>. HIDE DEF A
  <2>. QED BY <1>1, <1>3, <1>4, <2>1, <2>2, <2>3
<1>6. Released(x, b) = Released(stack, b)
  <2>. DEFINE B(d) == UNION {s.lines : s \in {y \in Stack(d.steps) : y.op = "ungroup" /\ y.parent = Top}}
  <2>1. B(e) = {}
    BY <1>2
  <2>2. Released(x, b) = UNION {B(x[i]) : i \in b + 1 .. n + 1}
    BY <1>1 DEF Released
  <2>3. Released(stack, b) = UNION {B(stack[i]) : i \in b + 1 .. n}
    BY DEF Released, n
  <2>. HIDE DEF B
  <2>. QED BY <1>1, <1>3, <1>4, <2>1, <2>2, <2>3
<1>. QED BY <1>5, <1>6 DEF x

LEMMA ExitsAlike ==
  ASSUME NEW stack, IsSeq(stack), NEW e, NEW step, e.steps = <<step>>, step.op \in Bookkeeping,
         NEW f, f.bound \in Nat, NEW t
  PROVE  Exit(t, f, Append(stack, e)) = Exit(t, f, stack)
<1>. DEFINE x == Append(stack, e)
<1>1. Surfaced(t, x, f.bound) = Surfaced(t, stack, f.bound) /\ Released(x, f.bound) = Released(stack, f.bound)
  BY AddsNothing
<1>. HIDE DEF x
<1>2. Folded(t, f, x) = Folded(t, f, stack)
  BY <1>1 DEF Folded
<1>3. Exit(t, f, x) = Exit(t, f, stack)
  BY <1>1, <1>2 DEF Exit
<1>. QED BY <1>3 DEF x

\* Every session closes alike on the two histories.
ClosesAlike(frames, x, y) ==
  \A i \in 1 .. Len(frames) : \A z : Exit(z, frames[i], x) = Exit(z, frames[i], y)

\* Closing the innermost session first and the others then is closing all.
LEMMA ClosesTop ==
  ASSUME NEW t, NEW frames, IsSeq(frames), NEW f, NEW x, NEW y,
         ClosesAlike(frames, x, y)
  PROVE  SessionClosed(t, Append(frames, f), x) = SessionClosed(Exit(t, f, x), frames, y)
<1>. DEFINE n == Len(frames)  more == Append(frames, f)  u == Exit(t, f, x)
<1>1. n \in Nat /\ IsSeq(more) /\ Len(more) = n + 1 /\ more[n + 1] = f
      /\ \A i \in 1 .. n : more[i] = frames[i]
  BY AppendFacts
<1>. HIDE DEF more, u
<1>2. PICK a : ClosedBy(t, more, x, a)
  BY <1>1, ClosedIs
<1>3. PICK b : ClosedBy(u, frames, y, b)
  BY ClosedIs
<1>4. /\ SessionClosed(t, more, x) = a[n + 1] /\ a[0] = t
      /\ \A k \in 1 .. n + 1 : a[k] = Exit(a[k - 1], more[n + 1 + 1 - k], x)
  BY <1>1, <1>2 DEF ClosedBy
<1>5. /\ SessionClosed(u, frames, y) = b[n] /\ b[0] = u
      /\ \A k \in 1 .. n : b[k] = Exit(b[k - 1], frames[n + 1 - k], y)
  BY <1>3 DEF ClosedBy
<1>6. \A i \in 1 .. n : \A z : Exit(z, frames[i], x) = Exit(z, frames[i], y)
  BY DEF ClosesAlike
<1>. HIDE DEF n
<1>. DEFINE S == {k \in 0 .. n : a[k + 1] = b[k]}
<1>7. 0 \in S
  <2>1. 1 \in 1 .. n + 1 /\ 1 - 1 = 0 /\ n + 1 + 1 - 1 = n + 1 /\ 0 \in 0 .. n /\ 0 + 1 = 1
    BY <1>1
  <2>2. a[1] = Exit(a[1 - 1], more[n + 1 + 1 - 1], x)
    BY <1>4, <2>1
  <2>3. a[1] = u
    BY <1>1, <1>4, <2>1, <2>2 DEF u
  <2>. QED BY <1>5, <2>1, <2>3
<1>8. ASSUME NEW k \in 0 .. n - 1, k \in S
      PROVE  k + 1 \in S
  <2>. DEFINE j == k + 1
  <2>1. j \in 0 .. n /\ j \in 1 .. n /\ j + 1 \in 1 .. n + 1 /\ j + 1 - 1 = j /\ j - 1 = k
        /\ n + 1 + 1 - (j + 1) = n + 1 - j /\ n + 1 - j \in 1 .. n
    BY <1>1
  <2>2. a[j] = b[k]
    BY <1>8
  <2>. HIDE DEF j
  <2>3. a[j + 1] = Exit(a[j + 1 - 1], more[n + 1 + 1 - (j + 1)], x)
    BY <1>4, <2>1
  <2>4. b[j] = Exit(b[j - 1], frames[n + 1 - j], y)
    BY <1>5, <2>1
  <2>5. a[j + 1] = Exit(a[j], frames[n + 1 - j], x)
    BY <1>1, <2>1, <2>3
  <2>6. a[j + 1] = b[j]
    BY <1>6, <2>1, <2>2, <2>4, <2>5
  <2>. QED BY <2>1, <2>6 DEF j
<1>. HIDE DEF S
<1>9. n \in S
  <2>1. \A k \in 0 .. n : k \in S
    BY <1>1, <1>7, <1>8, UpTo
  <2>. QED BY <1>1, <2>1
<1>. QED BY <1>4, <1>5, <1>9 DEF S, more, u

\* Leaving a session just entered changes nothing, if the group cannot be
\* taken for emptied.
LEMMA OpenReturns ==
  ASSUME NEW t, NEW fr, TreeOk(t, fr), NEW step, FitsOpen(t, step), NEW f, NEW x,
         f.group = step.node, f.members = step.members,
         \A u : Surfaced(u, x, f.bound) = {}, Released(x, f.bound) = {},
         \E h \in Drawn : t.line[h] = step.node
  PROVE  Exit(ApplyOpen(t, step), f, x) = t
<1>. DEFINE g == step.node  ms == step.members  u == ApplyOpen(t, step)  v == Exit(u, f, x)
<1>1. t \in Trees /\ g \in Groups /\ g \in Nodes /\ g \in Live(t) /\ ms = {n \in Live(t) : t.parent[n] = g}
      /\ g \notin t.hidden /\ t.members[g] = ms /\ Live(t) = Nodes \ t.hidden
      /\ t.parent \in [Nodes -> Parents] /\ t.members \in [Groups -> SUBSET Nodes]
      /\ t.hidden \in SUBSET Nodes
  BY Names, TreeFacts DEF FitsOpen
<1>2. g \notin ms
  BY <1>1, NotItsOwnParent
<1>3. IsTree(u, Rehomed(t.parent, ms, Top), t.hidden \cup {g}, t.members, t.line)
  BY <1>1, OpenIs
<1>. HIDE DEF u
<1>4. u \in Trees /\ u.parent = Rehomed(t.parent, ms, Top) /\ u.hidden = t.hidden \cup {g}
      /\ u.members = t.members /\ u.line = t.line
  BY <1>3 DEF IsTree
<1>5. Folded(u, f, x) = ms
  <2>1. Folded(u, f, x) = ms \cap TopLevel(u)
    BY DEF Folded
  <2>2. \A m \in ms : m \in Nodes /\ m \notin u.hidden /\ u.parent[m] = Top
    BY <1>1, <1>2, <1>4 DEF Rehomed
  <2>3. ms \subseteq TopLevel(u)
    BY <2>2 DEF TopLevel, Live
  <2>. QED BY <2>1, <2>3
<1>6. Lines(u, f, x) = t.line
  BY <1>4, LinesStay
<1>7. ~Emptied(ms, t.line, g)
  BY DEF Emptied
<1>8. IsTree(v, Rehomed(u.parent, ms, g), u.hidden \ {g}, [u.members EXCEPT ![g] = ms], t.line)
  <2>1. IsTree(v, Rehomed(u.parent, Folded(u, f, x), f.group),
               IF Emptied(Folded(u, f, x), Lines(u, f, x), f.group) THEN u.hidden
               ELSE u.hidden \ {f.group},
               [u.members EXCEPT ![f.group] = Folded(u, f, x)], Lines(u, f, x))
    BY <1>1, <1>4, ExitIs
  <2>. HIDE DEF v
  <2>. QED BY <1>5, <1>6, <1>7, <2>1
<1>. HIDE DEF v
<1>9. v.parent = t.parent
  <2>1. v.parent = Rehomed(u.parent, ms, g)
    BY <1>8 DEF IsTree
  <2>2. \A m \in Nodes : v.parent[m] = t.parent[m]
    BY <1>1, <1>4, <2>1 DEF Rehomed
  <2>3. v.parent = [m \in Nodes |-> v.parent[m]]
    BY <2>1 DEF Rehomed
  <2>. QED BY <1>1, <2>2, <2>3
<1>10. v.hidden = t.hidden /\ v.line = t.line /\ v \in Trees
  BY <1>1, <1>4, <1>8 DEF IsTree
<1>11. v.members = t.members
  <2>1. v.members = [t.members EXCEPT ![g] = ms]
    BY <1>4, <1>8 DEF IsTree
  <2>2. t.members \in [Groups -> SUBSET Nodes] /\ g \in Groups /\ t.members[g] = ms
    BY <1>1
  <2>. HIDE DEF g, ms
  <2>. QED BY <2>1, <2>2
<1>12. v = t
  BY <1>1, <1>9, <1>10, <1>11, SameTree
<1>. QED BY <1>12 DEF u, v

\* Every drawing lies in the group it was drawn in.
Lined(t) == "ungroup" \in Ops \/ \A h \in Drawn : t.line[h] = h

\* No group can be emptied and left empty, or no session is ever opened.
Tidy ==
  \/ "session" \notin Ops
  \/ Groups \subseteq Drawn /\ "ungroup" \notin Ops

LEMMA OpenWritesNothing ==
  ASSUME NEW s, NEW fr, Sound(s, fr), NEW step, step.op = "open", FitsOpen(s.tree, step),
         Lined(s.tree), Groups \subseteq Drawn, "ungroup" \notin Ops,
         NEW e, e.steps = <<step>>
  PROVE  LET d == Apply(s, step)
         IN  SessionClosed(d.tree, d.frames, Append(s.stack, e))
               = SessionClosed(s.tree, s.frames, s.stack)
<1>. DEFINE d == Apply(s, step)  t == ApplyOpen(s.tree, step)  f == FrameOf(s, step)
            x == Append(s.stack, e)  frames == Append(s.frames, f)
<1>1. TreeOk(s.tree, fr) /\ IsSeq(s.stack) /\ IsSeq(s.frames)
  BY DEF Sound, FramesOk
<1>2. d.tree = t /\ d.frames = frames
  <2>1. d = State(t, frames, Append(s.stack, Child(step)))
    BY ApplyIs
  <2>. HIDE DEF d, t, frames
  <2>. QED BY <2>1, StateIs
<1>3. f.group = step.node /\ f.members = step.members /\ f.bound = Len(s.stack) + 1
      /\ Len(s.stack) \in Nat
  BY <1>1, SeqFacts DEF FrameOf
<1>4. step.op \in Bookkeeping
  BY DEF Bookkeeping
<1>. HIDE DEF d, t, f, frames
<1>5. /\ \A u : Surfaced(u, x, f.bound) = Surfaced(u, s.stack, f.bound)
      /\ Released(x, f.bound) = Released(s.stack, f.bound)
  BY <1>1, <1>3, <1>4, AddsNothing
<1>6. f.bound + 1 .. Len(s.stack) = {}
  BY <1>3
<1>7. Released(s.stack, f.bound) = {} /\ \A u : Surfaced(u, s.stack, f.bound) = {}
  BY <1>6 DEF Released, Surfaced
<1>8. step.node \in Drawn /\ s.tree.line[step.node] = step.node
  BY DEF FitsOpen, Lined
<1>9. Exit(t, f, x) = s.tree
  <2>. HIDE DEF x
  <2>. QED BY <1>1, <1>3, <1>5, <1>7, <1>8, OpenReturns DEF t
<1>10. ClosesAlike(s.frames, x, s.stack)
  <2>1. \A i \in 1 .. Len(s.frames) : s.frames[i].bound \in Nat
    BY BoundIs
  <2>. QED BY <1>1, <1>4, <2>1, ExitsAlike DEF ClosesAlike
<1>. HIDE DEF x
<1>11. SessionClosed(t, Append(s.frames, f), x) = SessionClosed(Exit(t, f, x), s.frames, s.stack)
  BY <1>1, <1>10, ClosesTop
<1>. QED BY <1>2, <1>9, <1>11 DEF d, x, frames

LEMMA CloseWritesNothing ==
  ASSUME NEW s, NEW fr, Sound(s, fr), NEW step, step.op = "close", FitsClose(s, step),
         NEW e, e.steps = <<step>>
  PROVE  LET d == Apply(s, step)
         IN  SessionClosed(d.tree, d.frames, Append(s.stack, e))
               = SessionClosed(s.tree, s.frames, s.stack)
<1>. DEFINE d == Apply(s, step)  f == Last(s.frames)  t == Exit(s.tree, f, s.stack)
            x == Append(s.stack, e)  frames == Front(s.frames)
<1>1. IsSeq(s.stack) /\ IsSeq(s.frames) /\ s.frames # <<>>
  BY DEF Sound, FramesOk, FitsClose
<1>2. d.tree = t /\ d.frames = frames
  <2>1. d = State(t, frames, Append(s.stack, Child(step)))
    BY ApplyIs
  <2>. HIDE DEF d, t, frames
  <2>. QED BY <2>1, StateIs
<1>3. step.op \in Bookkeeping
  BY DEF Bookkeeping
<1>4. s.frames = Append(frames, f) /\ IsSeq(frames) /\ Len(frames) = Len(s.frames) - 1
      /\ \A i \in 1 .. Len(s.frames) - 1 : frames[i] = s.frames[i]
  BY <1>1, FrontFacts
<1>. HIDE DEF d, f, frames, x
<1>5. ClosesAlike(frames, s.stack, x)
  <2>1. \A i \in 1 .. Len(frames) : i \in 1 .. Len(s.frames) /\ frames[i] = s.frames[i]
    BY <1>1, <1>4, SeqFacts
  <2>2. \A i \in 1 .. Len(frames) : frames[i].bound \in Nat
    BY <2>1, BoundIs
  <2>. QED BY <1>1, <1>3, <2>2, ExitsAlike DEF x, ClosesAlike
<1>6. SessionClosed(s.tree, Append(frames, f), s.stack) = SessionClosed(t, frames, x)
  BY <1>4, <1>5, ClosesTop
<1>. QED BY <1>2, <1>4, <1>6 DEF d, x

\* Entering or leaving a session writes nothing.
LEMMA BookkeepingWritesNothing ==
  ASSUME NEW s, NEW fr, Sound(s, fr), NEW step, step.op \in Bookkeeping, Fits(s, step),
         Lined(s.tree), Groups \subseteq Drawn, "ungroup" \notin Ops,
         NEW e, e.steps = <<step>>
  PROVE  LET d == Apply(s, step)
         IN  FileOf(State(d.tree, d.frames, Append(s.stack, e))) = FileOf(s)
<1>. DEFINE d == Apply(s, step)  x == Append(s.stack, e)  z == State(d.tree, d.frames, x)
<1>1. SessionClosed(d.tree, d.frames, x) = SessionClosed(s.tree, s.frames, s.stack)
  <2>1. CASE step.op = "open"
    <3>1. FitsOpen(s.tree, step)
      BY <2>1 DEF Fits
    <3>. QED BY <2>1, <3>1, OpenWritesNothing
  <2>2. CASE step.op = "close"
    <3>1. FitsClose(s, step)
      BY <2>2 DEF Fits
    <3>. QED BY <2>2, <3>1, CloseWritesNothing
  <2>. QED BY <2>1, <2>2 DEF Bookkeeping
<1>. HIDE DEF d, x
<1>2. z.tree = d.tree /\ z.frames = d.frames /\ z.stack = x
  BY StateIs
<1>. HIDE DEF z
<1>3. FileOf(z) = FileOf(s)
  BY <1>1, <1>2 DEF FileOf
<1>. QED BY <1>3 DEF d, x, z

LEMMA LineStays ==
  ASSUME NEW s, NEW fr, Sound(s, fr), NEW step, Fits(s, step), step.op # "ungroup"
  PROVE  Apply(s, step).tree.line = s.tree.line
<1>. DEFINE t == s.tree  stack == Append(s.stack, Child(step))
<1>1. TreeOk(t, fr) /\ t \in Trees
  BY DEF Sound, TreeOk
<1>2. CASE step.op = "draw"
  <2>1. Apply(s, step) = State(ApplyDraw(t, step), s.frames, stack)
    BY <1>2, ApplyIs
  <2>2. ApplyDraw(t, step).line = t.line
    BY <1>1, DrawIs DEF IsTree
  <2>. QED BY <2>1, <2>2, StateIs
<1>3. CASE step.op = "delete"
  <2>1. Apply(s, step) = State(ApplyDelete(t, step), s.frames, stack)
    BY <1>3, ApplyIs
  <2>2. step.node \in Nodes /\ step.parent \in Parents
    BY <1>1, <1>3, TreeFacts, Names DEF Fits, FitsDelete
  <2>3. ApplyDelete(t, step).line = t.line
    BY <1>1, <2>2, DeleteIs DEF IsTree
  <2>. QED BY <2>1, <2>3, StateIs
<1>4. CASE step.op = "group"
  <2>1. Apply(s, step) = State(ApplyGroup(t, step), s.frames, stack)
    BY <1>4, ApplyIs
  <2>2. step.node \in Groups /\ step.parent \in Parents
    BY <1>4 DEF Fits, FitsGroup
  <2>3. ApplyGroup(t, step).line = t.line
    BY <1>1, <2>2, GroupIs DEF IsTree
  <2>. QED BY <2>1, <2>3, StateIs
<1>5. CASE step.op = "move"
  <2>1. Apply(s, step) = State(ApplyMove(t, step), s.frames, stack)
    BY <1>5, ApplyIs
  <2>2. FitsMove(t, step)
    BY <1>5 DEF Fits
  <2>3. ApplyMove(t, step).line = t.line
    BY <1>1, <2>2, MoveTyped, MoveIs DEF IsTree
  <2>. QED BY <2>1, <2>3, StateIs
<1>6. CASE step.op = "open"
  <2>. DEFINE frames == Append(s.frames, FrameOf(s, step))
  <2>1. Apply(s, step) = State(ApplyOpen(t, step), frames, stack)
    BY <1>6, ApplyIs
  <2>2. step.node \in Groups
    BY <1>6 DEF Fits, FitsOpen
  <2>3. ApplyOpen(t, step).line = t.line
    BY <1>1, <2>2, OpenIs DEF IsTree
  <2>. HIDE DEF frames, stack
  <2>. QED BY <2>1, <2>3, StateIs
<1>7. CASE step.op = "close"
  <2>. DEFINE f == Last(s.frames)  u == Exit(t, f, s.stack)
  <2>1. Apply(s, step) = State(u, Front(s.frames), stack)
    BY <1>7, ApplyIs
  <2>2. f.group \in Groups /\ Released(s.stack, f.bound) = {}
    <3>1. FitsClose(s, step)
      BY <1>7 DEF Fits
    <3>. QED BY <3>1, TopFrame DEF FitsClose
  <2>. HIDE DEF f
  <2>3. u.line = Lines(t, f, s.stack)
    <3>1. IsTree(u, Rehomed(t.parent, Folded(t, f, s.stack), f.group),
                 IF Emptied(Folded(t, f, s.stack), Lines(t, f, s.stack), f.group) THEN t.hidden
                 ELSE t.hidden \ {f.group},
                 [t.members EXCEPT ![f.group] = Folded(t, f, s.stack)], Lines(t, f, s.stack))
      BY <1>1, <2>2, ExitIs
    <3>. HIDE DEF u
    <3>. QED BY <3>1 DEF IsTree
  <2>4. Lines(t, f, s.stack) = t.line
    BY <1>1, <2>2, LinesStay
  <2>. HIDE DEF u
  <2>. QED BY <2>1, <2>3, <2>4, StateIs
<1>. QED BY <1>2, <1>3, <1>4, <1>5, <1>6, <1>7 DEF Fits

\* Along a history the file changes only where the content depth does.
Even(W, n) ==
  \A i \in 1 .. n : ContentDepth(W[i].stack) = ContentDepth(W[i - 1].stack)
                      => FileOf(W[i]) = FileOf(W[i - 1])

\* Wherever the history reads clean, a save would write this file.
Kept(W, n, mark, file) ==
  \A i \in 0 .. n : ContentDepth(W[i].stack) = mark => FileOf(W[i]) = file

Files(W, n, mark, file) ==
  /\ \A i \in 0 .. n : Lined(W[i].tree)
  /\ Even(W, n)
  /\ Kept(W, n, mark, file)

LEMMA Steady ==
  ASSUME NEW n \in Nat, NEW d \in [0 .. n -> Nat], NEW f,
         \A i \in 1 .. n : d[i - 1] <= d[i] /\ (d[i] = d[i - 1] => f[i] = f[i - 1])
  PROVE  \A i, j \in 0 .. n : d[i] = d[j] => f[i] = f[j]
<1>. DEFINE S == {k \in 0 .. n : \A i \in 0 .. k : d[i] <= d[k] /\ (d[i] = d[k] => f[i] = f[k])}
<1>1. 0 \in S
  OBVIOUS
<1>2. ASSUME NEW k \in 0 .. n - 1, k \in S
      PROVE  k + 1 \in S
  <2>. DEFINE j == k + 1
  <2>1. j \in 1 .. n /\ j \in 0 .. n /\ j - 1 = k /\ k \in 0 .. n
        /\ \A i \in 0 .. j : i = j \/ i \in 0 .. k
    OBVIOUS
  <2>2. \A i \in 0 .. k : i \in 0 .. n
    OBVIOUS
  <2>3. \A i \in 0 .. k : d[i] <= d[k] /\ (d[i] = d[k] => f[i] = f[k])
    BY <1>2
  <2>. HIDE DEF j, S
  <2>4. d[k] <= d[j] /\ (d[j] = d[k] => f[j] = f[k]) /\ d[k] \in Nat /\ d[j] \in Nat
    BY <2>1
  <2>5. ASSUME NEW i \in 0 .. k
        PROVE  d[i] <= d[j] /\ (d[i] = d[j] => f[i] = f[j])
    <3>1. d[i] \in Nat /\ d[i] <= d[k] /\ (d[i] = d[k] => f[i] = f[k])
      BY <2>2, <2>3
    <3>2. d[i] <= d[j]
      BY <2>4, <3>1
    <3>3. ASSUME d[i] = d[j]
          PROVE  f[i] = f[j]
      <4>1. d[i] = d[k] /\ d[j] = d[k]
        BY <2>4, <3>1, <3>3
      <4>. QED BY <2>4, <3>1, <4>1
    <3>. QED BY <3>2, <3>3
  <2>6. \A i \in 0 .. j : d[i] <= d[j] /\ (d[i] = d[j] => f[i] = f[j])
    BY <2>1, <2>4, <2>5
  <2>. QED BY <2>1, <2>6 DEF j, S
<1>. HIDE DEF S
<1>3. \A k \in 0 .. n : k \in S
  BY <1>1, <1>2, UpTo
<1>4. ASSUME NEW i \in 0 .. n, NEW j \in 0 .. n, d[i] = d[j]
      PROVE  f[i] = f[j]
  <2>1. CASE i <= j
    <3>1. i \in 0 .. j /\ j \in S
      BY <1>3, <2>1
    <3>. QED BY <1>4, <3>1 DEF S
  <2>2. CASE j <= i
    <3>1. j \in 0 .. i /\ i \in S
      BY <1>3, <2>2
    <3>. QED BY <1>4, <3>1 DEF S
  <2>. QED BY <2>1, <2>2
<1>. QED BY <1>4

\* One entry deeper, unless it is a session's.
LEMMA DepthGrows ==
  ASSUME NEW s, IsSeq(s), NEW e
  PROVE  /\ ContentDepth(s) \in Nat /\ ContentDepth(Append(s, e)) \in Nat
         /\ ContentDepth(s) <= ContentDepth(Append(s, e))
         /\ ~IsBookkeeping(e) => ContentDepth(Append(s, e)) = ContentDepth(s) + 1
         /\ IsBookkeeping(e) => ContentDepth(Append(s, e)) = ContentDepth(s)
<1>. DEFINE x == Append(s, e)  n == Len(s) + 1
<1>1. IsSeq(x) /\ Len(x) = n /\ x[n] = e /\ Len(s) \in Nat /\ \A i \in 1 .. Len(s) : x[i] = s[i]
  BY AppendFacts
<1>2. DOMAIN s = 1 .. Len(s) /\ DOMAIN x = 1 .. n
  BY <1>1, SeqFacts
<1>3. IsFiniteSet(Counted(s)) /\ IsFiniteSet(Counted(x)) /\ ContentDepth(s) \in Nat
      /\ ContentDepth(x) \in Nat
  BY <1>1, CountedFinite
<1>. HIDE DEF x
<1>4. Counted(s) \subseteq Counted(x) /\ n \notin Counted(s)
  BY <1>1, <1>2 DEF Counted
<1>5. ContentDepth(s) <= ContentDepth(x)
  BY <1>3, <1>4, FS_Subset DEF ContentDepth
<1>6. ASSUME ~IsBookkeeping(e)
      PROVE  ContentDepth(x) = ContentDepth(s) + 1
  <2>1. Counted(x) = Counted(s) \cup {n}
    BY <1>1, <1>2, <1>6 DEF Counted
  <2>2. Cardinality(Counted(s) \cup {n}) = Cardinality(Counted(s)) + 1
    BY <1>3, <1>4, FS_AddElement
  <2>. QED BY <2>1, <2>2 DEF ContentDepth
<1>7. ASSUME IsBookkeeping(e)
      PROVE  ContentDepth(x) = ContentDepth(s)
  <2>1. Counted(x) = Counted(s)
    BY <1>1, <1>2, <1>7 DEF Counted
  <2>. QED BY <2>1 DEF ContentDepth
<1>. QED BY <1>3, <1>5, <1>6, <1>7 DEF x

\* Documents of a history that are as deep write the same file.
LEMMA EvenFiles ==
  ASSUME NEW W, NEW T, NEW fr, IsSeq(T), History(W, T, fr), Even(W, Len(T)),
         NEW i \in 0 .. Len(T), NEW j \in 0 .. Len(T),
         ContentDepth(W[i].stack) = ContentDepth(W[j].stack)
  PROVE  FileOf(W[i]) = FileOf(W[j])
<1>. DEFINE n == Len(T)
            d == [k \in 0 .. n |-> ContentDepth(W[k].stack)]
            f == [k \in 0 .. n |-> FileOf(W[k])]
<1>1. n \in Nat
  BY SeqFacts
<1>2. ASSUME NEW k \in 0 .. n
      PROVE  ContentDepth(W[k].stack) \in Nat /\ d[k] = ContentDepth(W[k].stack) /\ f[k] = FileOf(W[k])
  <2>1. IsSeq(W[k].stack)
    BY <1>2 DEF History, Sound
  <2>. QED BY <2>1, CountedFinite
<1>3. d \in [0 .. n -> Nat]
  BY <1>2
<1>4. ASSUME NEW k \in 1 .. n
      PROVE  d[k - 1] <= d[k] /\ (d[k] = d[k - 1] => f[k] = f[k - 1])
  <2>1. k \in 0 .. n /\ k - 1 \in 0 .. n
    BY <1>1
  <2>2. Link(W[k - 1], T[k], W[k], fr)
    BY DEF History
  <2>3. W[k].stack = Append(W[k - 1].stack, T[k]) /\ IsSeq(W[k - 1].stack)
    BY <2>2, LinkEnds DEF Sound
  <2>4. ContentDepth(W[k - 1].stack) <= ContentDepth(W[k].stack)
    BY <2>3, DepthGrows
  <2>5. ContentDepth(W[k].stack) = ContentDepth(W[k - 1].stack) => FileOf(W[k]) = FileOf(W[k - 1])
    BY DEF Even
  <2>. HIDE DEF d, f
  <2>. QED BY <1>2, <2>1, <2>4, <2>5
<1>. HIDE DEF d, f
<1>5. \A a, b \in 0 .. n : d[a] = d[b] => f[a] = f[b]
  BY <1>1, <1>3, <1>4, Steady
<1>. QED BY <1>2, <1>5

\* The mark that a save leaves.
LEMMA SavedFiles ==
  ASSUME NEW W, NEW s, NEW r, NEW fr, Stands(W, s, r, fr), NEW mark, NEW file,
         Files(W, Len(Timeline(s.stack, r)), mark, file)
  PROVE  Files(W, Len(Timeline(s.stack, r)), ContentDepth(s.stack), FileOf(s))
<1>. DEFINE T == Timeline(s.stack, r)  n == Len(T)
<1>1. IsSeq(T) /\ Len(s.stack) \in 0 .. n /\ W[Len(s.stack)] = s /\ History(W, T, fr)
  BY StandsFacts DEF Stands
<1>. HIDE DEF T
<1>2. ASSUME NEW i \in 0 .. n, ContentDepth(W[i].stack) = ContentDepth(s.stack)
      PROVE  FileOf(W[i]) = FileOf(s)
  <2>1. Even(W, Len(T))
    BY DEF Files, T
  <2>2. ContentDepth(W[i].stack) = ContentDepth(W[Len(s.stack)].stack)
    BY <1>1, <1>2
  <2>3. FileOf(W[i]) = FileOf(W[Len(s.stack)])
    BY <1>1, <2>1, <2>2, EvenFiles
  <2>. QED BY <1>1, <2>3
<1>3. Kept(W, n, ContentDepth(s.stack), FileOf(s))
  BY <1>2 DEF Kept
<1>. QED BY <1>3 DEF Files, T

\* A history that writes the same files all along.
LEMMA SameFilesFiles ==
  ASSUME NEW W, NEW X, NEW n \in Nat, SameFiles(W, X, n), NEW mark, NEW file,
         Files(W, n, mark, file)
  PROVE  Files(X, n, mark, file)
<1>1. \A i \in 0 .. n : X[i].stack = W[i].stack /\ FileOf(X[i]) = FileOf(W[i])
                        /\ X[i].tree.line = W[i].tree.line
  BY DEF SameFiles
<1>2. \A i \in 0 .. n : Lined(X[i].tree)
  BY <1>1 DEF Files, Lined
<1>3. \A i \in 1 .. n : i \in 0 .. n /\ i - 1 \in 0 .. n
  OBVIOUS
<1>4. Even(X, n)
  BY <1>1, <1>3 DEF Files, Even
<1>5. Kept(X, n, mark, file)
  BY <1>1 DEF Files, Kept
<1>. QED BY <1>2, <1>4, <1>5 DEF Files

\* The first n documents of a history.
LEMMA CutFiles ==
  ASSUME NEW W, NEW n \in Nat, NEW k \in 0 .. n, NEW mark, NEW file, Files(W, n, mark, file)
  PROVE  Files(W, k, mark, file)
<1>1. \A i \in 0 .. k : i \in 0 .. n
  OBVIOUS
<1>2. \A i \in 1 .. k : i \in 1 .. n
  OBVIOUS
<1>. QED BY <1>1, <1>2 DEF Files, Even, Kept

\* A new document at the end of a history: either it lies deeper than the
\* last and than the mark, or it writes the same file.
LEMMA GrownFiles ==
  ASSUME NEW W, NEW n \in Nat, NEW d, NEW mark, NEW file, Files(W, n, mark, file),
         NEW now, now = mark \/ now = Unreachable,
         \A i \in 0 .. n : ContentDepth(W[i].stack) \in Nat,
         Lined(d.tree),
         \/ /\ ContentDepth(d.stack) = ContentDepth(W[n].stack) + 1
            /\ now <= ContentDepth(W[n].stack) /\ now \in Int
         \/ /\ FileOf(d) = FileOf(W[n])
            /\ ContentDepth(d.stack) = ContentDepth(W[n].stack)
  PROVE  Files(Grown(W, n, d), n + 1, now, file)
<1>. DEFINE X == Grown(W, n, d)  z == n + 1
<1>1. X[z] = d /\ \A i \in 0 .. n : X[i] = W[i]
  BY GrownIs
<1>2. /\ \A i \in 0 .. z : i = z \/ i \in 0 .. n
      /\ \A i \in 1 .. z : (i = z /\ i - 1 = n) \/ (i \in 1 .. n /\ i - 1 \in 0 .. n /\ i \in 0 .. n)
      /\ n \in 0 .. n
  OBVIOUS
<1>. HIDE DEF X, z
<1>3. \A i \in 0 .. z : Lined(X[i].tree)
  BY <1>1, <1>2 DEF Files
<1>4. \A i \in 0 .. n : ContentDepth(W[i].stack) = now => FileOf(W[i]) = file
  BY DEF Files, Kept, Unreachable
<1>5. CASE /\ ContentDepth(d.stack) = ContentDepth(W[n].stack) + 1
           /\ now <= ContentDepth(W[n].stack) /\ now \in Int
  <2>1. ContentDepth(d.stack) # ContentDepth(W[n].stack) /\ ContentDepth(d.stack) # now
    <3>1. ContentDepth(W[n].stack) \in Nat
      BY <1>2
    <3>. QED BY <1>5, <3>1
  <2>2. Even(X, z)
    BY <1>1, <1>2, <2>1 DEF Files, Even
  <2>3. Kept(X, z, now, file)
    BY <1>1, <1>2, <1>4, <2>1 DEF Kept
  <2>. QED BY <1>3, <2>2, <2>3 DEF Files, X, z
<1>6. CASE /\ FileOf(d) = FileOf(W[n])
           /\ ContentDepth(d.stack) = ContentDepth(W[n].stack)
  <2>1. Even(X, z)
    BY <1>1, <1>2, <1>6 DEF Files, Even
  <2>2. Kept(X, z, now, file)
    BY <1>1, <1>2, <1>4, <1>6 DEF Kept
  <2>. QED BY <1>3, <2>1, <2>2 DEF Files, X, z
<1>. QED BY <1>5, <1>6

\* The files of the history the document stands on.
FilesNow(W) ==
  /\ Stands(W, Now, redo, fresh)
  /\ Files(W, Len(Timeline(undo, redo)), saved, disk)

\* Those of the history an abort would put back.
FilesFound ==
  bracket.open =>
    \E W : /\ Stands(W, Found, bracket.redo, bracket.fresh)
           /\ Files(W, Len(Timeline(bracket.undo, bracket.redo)), bracket.saved, disk)

HasFiles == \E W : FilesNow(W)

FileInv == HistoryInv /\ MarkInv /\ HasFiles /\ FilesFound

\* The depths along a history are counts.
LEMMA DepthsCount ==
  ASSUME NEW W, NEW s, NEW fr, Stands(W, s, <<>>, fr)
  PROVE  /\ Len(s.stack) \in Nat /\ W[Len(s.stack)] = s /\ Timeline(s.stack, <<>>) = s.stack
         /\ \A i \in 0 .. Len(s.stack) : ContentDepth(W[i].stack) \in Nat
<1>1. IsSeq(s.stack) /\ W[Len(s.stack)] = s /\ Len(s.stack) \in Nat
      /\ History(W, Timeline(s.stack, <<>>), fr)
  BY StandsFacts DEF Stands
<1>2. Timeline(s.stack, <<>>) = s.stack
  BY <1>1, TimelineOfUndo
<1>3. \A i \in 0 .. Len(s.stack) : IsSeq(W[i].stack)
  BY <1>1, <1>2 DEF History, Sound
<1>. QED BY <1>1, <1>2, <1>3, CountedFinite

\* What is written of the history so far.
LEMMA FilesSoFar ==
  ASSUME NEW W, FilesNow(W)
  PROVE  /\ Stands(W, Now, <<>>, fresh) /\ Len(undo) \in Nat /\ W[Len(undo)] = Now
         /\ Files(W, Len(undo), saved, disk)
<1>1. Now.stack = undo
  BY StateIs DEF Now
<1>2. Len(undo) \in 0 .. Len(Timeline(undo, redo)) /\ Len(Timeline(undo, redo)) \in Nat
  BY <1>1, StandsFacts DEF FilesNow, HasFiles
<1>3. Files(W, Len(undo), saved, disk)
  BY <1>2, CutFiles DEF FilesNow, HasFiles
<1>. QED BY <1>3, StandsAlone DEF FilesNow, HasFiles

\* The new entry of an edit of t, and the document it leaves.
LEMMA RecordedFiles ==
  ASSUME NEW X, NEW t, NEW step, Recorded(t, step), Suits(X, t, step), Tidy,
         step.op \in Bookkeeping => "session" \in Ops,
         \A i \in 0 .. Len(undo) : Lined(X[i].tree)
  PROVE  LET x == X[Len(undo)]
         IN  /\ Lined(Now'.tree) /\ x.stack = undo
             /\ \/ ContentDepth(undo') = ContentDepth(undo) + 1
                \/ ContentDepth(undo') = ContentDepth(undo) /\ FileOf(Now') = FileOf(x)
<1>. DEFINE s == State(t, sessions, undo)  fr == fresh \ Creates(step)  d == Apply(s, step)
            e == [Child(step) EXCEPT !.before = Look(tree, sessions, undo)]
<1>1. s.tree = t /\ s.frames = sessions /\ s.stack = undo
  BY StateIs
<1>2. Stands(X, s, <<>>, fr) /\ Fits(s, step) /\ May(s, step, fr)
  BY DEF Suits
<1>3. e.steps = <<step>> /\ e.compound = Child(step).compound
  BY EntryIs
<1>4. Now' = State(d.tree, d.frames, Append(s.stack, e)) /\ undo' = Append(undo, e)
  BY <1>1 DEF Recorded, Now
<1>. HIDE DEF s, fr, d, e
<1>5. Sound(s, fr) /\ IsSeq(undo) /\ X[Len(undo)] = s /\ Len(undo) \in Nat
  BY <1>1, <1>2, StandsFacts, SeqFacts DEF Stands
<1>6. Lined(s.tree)
  BY <1>5
<1>7. Now'.tree = d.tree
  BY <1>4, StateIs
<1>8. Lined(Now'.tree)
  <2>1. CASE "ungroup" \in Ops
    BY <2>1 DEF Lined
  <2>2. CASE "ungroup" \notin Ops
    <3>1. step.op # "ungroup"
      BY <1>2, <2>2 DEF May
    <3>2. d.tree.line = s.tree.line
      BY <1>2, <1>5, <3>1, LineStays DEF d
    <3>. QED BY <1>6, <1>7, <3>2 DEF Lined
  <2>. QED BY <2>1, <2>2
<1>9. CASE step.op \in Bookkeeping
  <2>1. IsBookkeeping(e)
    <3>1. step.op # "move" /\ step.op # "ungroup"
      BY <1>9 DEF Bookkeeping
    <3>2. ~Child(step).compound
      BY <3>1 DEF Child
    <3>3. e.steps[1] = step
      BY <1>3
    <3>. QED BY <1>3, <1>9, <3>2, <3>3 DEF IsBookkeeping
  <2>2. ContentDepth(undo') = ContentDepth(undo)
    BY <1>4, <1>5, <2>1, DepthGrows
  <2>3. Groups \subseteq Drawn /\ "ungroup" \notin Ops
    BY <1>9 DEF Tidy
  <2>4. FileOf(State(d.tree, d.frames, Append(s.stack, e))) = FileOf(s)
    BY <1>2, <1>3, <1>5, <1>6, <1>9, <2>3, BookkeepingWritesNothing DEF d
  <2>. QED BY <1>1, <1>4, <1>5, <1>8, <2>2, <2>4
<1>10. CASE step.op \notin Bookkeeping
  <2>1. ~IsBookkeeping(e)
    BY <1>3, <1>10 DEF IsBookkeeping
  <2>2. ContentDepth(undo') = ContentDepth(undo) + 1
    BY <1>4, <1>5, <2>1, DepthGrows
  <2>. QED BY <1>1, <1>5, <1>8, <2>2
<1>. QED BY <1>9, <1>10

\* The mark that a new entry on u leaves is not above u.
LEMMA EditMark ==
  ASSUME MarkInv, Edits
  PROVE  /\ saved' = saved \/ saved' = Unreachable
         /\ saved' <= ContentDepth(undo) /\ saved' \in Int
<1>1. PICK e : saved' = MarkAfter(Append(undo, e))
  BY EditStep
<1>2. /\ Entries(undo) /\ saved \in Int /\ MarkHolds(undo, redo, saved, marked)
  BY HomeAssumption DEF MarkInv, StackInv, StacksHold, Unreachable
<1>3. /\ MarkAfter(Append(undo, e)) = Unreachable \/
          (MarkAfter(Append(undo, e)) = saved /\ saved <= ContentDepth(undo))
      /\ MarkAfter(Append(undo, e)) <= ContentDepth(undo)
  BY <1>2, MarkStaysBelow
<1>. QED BY <1>1, <1>2, <1>3 DEF Unreachable

LEMMA TidyFolds ==
  ASSUME Tidy
  PROVE  Unreleased
BY DEF Tidy, Unreleased

LEMMA EditKeepsFiles ==
  ASSUME FileInv, Tidy, Edits
  PROVE  HasFiles' /\ FilesFound'
<1>. DEFINE n == Len(undo)
<1>1. PICK W : FilesNow(W)
  BY DEF FileInv, HasFiles
<1>2. Stands(W, Now, <<>>, fresh) /\ n \in Nat /\ Files(W, n, saved, disk)
  BY <1>1, FilesSoFar
<1>3. PICK t, step, X : /\ Recorded(t, step) /\ Suits(X, t, step) /\ SameFiles(W, X, n)
                        /\ step.op \in Bookkeeping => "session" \in Ops
  BY <1>2, TidyFolds, EditFits DEF FileInv, HistoryInv, HasFiles
<1>4. Files(X, n, saved, disk)
  BY <1>2, <1>3, SameFilesFiles
<1>5. \A i \in 0 .. n : Lined(X[i].tree)
  BY <1>4 DEF Files
<1>6. /\ Lined(Now'.tree) /\ X[n].stack = undo
      /\ \/ ContentDepth(undo') = ContentDepth(undo) + 1
         \/ ContentDepth(undo') = ContentDepth(undo) /\ FileOf(Now') = FileOf(X[n])
  BY <1>3, <1>5, RecordedFiles
<1>7. /\ saved' = saved \/ saved' = Unreachable
      /\ saved' <= ContentDepth(undo) /\ saved' \in Int
  BY EditMark DEF FileInv, HasFiles
<1>8. Stands(Grown(X, n, Now'), Now', <<>>, fresh') /\ redo' = <<>> /\ bracket' = bracket
  BY <1>3, RecordedStands DEF Recorded
<1>9. disk' = disk
  BY DEF Edits, Draw, Delete, Ungroup, OpenGroupSession, CloseGroupSession, Group, Record, RecordOn
<1>10. Now'.stack = undo'
  BY StateIs DEF Now
<1>11. \A i \in 0 .. n : ContentDepth(X[i].stack) \in Nat
  <2>1. Stands(X, State(t, sessions, undo), <<>>, fresh \ Creates(step))
    BY <1>3 DEF Suits
  <2>2. State(t, sessions, undo).stack = undo
    BY StateIs
  <2>. QED BY <2>1, <2>2, DepthsCount
<1>. HIDE DEF n
<1>12. Files(Grown(X, n, Now'), n + 1, saved', disk)
  BY <1>2, <1>4, <1>6, <1>7, <1>10, <1>11, GrownFiles
<1>13. Timeline(undo', redo') = undo' /\ Len(undo') = n + 1
  <2>1. Timeline(undo', <<>>) = undo'
    BY <1>8, <1>10, DepthsCount
  <2>2. IsSeq(undo)
    BY <1>2, StateIs DEF Stands, Now
  <2>3. \E e : undo' = Append(undo, e)
    BY <1>3 DEF Recorded
  <2>. QED BY <1>8, <2>1, <2>2, <2>3, AppendFacts DEF n
<1>14. HasFiles'
  BY <1>8, <1>9, <1>12, <1>13 DEF FilesNow, HasFiles
<1>15. FilesFound'
  <2>1. Found' = Found
    BY <1>8 DEF Found
  <2>. QED BY <1>8, <1>9, <2>1 DEF FileInv, FilesFound, HasFiles
<1>. QED BY <1>14, <1>15

\* Where no bracket is open there is nothing to put back.
LEMMA NothingFound ==
  ASSUME bracket' = Closed
  PROVE  FilesFound'
BY DEF FilesFound, Closed

\* Undo and redo move along the history they stand on.
LEMMA UndoKeepsFiles ==
  ASSUME FileInv, Undo
  PROVE  HasFiles' /\ FilesFound'
<1>1. PICK W : FilesNow(W)
  BY DEF FileInv, HasFiles
<1>2. undo # <<>> /\ undo' = Front(undo) /\ redo' = Append(redo, Last(undo))
      /\ bracket' = (IF bracket.open THEN [bracket EXCEPT !.undid = TRUE] ELSE bracket)
      /\ saved' = saved /\ disk' = disk
  BY UndoStep DEF Undo
<1>3. Stands(W, Now', redo', fresh')
  BY <1>1, UndoStandsNow DEF FilesNow, HasFiles
<1>4. Timeline(undo', redo') = Timeline(undo, redo)
  <2>1. IsSeq(undo) /\ IsSeq(redo)
    BY <1>1, StateIs DEF FilesNow, Stands, Now, HasFiles
  <2>. DEFINE p == Front(undo)  e == Last(undo)
  <2>2. undo = Append(p, e) /\ IsSeq(p) /\ undo' = p /\ redo' = Append(redo, e)
    BY <1>2, <2>1, FrontFacts
  <2>. HIDE DEF p, e
  <2>3. Timeline(Append(p, e), redo) = Timeline(p, Append(redo, e))
    BY <2>1, <2>2, TimelineMoves
  <2>. QED BY <2>2, <2>3
<1>5. HasFiles'
  BY <1>1, <1>2, <1>3, <1>4 DEF FilesNow, HasFiles
<1>6. FilesFound'
  <2>1. CASE bracket.open
    <3>. DEFINE b == [bracket EXCEPT !.undid = TRUE]
    <3>1. /\ bracket' = b
          /\ b.open = TRUE /\ b.tree = bracket.tree
          /\ b.sessions = bracket.sessions /\ b.undo = bracket.undo /\ b.redo = bracket.redo
          /\ b.fresh = bracket.fresh /\ b.saved = bracket.saved
      BY <1>2, <2>1, SnapshotFacts DEF FileInv, HistoryInv, StackInv, HasFiles
    <3>. HIDE DEF b
    <3>2. Found' = Found
      BY <3>1 DEF Found
    <3>. QED BY <1>2, <2>1, <3>1, <3>2 DEF FileInv, FilesFound, HasFiles
  <2>2. CASE ~bracket.open
    BY <1>2, <2>2 DEF FilesFound
  <2>. QED BY <2>1, <2>2
<1>. QED BY <1>5, <1>6

LEMMA RedoKeepsFiles ==
  ASSUME FileInv, Redo, RedoInBracket = FALSE
  PROVE  HasFiles' /\ FilesFound'
<1>1. PICK W : FilesNow(W)
  BY DEF FileInv, HasFiles
<1>2. redo # <<>> /\ undo' = Append(undo, Last(redo)) /\ redo' = Front(redo)
      /\ bracket' = bracket /\ bracket.open # TRUE
      /\ saved' = saved /\ disk' = disk
  BY RedoStep DEF Redo
<1>3. Stands(W, Now', redo', fresh')
  BY <1>1, RedoStandsNow DEF FilesNow, HasFiles
<1>4. Timeline(undo', redo') = Timeline(undo, redo)
  <2>1. IsSeq(undo) /\ IsSeq(redo)
    BY <1>1, StateIs DEF FilesNow, Stands, Now, HasFiles
  <2>. DEFINE r == Front(redo)  e == Last(redo)
  <2>2. redo = Append(r, e) /\ IsSeq(r) /\ redo' = r /\ undo' = Append(undo, e)
    BY <1>2, <2>1, FrontFacts
  <2>. HIDE DEF r, e
  <2>3. Timeline(Append(undo, e), r) = Timeline(undo, Append(r, e))
    BY <2>1, <2>2, TimelineMoves
  <2>. QED BY <2>2, <2>3
<1>5. HasFiles'
  BY <1>1, <1>2, <1>3, <1>4 DEF FilesNow, HasFiles
<1>6. ~bracket'.open
  BY <1>2, SnapshotFacts DEF FileInv, HistoryInv, StackInv, HasFiles
<1>. QED BY <1>5, <1>6 DEF FilesFound

\* A save marks every document of the history that is as deep.
LEMMA SaveKeepsFiles ==
  ASSUME FileInv, Save
  PROVE  HasFiles' /\ FilesFound'
<1>1. PICK W : FilesNow(W)
  BY DEF FileInv, HasFiles
<1>2. ~bracket.open /\ saved' = ContentDepth(undo) /\ disk' = SaveForPersistence
      /\ UNCHANGED <<tree, fresh, sessions, undo, redo, bracket>>
  BY DEF Save
<1>3. Now.tree = tree /\ Now.frames = sessions /\ Now.stack = undo
  BY StateIs DEF Now
<1>4. FileOf(Now) = SaveForPersistence
  BY <1>3 DEF FileOf, SaveForPersistence
<1>5. Files(W, Len(Timeline(undo, redo)), ContentDepth(undo), FileOf(Now))
  BY <1>1, <1>3, SavedFiles DEF FilesNow, HasFiles
<1>6. Now' = Now
  BY <1>2 DEF Now
<1>7. HasFiles'
  BY <1>1, <1>2, <1>4, <1>5, <1>6 DEF FilesNow, HasFiles
<1>. QED BY <1>2, <1>7 DEF FilesFound

\* A document without a history is the file it was written to.
LEMMA AloneFiles ==
  ASSUME NEW t, Lined(t)
  PROVE  LET s == State(t, <<>>, <<>>)
         IN  /\ Files(Alone(s), 0, 0, Written(t)) /\ Timeline(<<>>, <<>>) = <<>>
             /\ Len(<<>>) = 0 /\ \A x : SessionClosed(t, <<>>, x) = t
<1>. DEFINE s == State(t, <<>>, <<>>)  W == Alone(s)
<1>1. s.tree = t /\ s.frames = <<>> /\ s.stack = <<>>
  BY StateIs
<1>2. W[0] = s
  BY DEF Alone
<1>3. IsSeq(<<>>) /\ Len(<<>>) = 0
  BY EmptyFacts
<1>4. ASSUME NEW x
      PROVE  SessionClosed(t, <<>>, x) = t
  <2>1. PICK out : ClosedBy(t, <<>>, x, out)
    BY <1>3, ClosedIs
  <2>. QED BY <1>3, <2>1 DEF ClosedBy
<1>. HIDE DEF s, W
<1>5. FileOf(s) = Written(t)
  BY <1>1, <1>4 DEF FileOf
<1>6. \A i \in 0 .. 0 : W[i] = s
  BY <1>2
<1>7. Files(W, 0, 0, Written(t))
  <2>1. Even(W, 0)
    BY DEF Even
  <2>2. Kept(W, 0, 0, Written(t))
    BY <1>5, <1>6 DEF Kept
  <2>3. \A i \in 0 .. 0 : Lined(W[i].tree)
    BY <1>1, <1>6
  <2>. QED BY <2>1, <2>2, <2>3 DEF Files
<1>8. Timeline(<<>>, <<>>) = <<>>
  BY <1>3, TimelineOfUndo
<1>. QED BY <1>3, <1>4, <1>7, <1>8 DEF s, W

LEMMA ForgetKeepsFiles ==
  ASSUME FileInv, ForgetHistory
  PROVE  HasFiles' /\ FilesFound'
<1>1. /\ tree' = tree /\ fresh' = fresh /\ sessions = <<>> /\ sessions' = <<>> /\ undo' = <<>>
      /\ redo' = <<>> /\ saved' = 0 /\ disk' = SaveForPersistence
      /\ bracket' = bracket /\ ~bracket.open
  BY DEF ForgetHistory
<1>2. TreeOk(tree, fresh)
  BY StandsFacts, SoundParts DEF FileInv, HistoryInv, Now, HasFiles
<1>3. Now' = State(tree, <<>>, <<>>)
  BY <1>1 DEF Now
<1>4. Stands(Alone(Now'), Now', <<>>, fresh)
  BY <1>2, <1>3, AloneStands
<1>5. Lined(tree)
  <2>1. PICK W : FilesNow(W)
    BY DEF FileInv, HasFiles
  <2>2. W[Len(undo)] = Now /\ Files(W, Len(undo), saved, disk) /\ Len(undo) \in Nat
    BY <2>1, FilesSoFar
  <2>3. Lined(W[Len(undo)].tree)
    BY <2>2 DEF Files
  <2>. QED BY <2>2, <2>3, StateIs DEF Now
<1>6. /\ Files(Alone(Now'), 0, 0, Written(tree)) /\ Timeline(<<>>, <<>>) = <<>>
      /\ Len(<<>>) = 0 /\ SessionClosed(tree, <<>>, undo) = tree
  BY <1>3, <1>5, AloneFiles
<1>7. disk' = Written(tree)
  BY <1>1, <1>6 DEF SaveForPersistence
<1>8. HasFiles'
  BY <1>1, <1>4, <1>6, <1>7 DEF FilesNow, HasFiles
<1>. QED BY <1>1, <1>8 DEF FilesFound

\* A bracket keeps the files of what it found, and an abort puts them back.
LEMMA BeginKeepsFiles ==
  ASSUME FileInv, BeginTransaction
  PROVE  HasFiles' /\ FilesFound'
<1>1. /\ tree' = tree /\ fresh' = fresh /\ sessions' = sessions /\ undo' = undo
      /\ redo' = redo /\ saved' = saved /\ disk' = disk
      /\ bracket'.tree = tree /\ bracket'.fresh = fresh /\ bracket'.sessions = sessions
      /\ bracket'.undo = undo /\ bracket'.redo = redo /\ bracket'.saved = saved
  BY DEF BeginTransaction
<1>2. Now' = Now /\ Found' = Now
  BY <1>1 DEF Now, Found
<1>. QED BY <1>1, <1>2 DEF FileInv, FilesNow, FilesFound, HasFiles

LEMMA RestoreKeepsFiles ==
  ASSUME FileInv, bracket.open, Restore
  PROVE  HasFiles' /\ FilesFound'
<1>1. Now' = Found /\ undo' = bracket.undo /\ redo' = bracket.redo /\ fresh' = bracket.fresh
      /\ saved' = bracket.saved /\ disk' = disk /\ bracket' = Closed
  BY DEF Restore, Now, Found
<1>2. HasFiles'
  BY <1>1 DEF FileInv, FilesFound, FilesNow, HasFiles
<1>. QED BY <1>1, <1>2, NothingFound

LEMMA NothingKeepsFiles ==
  ASSUME FileInv, CommitNothing
  PROVE  HasFiles' /\ FilesFound'
<1>1. Now' = Now /\ undo' = undo /\ redo' = redo /\ fresh' = fresh /\ saved' = saved
      /\ disk' = disk /\ bracket' = Closed
  BY DEF Now, CommitNothing
<1>2. HasFiles'
  BY <1>1 DEF FileInv, FilesNow, HasFiles
<1>. QED BY <1>1, <1>2, NothingFound

LEMMA StillKeepsFiles ==
  ASSUME FileInv, UNCHANGED <<tree, fresh, sessions, undo, redo, saved, bracket, disk>>
  PROVE  HasFiles' /\ FilesFound'
<1>1. Now' = Now /\ Found' = Found
  BY DEF Now, Found
<1>. QED BY <1>1 DEF FileInv, FilesNow, FilesFound, HasFiles

\* The one entry a commit leaves lies deeper than the mark.
LEMMA CommitKeepsFiles ==
  ASSUME FileInv, CommitTransaction
  PROVE  HasFiles' /\ FilesFound'
<1>. DEFINE k == Len(bracket.undo)
<1>1. PICK W : FilesNow(W)
  BY DEF FileInv, HasFiles
<1>2. Stands(W, Now, <<>>, fresh) /\ Len(undo) \in Nat /\ Files(W, Len(undo), saved, disk)
      /\ W[Len(undo)] = Now
  BY <1>1, FilesSoFar
<1>3. PICK e : Collapsed(W, e)
  BY <1>2, CommitLinks DEF FileInv, HasFiles
<1>4. /\ Stands(Grown(W, k, Now'), Now', redo', fresh')
      /\ W[k].stack = bracket.undo /\ undo' = Append(bracket.undo, e)
  BY <1>2, <1>3, CommitStands DEF Collapsed, FileInv, HasFiles
<1>5. /\ bracket.open /\ Entries(bracket.undo) /\ k \in Nat /\ k < Len(undo)
      /\ IsSeq(bracket.undo) /\ saved \in Int /\ bracket.pushes.redo = pushes.redo
      /\ saved' = MarkAfter(undo')
  <2>1. saved' = MarkAfter(undo') /\ bracket.pushes.redo = pushes.redo
    BY DEF CommitTransaction, Disturbed
  <2>. QED BY <2>1, HomeAssumption, SeqFacts
       DEF CommitTransaction, FileInv, MarkInv, StackInv, StacksHold, SnapshotHolds, Entries, Unreachable, HasFiles
<1>6. redo = <<>> /\ saved <= ContentDepth(bracket.undo)
  BY <1>5 DEF FileInv, MarkInv, BracketMarked, HasFiles
<1>7. saved' = saved
  BY <1>5, <1>6 DEF MarkAfter
<1>8. /\ tree' = tree /\ redo' = <<>> /\ bracket' = Closed /\ disk' = disk
  BY DEF CommitTransaction
<1>9. ~IsBookkeeping(e)
  BY <1>3 DEF Collapsed, IsBookkeeping
<1>10. ContentDepth(undo') = ContentDepth(bracket.undo) + 1 /\ Len(undo') = k + 1
  BY <1>4, <1>5, <1>9, DepthGrows, AppendFacts
<1>11. Now'.stack = undo' /\ Now'.tree = tree
  BY <1>8, StateIs DEF Now
<1>12. Lined(tree)
  <2>1. Lined(W[Len(undo)].tree)
    BY <1>2 DEF Files
  <2>. QED BY <1>2, <2>1, StateIs DEF Now
<1>13. \A i \in 0 .. k : ContentDepth(W[i].stack) \in Nat
  <2>1. \A i \in 0 .. k : i \in 0 .. Len(undo)
    BY <1>2, <1>5
  <2>2. Now.stack = undo
    BY StateIs DEF Now
  <2>. QED BY <1>2, <2>1, <2>2, DepthsCount
<1>14. Files(W, k, saved, disk)
  <2>1. k \in 0 .. Len(undo)
    BY <1>2, <1>5
  <2>. QED BY <1>2, <2>1, CutFiles
<1>. HIDE DEF k
<1>15. Files(Grown(W, k, Now'), k + 1, saved', disk)
  BY <1>4, <1>5, <1>6, <1>7, <1>10, <1>11, <1>12, <1>13, <1>14, GrownFiles
<1>16. Timeline(undo', redo') = undo'
  BY <1>4, <1>8, <1>11, DepthsCount
<1>17. HasFiles'
  BY <1>4, <1>8, <1>10, <1>15, <1>16 DEF FilesNow, HasFiles
<1>. QED BY <1>8, <1>17, NothingFound

LEMMA FileInit == ASSUME Init PROVE FileInv
<1>1. HistoryInv /\ MarkInv /\ TreeOk(tree, fresh)
  BY HistoryInit, MarkInit, HomeIsTree
<1>2. sessions = <<>> /\ undo = <<>> /\ redo = <<>> /\ ~bracket.open /\ saved = 0
      /\ disk = SaveForPersistence /\ tree.line = [h \in Drawn |-> h]
  BY DEF Init, Closed
<1>3. Now = State(tree, <<>>, <<>>) /\ Lined(tree)
  BY <1>2 DEF Now, Lined
<1>4. Stands(Alone(Now), Now, <<>>, fresh)
  BY <1>1, <1>3, AloneStands
<1>5. /\ Files(Alone(Now), 0, 0, Written(tree)) /\ Timeline(<<>>, <<>>) = <<>>
      /\ Len(<<>>) = 0 /\ SessionClosed(tree, <<>>, undo) = tree
  BY <1>3, AloneFiles
<1>6. disk = Written(tree)
  BY <1>2, <1>5 DEF SaveForPersistence
<1>7. FilesNow(Alone(Now))
  BY <1>2, <1>4, <1>5, <1>6 DEF FilesNow, HasFiles
<1>. QED BY <1>1, <1>2, <1>7 DEF FileInv, FilesFound, HasFiles

LEMMA FileNext ==
  ASSUME FileInv, [Next]_vars, RedoInBracket = FALSE, "reparent" \notin Ops, Tidy
  PROVE  FileInv'
<1>1. HistoryInv' /\ MarkInv'
  BY HistoryNext, MarkNext, TidyFolds DEF FileInv, HasFiles
<1>2. HasFiles' /\ FilesFound'
  <2>1. CASE Edits
    BY <2>1, EditKeepsFiles
  <2>2. CASE Moves
    BY <2>2, MoveStep
  <2>3. CASE Undo
    BY <2>3, UndoKeepsFiles
  <2>4. CASE Redo
    BY <2>4, RedoKeepsFiles
  <2>5. CASE Save
    BY <2>5, SaveKeepsFiles
  <2>6. CASE ForgetHistory
    BY <2>6, ForgetKeepsFiles
  <2>7. CASE BeginTransaction
    BY <2>7, BeginKeepsFiles
  <2>8. CASE bracket.open /\ Restore
    BY <2>8, RestoreKeepsFiles
  <2>9. CASE CommitNothing
    BY <2>9, NothingKeepsFiles
  <2>10. CASE CommitTransaction
    BY <2>10, CommitKeepsFiles
  <2>11. CASE UndoRefused \/ UNCHANGED vars
    <3>1. UNCHANGED <<tree, fresh, sessions, undo, redo, saved, bracket, disk>>
      BY <2>11 DEF UndoRefused, vars
    <3>. QED BY <3>1, StillKeepsFiles
  <2>. QED BY <2>1, <2>2, <2>3, <2>4, <2>5, <2>6, <2>7, <2>8, <2>9, <2>10, <2>11, NextCases
<1>. QED BY <1>1, <1>2 DEF FileInv, HasFiles

\* The document stands where the history says it does.
LEMMA SavedHolds == ASSUME FileInv PROVE SavedMarkIsTrue
<1>1. PICK W : FilesNow(W)
  BY DEF FileInv, HasFiles
<1>2. Len(undo) \in Nat /\ W[Len(undo)] = Now /\ Files(W, Len(undo), saved, disk)
  BY <1>1, FilesSoFar
<1>3. Now.tree = tree /\ Now.frames = sessions /\ Now.stack = undo
  BY StateIs DEF Now
<1>4. ContentDepth(undo) = saved => FileOf(Now) = disk
  BY <1>2, <1>3 DEF Files, Kept
<1>. QED BY <1>3, <1>4 DEF SavedMarkIsTrue, AtSavedMark, FileOf, SaveForPersistence

\* A document that reads clean (at_saved_mark) is the document on disk, for
\* every tree and any depth of undo, redo, sessions and brackets: the files
\* written along the history it stands on change only with the content depth,
\* and where the depth is the mark's they are the one saved.  It needs the
\* mark to be of this branch, so no reparent, and it needs that entering and
\* leaving a group writes nothing: a group without a drawing of its own, or
\* whose drawing an ungroup took, can be left empty and is then erased.
THEOREM CleanMeansSaved ==
  ASSUME RedoInBracket = FALSE, "reparent" \notin Ops,
         "session" \notin Ops \/ (Groups \subseteq Drawn /\ "ungroup" \notin Ops)
  PROVE  Spec => []SavedMarkIsTrue
<1>1. Init => FileInv
  BY FileInit
<1>2. FileInv /\ [Next]_vars => FileInv'
  BY FileNext DEF Tidy
<1>3. FileInv => SavedMarkIsTrue
  BY SavedHolds
<1>. QED BY <1>1, <1>2, <1>3, PTL DEF Spec

-----------------------------------------------------------------------------
(* What a close leaves at the top level.                                  *)

\* A step that puts a close on the stack leaves the innermost session.
LEMMA CloseLeaves ==
  ASSUME HistoryInv, [Next]_vars, RedoInBracket = FALSE, Unreleased, Grows("close")
  PROVE  sessions # <<>> /\ tree' = Exit(tree, Last(sessions), undo)
<1>1. PICK W : Stands(W, Now, redo, fresh)
  BY DEF HistoryInv
<1>2. Now.tree = tree /\ Now.frames = sessions /\ Now.stack = undo
  BY StateIs DEF Now
<1>3. Stands(W, Now, <<>>, fresh) /\ IsSeq(undo) /\ Len(undo) \in Nat
  BY <1>1, <1>2, StandsAlone DEF Stands
<1>4. undo' # <<>> /\ Front(undo') = undo /\ bracket' = bracket /\ ~Last(undo').compound
      /\ Last(undo').steps[1].op = "close"
  BY DEF Grows
<1>5. ASSUME IsSeq(undo')
      PROVE  Len(undo') = Len(undo) + 1
  <2>1. Len(Front(undo')) = Len(undo') - 1 /\ Len(undo') \in Nat
    BY <1>4, <1>5, FrontFacts, SeqFacts
  <2>. QED BY <1>3, <1>4, <2>1
<1>6. undo' # undo
  BY <1>3, <1>5
<1>7. CASE Edits \/ Moves
  <2>1. PICK t, step, X : /\ Recorded(t, step) /\ Suits(X, t, step)
                          /\ (step.op = "close" => CloseGroupSession)
    BY <1>3, <1>7, EditFits DEF HistoryInv
  <2>. DEFINE e == [Child(step) EXCEPT !.before = Look(tree, sessions, undo)]
  <2>2. undo' = Append(undo, e)
    BY <2>1 DEF Recorded
  <2>3. e.steps = <<step>>
    BY EntryIs
  <2>. HIDE DEF e
  <2>4. Last(undo') = e
    BY <1>3, <2>2, AppendFacts
  <2>5. step.op = "close"
    BY <1>4, <2>3, <2>4
  <2>6. CloseGroupSession
    BY <2>1, <2>5
  <2>. DEFINE f == Last(sessions)
              back == [op |-> "close", node |-> f.group, bound |-> f.bound,
                       prev |-> tree.members[f.group],
                       members |-> Folded(tree, f, undo), outside |-> f.outside]
  <2>7. sessions # <<>> /\ RecordOn(tree, back)
    BY <2>6 DEF CloseGroupSession, Record
  <2>8. back.op = "close"
    OBVIOUS
  <2>. HIDE DEF back
  <2>9. tree' = Apply(Now, back).tree
    <3>1. Recorded(tree, back)
      BY <2>7, RecordIs DEF HistoryInv
    <3>. QED BY <3>1 DEF Recorded, Now
  <2>10. Apply(Now, back).tree = Exit(tree, f, undo)
    BY <1>2, <2>8, ApplyIs, StateIs
  <2>. QED BY <2>7, <2>9, <2>10
<1>8. CASE Redo
  <2>. DEFINE e == Last(redo)
  <2>1. Link(Now, e, Now', fresh)
    BY <1>1, <1>8, RedoStandsNow
  <2>2. Now'.stack = undo' /\ Now'.tree = tree'
    BY StateIs DEF Now
  <2>3. undo' = Append(undo, e)
    BY <1>2, <2>1, <2>2, LinkEnds
  <2>. HIDE DEF e
  <2>4. Last(undo') = e
    BY <1>3, <2>3, AppendFacts
  <2>5. PICK step : e.steps = <<step>>
    BY <1>4, <2>1, <2>4 DEF Link, Single
  <2>6. step.op = "close"
    BY <1>4, <2>4, <2>5
  <2>7. Fits(Now, step) /\ tree' = Apply(Now, step).tree
    BY <2>1, <2>2, <2>5, SingleTook
  <2>8. sessions # <<>>
    BY <1>2, <2>6, <2>7 DEF Fits, FitsClose
  <2>9. Apply(Now, step).tree = Exit(tree, Last(sessions), undo)
    BY <1>2, <2>6, ApplyIs, StateIs
  <2>. QED BY <2>7, <2>8, <2>9
<1>9. CASE Undo
  <2>1. Link(Now', Last(undo), Now, fresh)
    BY <1>1, <1>9, UndoStandsNow
  <2>2. Now'.stack = undo'
    BY StateIs DEF Now
  <2>3. undo = Append(undo', Last(undo)) /\ IsSeq(undo')
    BY <1>2, <2>1, <2>2, LinkEnds DEF Sound
  <2>4. Len(undo) = Len(undo') + 1 /\ Len(undo') \in Nat
    BY <2>3, AppendFacts, SeqFacts
  <2>. QED BY <1>3, <1>5, <2>3, <2>4
<1>10. CASE (bracket.open /\ Restore) \/ CommitTransaction
  <2>1. bracket' = Closed /\ bracket.open
    BY <1>10 DEF Restore, CommitTransaction
  <2>. QED BY <1>4, <2>1 DEF Closed
<1>11. CASE BeginTransaction \/ CommitNothing \/ Save \/ UndoRefused \/ UNCHANGED vars
  BY <1>6, <1>11 DEF BeginTransaction, CommitNothing, Save, UndoRefused, vars
<1>12. CASE ForgetHistory
  BY <1>4, <1>12 DEF ForgetHistory
<1>. QED BY <1>7, <1>8, <1>9, <1>10, <1>11, <1>12, NextCases

\* What such a step leaves at the top level.
LEMMA CloseKeepsOwn ==
  ASSUME HistoryInv, [Next]_vars, RedoInBracket = FALSE, UngroupsSeen, Grows("close")
  PROVE  LET f == Last(sessions)
         IN  TopLevel(tree') \ {f.group} = TopLevel(tree) \cap f.outside
<1>1. PICK W : Stands(W, Now, redo, fresh)
  BY DEF HistoryInv
<1>2. Now.tree = tree /\ Now.frames = sessions /\ Now.stack = undo
  BY StateIs DEF Now
<1>3. Sound(Now, fresh) /\ Apart(Now)
  BY <1>1, StandsFacts, StandsScoped DEF Scoped
<1>4. sessions # <<>> /\ tree' = Exit(tree, Last(sessions), undo)
  BY CloseLeaves DEF Unreleased, UngroupsSeen
<1>. QED BY <1>2, <1>3, <1>4, CloseShows

\* Closing a session (exit_group_session, close_group_session, and the redo of
\* a close) leaves at the top level what was there when it opened and is still
\* shown, and the group: nothing drawn, grouped or freed in it leaks out,
\* and nothing from outside is swept in, for every tree and any depth of
\* sessions, undo, redo and brackets.  nodes_surfaced_since sees an ungroup
\* only as an entry of its own, and not the drawing it releases: an instance
\* with ungroups has neither drawings nor brackets.
THEOREM SessionsKeepTheirOwn ==
  ASSUME RedoInBracket = FALSE, "ungroup" \notin Ops \/ (Drawn = {} /\ "bracket" \notin Ops)
  PROVE  Spec => SessionKeepsItsOwn
<1>1. Init => HistoryInv
  BY HistoryInit
<1>2. HistoryInv /\ [Next]_vars => HistoryInv'
  BY HistoryNext DEF Unreleased
<1>3. HistoryInv /\ [Next]_vars
        => [Grows("close")
              => LET f == Last(sessions)
                 IN  TopLevel(tree') \ {f.group} = TopLevel(tree) \cap f.outside]_vars
  BY CloseKeepsOwn DEF UngroupsSeen
<1>. QED BY <1>1, <1>2, <1>3, PTL DEF Spec, SessionKeepsItsOwn

=============================================================================
