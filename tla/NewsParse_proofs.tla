--------------------------- MODULE NewsParse_proofs ---------------------------
(***************************************************************************)
(* Proofs about NewsParse for documents of any size, whatever their texts  *)
(* and however they are cut into pieces: what is in the items, and when    *)
(* the completion handler is called.                                       *)
(***************************************************************************)
EXTENDS NewsParse, SeqLemmas

Chars == Words \cup {Blank}

-----------------------------------------------------------------------------
(* The words of a text *)

\* What the recursion of WordsOf makes of the words of the first characters.
Body(g, s, i) == IF i = 0 THEN <<>>
                 ELSE IF s[i] = Blank THEN g[i - 1]
                 ELSE Append(g[i - 1], s[i])

\* g has the words of the first n characters of s, and of all fewer ones.
Solves(g, s, n) == /\ g \in [0 .. n -> Seq(Chars)]
                   /\ \A i \in 0 .. n : g[i] = Body(g, s, i)

LEMMA WordsExtend ==
  ASSUME NEW s \in Text, NEW m \in 1 .. Len(s), NEW g, Solves(g, s, m - 1)
  PROVE  \E h : Solves(h, s, m)
<1> DEFINE last == Body(g, s, m)
           h == [i \in 0 .. m |-> IF i = m THEN last ELSE g[i]]
<1>1. Len(s) \in Nat /\ s[m] \in Chars /\ m \in Nat /\ m # 0
  BY SeqLen DEF Text, Chars
<1>2. g[m - 1] \in Seq(Chars)
  BY <1>1 DEF Solves
<1>3. last \in Seq(Chars)
  BY <1>1, <1>2 DEF Body
<1>4. \A i \in 0 .. m - 1 : g[i] \in Seq(Chars) /\ g[i] = Body(g, s, i)
  BY DEF Solves
<1> HIDE DEF last
<1>5. h \in [0 .. m -> Seq(Chars)]
  BY <1>1, <1>3, <1>4
<1>6. ASSUME NEW i \in 0 .. m PROVE h[i] = Body(h, s, i)
  <2>1. CASE i = m
    <3>1. h[m] = last /\ h[m - 1] = g[m - 1]
      BY <1>1
    <3> HIDE DEF h
    <3> QED  BY <1>1, <2>1, <3>1 DEF last, Body
  <2>2. CASE i # m /\ i # 0
    <3>1. h[i] = g[i] /\ h[i - 1] = g[i - 1] /\ g[i] = Body(g, s, i)
      BY <1>1, <1>4, <2>2
    <3> HIDE DEF h
    <3> QED  BY <2>2, <3>1 DEF Body
  <2>3. CASE i = 0
    <3>1. h[0] = g[0] /\ g[0] = Body(g, s, 0)
      BY <1>1, <1>4
    <3> HIDE DEF h
    <3> QED  BY <2>3, <3>1 DEF Body
  <2> QED  BY <2>1, <2>2, <2>3
<1> QED  BY <1>5, <1>6 DEF Solves

\* The recursion has a solution.
LEMMA WordsSolution ==
  ASSUME NEW s \in Text
  PROVE  \E g : Solves(g, s, Len(s)) /\ WordsOf(s) = g[Len(s)]
<1> DEFINE T == {n \in 0 .. Len(s) : \E g : Solves(g, s, n)}
           Rec(w) == w = [i \in 0 .. Len(s) |->
                            IF i = 0 THEN <<>>
                            ELSE IF s[i] = Blank THEN w[i - 1]
                            ELSE Append(w[i - 1], s[i])]
           words == CHOOSE w : Rec(w)
<1>1. Len(s) \in Nat
  BY SeqLen DEF Text
<1>2. 0 .. Len(s) \subseteq T
  <2>1. Solves([i \in 0 .. 0 |-> <<>>], s, 0)
    BY DEF Solves, Body
  <2>2. 0 \in T
    BY <1>1, <2>1
  <2>3. \A m \in 1 .. Len(s) : m - 1 \in T => m \in T
    BY <1>1, WordsExtend
  <2> HIDE DEF T
  <2> QED  BY <1>1, <2>2, <2>3, UpTo
<1>3. PICK g : Solves(g, s, Len(s))
  BY <1>1, <1>2
<1>4. WordsOf(s) = words[Len(s)]
  BY DEF WordsOf
<1>5. Rec(g)
  BY <1>3 DEF Solves, Body
<1>6. Rec(words)
  BY <1>5
<1> HIDE DEF words
<1>7. 0 .. Len(s) \subseteq {i \in 0 .. Len(s) : words[i] = g[i]}
  <2> DEFINE S == {i \in 0 .. Len(s) : words[i] = g[i]}
  <2>1. 0 \in S
    BY <1>1, <1>5, <1>6
  <2>2. ASSUME NEW i \in 1 .. Len(s), i - 1 \in S PROVE i \in S
    <3>1. i \in 0 .. Len(s) /\ i # 0 /\ words[i - 1] = g[i - 1]
      BY <1>1, <2>2
    <3> QED  BY <1>5, <1>6, <3>1
  <2> HIDE DEF S
  <2>3. 0 .. Len(s) \subseteq S
    BY <1>1, <2>1, <2>2, UpTo
  <2> QED  BY <2>3 DEF S
<1> QED  BY <1>1, <1>3, <1>4, <1>7

LEMMA WordsType == ASSUME NEW s \in Text PROVE WordsOf(s) \in Seq(Chars)
<1>1. Len(s) \in Nat
  BY SeqLen DEF Text
<1> QED  BY <1>1, WordsSolution DEF Solves

LEMMA WordsOfNone == WordsOf(<<>>) = <<>>
<1>1. <<>> \in Text /\ Len(<<>>) = 0
  BY EmptySeq DEF Text
<1> QED  BY <1>1, WordsSolution DEF Solves, Body

\* Appending is the same before and after what comes first.
LEMMA AppendConcat ==
  ASSUME NEW s \in Seq(Chars), NEW t \in Seq(Chars), NEW e \in Chars
  PROVE  Append(s \o t, e) = s \o Append(t, e)
<1>1. /\ Append(s \o t, e) = (s \o t) \o <<e>> /\ Append(t, e) = t \o <<e>>
      /\ <<e>> \in Seq(Chars)
  BY AppendIsConcat, ConcatProperties
<1> QED  BY <1>1, ConcatAssociative

\* Text by text.
LEMMA WordsConcat ==
  ASSUME NEW s \in Text, NEW t \in Text
  PROVE  s \o t \in Text /\ WordsOf(s \o t) = WordsOf(s) \o WordsOf(t)
<1> DEFINE st == s \o t
           a  == Len(s)
           b  == Len(t)
<1>1. a \in Nat /\ b \in Nat
  BY SeqLen DEF Text
<1>2. /\ st \in Text /\ Len(st) = a + b
      /\ \A i \in 1 .. a : st[i] = s[i]
      /\ \A i \in 1 .. b : st[a + i] = t[i]
  <2>1. /\ st \in Text /\ Len(st) = a + b
        /\ \A i \in 1 .. a + b : st[i] = IF i <= a THEN s[i] ELSE t[i - a]
    BY ConcatProperties, ZenonT(30) DEF Text
  <2> HIDE DEF st
  <2> QED  BY <1>1, <2>1
<1>3. PICK f : Solves(f, s, a) /\ WordsOf(s) = f[a]
  BY WordsSolution
<1>4. PICK g : Solves(g, t, b) /\ WordsOf(t) = g[b]
  BY WordsSolution
<1>5. PICK h : Solves(h, st, a + b) /\ WordsOf(st) = h[a + b]
  BY <1>2, WordsSolution
<1> HIDE DEF st, a, b
<1> DEFINE S == {i \in 0 .. a : h[i] = f[i]}
           T == {i \in 0 .. b : h[a + i] = f[a] \o g[i]}
<1>6. 0 .. a \subseteq S
  <2>1. 0 \in S
    BY <1>1, <1>3, <1>5 DEF Solves, Body
  <2>2. ASSUME NEW i \in 1 .. a, i - 1 \in S PROVE i \in S
    <3>1. i \in 0 .. a /\ i \in 0 .. a + b /\ i # 0 /\ h[i - 1] = f[i - 1] /\ st[i] = s[i]
      BY <1>1, <1>2, <2>2
    <3> QED  BY <1>3, <1>5, <3>1 DEF Solves, Body
  <2> HIDE DEF S
  <2> QED  BY <1>1, <2>1, <2>2, UpTo
<1>7. f[a] \in Seq(Chars) /\ h[a] = f[a]
  BY <1>1, <1>3, <1>6 DEF Solves
<1>8. \A i \in 1 .. b : t[i] \in Chars
  BY DEF b, Text, Chars
<1>9. \A i \in 0 .. b : g[i] \in Seq(Chars) /\ g[i] = Body(g, t, i)
  BY <1>4 DEF Solves
<1>10. \A i \in 0 .. a + b : h[i] = Body(h, st, i)
  BY <1>5 DEF Solves
<1>11. 0 .. b \subseteq T
  <2> HIDE DEF T
  <2>1. 0 \in T
    <3>1. g[0] = <<>>
      BY <1>1, <1>9 DEF Body
    <3>2. f[a] \o <<>> = f[a]
      BY <1>7, ConcatEmptySeq
    <3>3. h[a + 0] = f[a] \o g[0] /\ 0 \in 0 .. b
      BY <1>1, <1>7, <3>1, <3>2
    <3> QED  BY <3>3 DEF T
  <2>2. ASSUME NEW i \in 1 .. b, i - 1 \in T PROVE i \in T
    <3>1. /\ i \in 0 .. b /\ a + i \in 0 .. a + b /\ a + i # 0 /\ i # 0
          /\ (a + i) - 1 = a + (i - 1) /\ i - 1 \in 0 .. b
      BY <1>1
    <3>2. st[a + i] = t[i] /\ t[i] \in Chars
      BY <1>2, <1>8
    <3>3. h[a + (i - 1)] = f[a] \o g[i - 1]
      BY <2>2 DEF T
    <3>4. g[i - 1] \in Seq(Chars)
      BY <1>9, <3>1
    <3>5. h[a + i] = IF t[i] = Blank THEN h[a + (i - 1)] ELSE Append(h[a + (i - 1)], t[i])
      <4>1. h[a + i] = Body(h, st, a + i)
        BY <1>10, <3>1
      <4>2. Body(h, st, a + i) = IF st[a + i] = Blank THEN h[(a + i) - 1]
                                 ELSE Append(h[(a + i) - 1], st[a + i])
        BY <3>1 DEF Body
      <4> QED  BY <3>1, <3>2, <4>1, <4>2
    <3>6. g[i] = IF t[i] = Blank THEN g[i - 1] ELSE Append(g[i - 1], t[i])
      BY <1>9, <3>1 DEF Body
    <3>7. Append(f[a] \o g[i - 1], t[i]) = f[a] \o Append(g[i - 1], t[i])
      BY <1>7, <3>2, <3>4, AppendConcat
    <3>8. h[a + i] = f[a] \o g[i]
      BY <3>3, <3>5, <3>6, <3>7
    <3> QED  BY <3>1, <3>8 DEF T
  <2> QED  BY <1>1, <2>1, <2>2, UpTo
<1>12. h[a + b] = f[a] \o g[b]
  <2>1. b \in T
    <3> HIDE DEF T
    <3> QED  BY <1>1, <1>11
  <2> QED  BY <2>1
<1>13. WordsOf(st) = WordsOf(s) \o WordsOf(t)
  BY <1>3, <1>4, <1>5, <1>12
<1> QED  BY <1>2, <1>13 DEF st

LEMMA WordsOfBlanks ==
  ASSUME NEW s \in Text, Solid(s) = {}
  PROVE  WordsOf(s) = <<>>
<1>1. Len(s) \in Nat /\ \A i \in 1 .. Len(s) : s[i] = Blank
  BY SeqLen DEF Text, Solid
<1>2. PICK g : Solves(g, s, Len(s)) /\ WordsOf(s) = g[Len(s)]
  BY WordsSolution
<1> DEFINE T == {i \in 0 .. Len(s) : g[i] = <<>>}
<1>3. 0 \in T
  BY <1>1, <1>2 DEF Solves, Body
<1>4. ASSUME NEW i \in 1 .. Len(s), i - 1 \in T PROVE i \in T
  BY <1>1, <1>2, <1>4 DEF Solves, Body
<1>5. 0 .. Len(s) \subseteq T
  <2> HIDE DEF T
  <2> QED  BY <1>1, <1>3, <1>4, UpTo
<1> QED  BY <1>1, <1>2, <1>5

-----------------------------------------------------------------------------
(* Trimming *)

\* The trimmed text runs from the first solid character to the last one.
LEMMA TrimIs ==
  ASSUME NEW s \in Text, NEW i \in Solid(s), NEW j \in Solid(s),
         \A k \in Solid(s) : i <= k /\ k <= j
  PROVE  Trim(s) = SubSeq(s, i, j)
<1> DEFINE T == Solid(s)
<1>1. T \subseteq Nat
  <2>1. Len(s) \in Nat /\ DOMAIN s = 1 .. Len(s)
    BY SeqLen DEF Text
  <2> QED  BY <2>1 DEF Solid
<1>2. i \in T /\ j \in T /\ \A k \in T : i <= k /\ k <= j
  OBVIOUS
<1>3. Trim(s) = SubSeq(s, Min(T), Max(T))
  BY DEF Trim
<1> HIDE DEF T
<1>4. ASSUME NEW m \in T, \A k \in T : m <= k PROVE m = i
  BY <1>1, <1>2, <1>4
<1>5. ASSUME NEW m \in T, \A k \in T : m >= k PROVE m = j
  BY <1>1, <1>2, <1>5
<1>6. Min(T) = i
  <2>1. Min(T) \in T /\ \A k \in T : Min(T) <= k
    BY <1>2, Zenon DEF Min
  <2> QED  BY <1>4, <2>1
<1>7. Max(T) = j
  <2>1. \A k \in T : j >= k
    BY <1>1, <1>2
  <2>2. Max(T) \in T /\ \A k \in T : Max(T) >= k
    BY <1>2, <2>1, Zenon DEF Max
  <2> QED  BY <1>5, <2>2
<1> QED  BY <1>3, <1>6, <1>7

LEMMA TrimEnds ==
  ASSUME NEW s \in Text, Solid(s) # {}
  PROVE  \E i, j \in Solid(s) :
            /\ \A k \in Solid(s) : i <= k /\ k <= j
            /\ Trim(s) = SubSeq(s, i, j)
<1> DEFINE T == Solid(s)
<1>1. Len(s) \in Nat /\ T \in SUBSET Nat /\ T \in SUBSET (0 .. Len(s)) /\ T # {}
  <2>1. Len(s) \in Nat /\ DOMAIN s = 1 .. Len(s)
    BY SeqLen DEF Text
  <2> QED  BY <2>1 DEF Solid
<1> HIDE DEF T
<1>2. PICK i \in T : \A k \in T : i <= k
  BY <1>1, LeastNat
<1>3. PICK j \in T : \A k \in T : k <= j
  BY <1>1, GreatestNat
<1>4. Trim(s) = SubSeq(s, i, j)
  BY <1>2, <1>3, TrimIs DEF T
<1> QED  BY <1>2, <1>3, <1>4 DEF T

\* A text around one of its parts.
LEMMA Around ==
  ASSUME NEW s \in Text, NEW i \in 1 .. Len(s), NEW j \in i .. Len(s)
  PROVE  /\ SubSeq(s, 1, i - 1) \in Text
         /\ SubSeq(s, i, j) \in Text
         /\ SubSeq(s, j + 1, Len(s)) \in Text
         /\ s = (SubSeq(s, 1, i - 1) \o SubSeq(s, i, j)) \o SubSeq(s, j + 1, Len(s))
<1>1. /\ s \in Seq(Chars) /\ Len(s) \in Nat /\ i \in Nat /\ j \in Nat
      /\ 1 <= i /\ i <= j /\ j <= Len(s) /\ \A k \in 1 .. Len(s) : s[k] \in Chars
  BY SeqLen DEF Text, Chars
<1>2. SubSeq(s, 1, i - 1) \in Seq(Chars)
  BY <1>1, SubSeqProperties
<1>3. SubSeq(s, i, j) \in Seq(Chars)
  BY <1>1, SubSeqProperties
<1>4. SubSeq(s, j + 1, Len(s)) \in Seq(Chars)
  BY <1>1, SubSeqProperties
<1>5. SubSeq(s, 1, i - 1) \o SubSeq(s, i, j) = SubSeq(s, 1, j)
  BY <1>1, ConcatAdjacentSubSeq
<1>6. SubSeq(s, 1, j) \o SubSeq(s, j + 1, Len(s)) = SubSeq(s, 1, Len(s))
  <2>1. 1 \in 1 .. Len(s) + 1 /\ j \in 1 - 1 .. Len(s) /\ Len(s) \in j .. Len(s)
    BY <1>1
  <2> QED  BY <1>1, <2>1, ConcatAdjacentSubSeq
<1>7. SubSeq(s, 1, Len(s)) = s
  BY <1>1, SubSeqFull
<1> QED  BY <1>2, <1>3, <1>4, <1>5, <1>6, <1>7 DEF Text, Chars

LEMMA TrimType == ASSUME NEW s \in Text PROVE Trim(s) \in Text
<1>1. CASE Solid(s) = {}
  BY <1>1, EmptySeq DEF Trim, Text
<1>2. CASE Solid(s) # {}
  <2>1. PICK i, j \in Solid(s) : /\ \A k \in Solid(s) : i <= k /\ k <= j
                                 /\ Trim(s) = SubSeq(s, i, j)
    BY <1>2, TrimEnds
  <2>2. i \in 1 .. Len(s) /\ j \in i .. Len(s)
    BY <2>1, SeqLen DEF Solid, Text
  <2>3. SubSeq(s, i, j) \in Text
    BY <2>2, Around
  <2> QED  BY <2>1, <2>3
<1> QED  BY <1>1, <1>2

\* Trimming takes no word away.
LEMMA WordsOfTrim == ASSUME NEW s \in Text PROVE WordsOf(Trim(s)) = WordsOf(s)
<1>1. CASE Solid(s) = {}
  BY <1>1, WordsOfBlanks, WordsOfNone DEF Trim
<1>2. CASE Solid(s) # {}
  <2>1. PICK i, j \in Solid(s) : /\ \A k \in Solid(s) : i <= k /\ k <= j
                                 /\ Trim(s) = SubSeq(s, i, j)
    BY <1>2, TrimEnds
  <2>2. /\ Len(s) \in Nat /\ i \in 1 .. Len(s) /\ j \in i .. Len(s)
        /\ \A k \in 1 .. Len(s) : s[k] # Blank => i <= k /\ k <= j
    BY <2>1, SeqLen DEF Solid, Text
  <2> DEFINE a == SubSeq(s, 1, i - 1)
             m == SubSeq(s, i, j)
             b == SubSeq(s, j + 1, Len(s))
  <2>3. a \in Text /\ m \in Text /\ b \in Text /\ s = (a \o m) \o b
    BY <2>2, Around
  <2>4. Solid(a) = {}
    <3>1. /\ DOMAIN a = 1 .. i - 1
          /\ \A k \in 1 .. i - 1 : a[k] = s[k]
      BY <2>2
    <3> HIDE DEF a
    <3> QED  BY <2>2, <3>1 DEF Solid
  <2>5. Solid(b) = {}
    <3>1. /\ DOMAIN b = 1 .. Len(s) - j
          /\ \A k \in 1 .. Len(s) - j : b[k] = s[j + k]
      BY <2>2
    <3> HIDE DEF b
    <3>2. ASSUME NEW k \in 1 .. Len(s) - j PROVE b[k] = Blank
      <4>1. b[k] = s[j + k] /\ j + k \in 1 .. Len(s) /\ ~(j + k <= j)
        BY <2>2, <3>1
      <4> QED  BY <2>2, <4>1
    <3> QED  BY <3>1, <3>2 DEF Solid
  <2> HIDE DEF a, m, b
  <2>6. /\ a \o m \in Text /\ WordsOf(a \o m) = WordsOf(a) \o WordsOf(m)
        /\ WordsOf(s) = WordsOf(a \o m) \o WordsOf(b)
    BY <2>3, WordsConcat
  <2>7. WordsOf(a) = <<>> /\ WordsOf(b) = <<>> /\ WordsOf(m) \in Seq(Chars)
    BY <2>3, <2>4, <2>5, WordsOfBlanks, WordsType
  <2>8. WordsOf(s) = (<<>> \o WordsOf(m)) \o <<>>
    BY <2>6, <2>7
  <2>9. WordsOf(s) = WordsOf(m)
    BY <2>7, <2>8, ConcatEmptySeq
  <2> QED  BY <2>1, <2>9 DEF m
<1> QED  BY <1>1, <1>2

\* Blanks after a trimmed text are trimmed again.
LEMMA TrimBlanks ==
  ASSUME NEW s \in Text, NEW b \in Text, Solid(b) = {}
  PROVE  Trim(Trim(s) \o b) = Trim(s)
<1> DEFINE t  == Trim(s)
           tb == t \o b
<1>1. t \in Text /\ tb \in Text
  BY TrimType, WordsConcat
<1>2. /\ Len(t) \in Nat /\ Len(b) \in Nat /\ Len(tb) = Len(t) + Len(b)
      /\ DOMAIN tb = 1 .. Len(t) + Len(b) /\ DOMAIN t = 1 .. Len(t)
      /\ \A i \in 1 .. Len(t) : tb[i] = t[i]
      /\ \A i \in 1 .. Len(t) + Len(b) : i > Len(t) => tb[i] = Blank
  <2>1. \A i \in 1 .. Len(b) : b[i] = Blank
    BY SeqLen DEF Solid, Text
  <2>2. /\ Len(t) \in Nat /\ Len(b) \in Nat /\ Len(tb) = Len(t) + Len(b)
        /\ DOMAIN tb = 1 .. Len(tb) /\ DOMAIN t = 1 .. Len(t)
    BY <1>1, SeqLen, ConcatProperties DEF Text
  <2>3. \A i \in 1 .. Len(t) + Len(b) : tb[i] = IF i <= Len(t) THEN t[i] ELSE b[i - Len(t)]
    BY <1>1, ConcatProperties DEF Text
  <2> HIDE DEF t, tb
  <2> QED  BY <2>1, <2>2, <2>3
<1>3. CASE Solid(s) = {}
  <2>1. t = <<>> /\ Len(t) = 0
    BY <1>3 DEF Trim
  <2> HIDE DEF t, tb
  <2>2. Solid(tb) = {}
    BY <1>2, <2>1 DEF Solid
  <2>3. Trim(tb) = <<>>
    BY <2>2 DEF Trim
  <2> QED  BY <2>1, <2>3 DEF t, tb
<1>4. CASE Solid(s) # {}
  <2>1. PICK i, j \in Solid(s) : /\ \A k \in Solid(s) : i <= k /\ k <= j
                                 /\ t = SubSeq(s, i, j)
    BY <1>4, TrimEnds
  <2>2. /\ Len(s) \in Nat /\ i \in 1 .. Len(s) /\ j \in i .. Len(s)
        /\ s[i] # Blank /\ s[j] # Blank
    BY <2>1, SeqLen DEF Solid, Text
  <2> HIDE DEF t, tb
  <2>3. Len(t) = j - i + 1 /\ t[1] # Blank /\ t[Len(t)] # Blank
    <3>1. Len(t) = j - i + 1 /\ \A k \in 1 .. j - i + 1 : t[k] = s[i + k - 1]
      BY <2>1, <2>2
    <3>2. 1 \in 1 .. j - i + 1 /\ j - i + 1 \in 1 .. j - i + 1 /\ i + 1 - 1 = i
          /\ i + (j - i + 1) - 1 = j
      BY <2>2
    <3> QED  BY <2>2, <3>1, <3>2
  <2>4. /\ 1 \in Solid(tb) /\ Len(t) \in Solid(tb)
        /\ \A k \in Solid(tb) : 1 <= k /\ k <= Len(t)
    <3>1. 1 \in 1 .. Len(t) /\ Len(t) \in 1 .. Len(t)
      BY <1>2, <2>2, <2>3
    <3>2. 1 .. Len(t) \subseteq DOMAIN tb
      BY <1>2
    <3>3. tb[1] # Blank /\ tb[Len(t)] # Blank
      BY <1>2, <2>3, <3>1
    <3>4. \A k \in DOMAIN tb : tb[k] # Blank => 1 <= k /\ k <= Len(t)
      BY <1>2
    <3> QED  BY <3>1, <3>2, <3>3, <3>4 DEF Solid
  <2>5. Trim(tb) = SubSeq(tb, 1, Len(t))
    BY <1>1, <2>4, TrimIs
  <2>6. SubSeq(tb, 1, Len(t)) = SubSeq(t, 1, Len(t))
    BY <1>2
  <2>7. SubSeq(t, 1, Len(t)) = t
    BY <1>1, SubSeqFull DEF Text
  <2> QED  BY <2>5, <2>6, <2>7 DEF t, tb
<1> QED  BY <1>3, <1>4

-----------------------------------------------------------------------------
(* The inductive invariant *)

\* The elements that may be open.
InItemPaths == {<<"channel", "item">>} \cup {<<"channel", "item", e>> : e \in Leaves}
Paths == {<<>>, <<"channel">>} \cup {<<"channel", e>> : e \in Leaves} \cup InItemPaths

TypeInv ==
  /\ rssItems \in Seq([Fields -> Text]) /\ current \in [Fields -> Text]
  /\ inItems \in Seq([Fields -> Text]) /\ inItem \in [Fields -> Text]
  /\ cutsOf \in Seq([Fields -> Nat]) /\ cuts \in [Fields -> Nat]

\* The parser reads inside an element, and knows the leaf of an item it is in.
DocumentInv ==
  /\ path \in Paths
  /\ phase \in {"idle", "requested", "closed", "ended"} => path = <<>>
  /\ \A e \in Leaves : path = <<"channel", "item", e>> => currentElement = e

\* What a field has of a text that came in n pieces.
FieldFollows(field, text, n) ==
  /\ WordsOf(field) = WordsOf(text)
  /\ n = 0 => field = <<>> /\ text = <<>>
  /\ n = 1 => field = Trim(text)

ItemInv ==
  path \in InItemPaths =>
    \A f \in Fields : FieldFollows(current[f], inItem[f], cuts[f])

ItemsInv ==
  /\ Len(rssItems) = Len(inItems) /\ Len(cutsOf) = Len(inItems)
  /\ \A i \in 1 .. Len(inItems) : \A f \in Fields :
        FieldFollows(rssItems[i][f], inItems[i][f], cutsOf[i][f])

DeliveredInv == delivered = IF phase = "ended" THEN << rssItems >> ELSE <<>>

ParserInv == TypeInv /\ DocumentInv /\ ItemInv /\ ItemsInv /\ DeliveredInv

\* One more piece for a field.
LEMMA FieldPiece ==
  ASSUME NEW x \in Text, NEW y \in Text, NEW n \in Nat, NEW z \in Text,
         FieldFollows(x, y, n)
  PROVE  /\ Trim(x \o z) \in Text /\ y \o z \in Text
         /\ FieldFollows(Trim(x \o z), y \o z, n + 1)
<1>1. /\ x \o z \in Text /\ WordsOf(x \o z) = WordsOf(x) \o WordsOf(z)
      /\ y \o z \in Text /\ WordsOf(y \o z) = WordsOf(y) \o WordsOf(z)
  BY WordsConcat
<1>2. Trim(x \o z) \in Text /\ WordsOf(Trim(x \o z)) = WordsOf(x \o z)
  BY <1>1, TrimType, WordsOfTrim
<1>3. WordsOf(Trim(x \o z)) = WordsOf(y \o z)
  BY <1>1, <1>2 DEF FieldFollows
<1>4. n + 1 # 0 /\ (n + 1 = 1 => n = 0)
  OBVIOUS
<1>5. n = 0 => Trim(x \o z) = Trim(y \o z)
  BY DEF FieldFollows
<1> QED  BY <1>1, <1>2, <1>3, <1>4, <1>5 DEF FieldFollows

\* Blanks that belong to no field.
LEMMA FieldBlanks ==
  ASSUME NEW x \in Text, NEW y \in Text, NEW n \in Nat, NEW z \in Text,
         Solid(z) = {}, FieldFollows(x, y, n)
  PROVE  Trim(x \o z) \in Text /\ FieldFollows(Trim(x \o z), y, n)
<1>1. x \o z \in Text /\ WordsOf(x \o z) = WordsOf(x) \o WordsOf(z)
  BY WordsConcat
<1>2. Trim(x \o z) \in Text /\ WordsOf(Trim(x \o z)) = WordsOf(x \o z)
  BY <1>1, TrimType, WordsOfTrim
<1>3. WordsOf(z) = <<>> /\ WordsOf(x) \in Seq(Chars)
  BY WordsOfBlanks, WordsType
<1>4. WordsOf(Trim(x \o z)) = WordsOf(x)
  BY <1>1, <1>2, <1>3, ConcatEmptySeq
<1>5. Trim(<<>>) = <<>> /\ <<>> \in Text
  BY EmptySeq DEF Trim, Solid, Text
<1>6. ASSUME n = 0 PROVE Trim(x \o z) = <<>> /\ y = <<>>
  <2>1. x = <<>> /\ y = <<>>
    BY <1>6 DEF FieldFollows
  <2>2. Trim(Trim(<<>>) \o z) = Trim(<<>>)
    BY <1>5, TrimBlanks
  <2> QED  BY <1>5, <2>1, <2>2
<1>7. ASSUME n = 1 PROVE Trim(x \o z) = Trim(y)
  <2>1. x = Trim(y)
    BY <1>7 DEF FieldFollows
  <2> QED  BY <2>1, TrimBlanks
<1> QED  BY <1>2, <1>4, <1>6, <1>7 DEF FieldFollows

\* A field of an item that has no text yet.
LEMMA FieldNew == <<>> \in Text /\ FieldFollows(<<>>, <<>>, 0)
BY EmptySeq DEF FieldFollows, Text

-----------------------------------------------------------------------------
(* One lemma per handler *)

\* The paths to an element of the channel, and to one of an item.
LEMMA ChannelPath ==
  ASSUME NEW e
  PROVE  /\ Append(<<"channel">>, e) = <<"channel", e>>
         /\ Len(<<"channel", e>>) = 2
         /\ Front(<<"channel", e>>) = <<"channel">>
         /\ Last(<<"channel", e>>) = e
<1> DEFINE S == {"channel", e}
           p == <<"channel">>
           q == <<"channel", e>>
<1>1. /\ p \in Seq(S) /\ Len(p) = 1 /\ p[1] = "channel"
      /\ q \in Seq(S) /\ Len(q) = 2 /\ q[1] = "channel" /\ q[2] = e
      /\ e \in S
  OBVIOUS
<1> HIDE DEF S, p, q
<1>2. Append(p, e) = q
  <2>1. /\ Append(p, e) \in Seq(S) /\ Len(Append(p, e)) = Len(p) + 1
        /\ \A i \in 1 .. Len(p) : Append(p, e)[i] = p[i]
        /\ Append(p, e)[Len(p) + 1] = e
    <3>1. p \in Seq(S) /\ e \in S
      BY <1>1
    <3> QED  BY <3>1, AppendProperties
  <2>2. Len(Append(p, e)) = 2 /\ \A i \in 1 .. 2 : Append(p, e)[i] = q[i]
    BY <1>1, <2>1
  <2> QED  BY <1>1, <2>1, <2>2, SeqEqual, Zenon
<1>3. Front(q) = p /\ Last(q) = e
  <2>1. Front(q) = SubSeq(q, 1, 1) /\ Last(q) = e
    BY <1>1 DEF Front, Last
  <2>2. /\ SubSeq(q, 1, 1) \in Seq(S) /\ Len(SubSeq(q, 1, 1)) = 1
        /\ SubSeq(q, 1, 1)[1] = "channel"
    BY <1>1
  <2>3. \A i \in 1 .. 1 : SubSeq(q, 1, 1)[i] = p[i]
    BY <1>1, <2>2
  <2>4. SubSeq(q, 1, 1) = p
    BY <1>1, <2>2, <2>3, SeqEqual, Zenon
  <2> QED  BY <2>1, <2>4
<1> QED  BY <1>1, <1>2, <1>3 DEF p, q

LEMMA ItemPath ==
  ASSUME NEW e
  PROVE  /\ Append(<<"channel", "item">>, e) = <<"channel", "item", e>>
         /\ Len(<<"channel", "item", e>>) = 3
         /\ Front(<<"channel", "item", e>>) = <<"channel", "item">>
         /\ Last(<<"channel", "item", e>>) = e
<1> DEFINE S == {"channel", "item", e}
           q == <<"channel", "item">>
           r == <<"channel", "item", e>>
<1>1. /\ q \in Seq(S) /\ Len(q) = 2 /\ q[1] = "channel" /\ q[2] = "item"
      /\ r \in Seq(S) /\ Len(r) = 3 /\ r[1] = "channel" /\ r[2] = "item" /\ r[3] = e
      /\ e \in S
  OBVIOUS
<1> HIDE DEF S, q, r
<1>2. Append(q, e) = r
  <2>1. /\ Append(q, e) \in Seq(S) /\ Len(Append(q, e)) = Len(q) + 1
        /\ \A i \in 1 .. Len(q) : Append(q, e)[i] = q[i]
        /\ Append(q, e)[Len(q) + 1] = e
    <3>1. q \in Seq(S) /\ e \in S
      BY <1>1
    <3> QED  BY <3>1, AppendProperties
  <2>2. Len(Append(q, e)) = 3 /\ \A i \in 1 .. 3 : Append(q, e)[i] = r[i]
    BY <1>1, <2>1
  <2> QED  BY <1>1, <2>1, <2>2, SeqEqual, Zenon
<1>3. Front(r) = q /\ Last(r) = e
  <2>1. Front(r) = SubSeq(r, 1, 2) /\ Last(r) = e
    BY <1>1 DEF Front, Last
  <2>2. /\ SubSeq(r, 1, 2) \in Seq(S) /\ Len(SubSeq(r, 1, 2)) = 2
        /\ SubSeq(r, 1, 2)[1] = "channel" /\ SubSeq(r, 1, 2)[2] = "item"
    BY <1>1
  <2>3. \A i \in 1 .. 2 : SubSeq(r, 1, 2)[i] = q[i]
    BY <1>1, <2>2
  <2>4. SubSeq(r, 1, 2) = q
    BY <1>1, <2>2, <2>3, SeqEqual, Zenon
  <2> QED  BY <2>1, <2>4
<1> QED  BY <1>1, <1>2, <1>3 DEF q, r

LEMMA OpenStep ==
  ASSUME ParserInv, NEW e \in Leaves \cup {"channel", "item"}, Open(e)
  PROVE  ParserInv'
<1> USE DEF ParserInv
<1>1. /\ phase = "parsing" /\ phase' = phase /\ path' = Append(path, e)
      /\ inItem' = IF e = "item" THEN NoText ELSE inItem
      /\ current' = IF e = "item" THEN NoText ELSE current
      /\ cuts' = IF e = "item" THEN [f \in Fields |-> 0] ELSE cuts
      /\ currentElement' = e
      /\ UNCHANGED <<rssItems, delivered, inItems, cutsOf>>
  BY DEF Open, DidStartElement
<1>2. \/ path = <<>> /\ e = "channel" /\ path' = <<"channel">>
      \/ path = <<"channel">> /\ e = "item" /\ path' = <<"channel", "item">>
      \/ path = <<"channel">> /\ e \in Leaves /\ path' = <<"channel", e>>
      \/ path = <<"channel", "item">> /\ e \in Leaves /\ path' = <<"channel", "item", e>>
  <2>1. \/ path = <<>> /\ e = "channel"
        \/ path = <<"channel">> /\ e = "item"
        \/ path = <<"channel">> /\ e \in Leaves
        \/ path = <<"channel", "item">> /\ e \in Leaves
    BY DEF Open
  <2>2. /\ Append(<<>>, "channel") = <<"channel">>
        /\ Append(<<"channel">>, e) = <<"channel", e>>
        /\ Append(<<"channel", "item">>, e) = <<"channel", "item", e>>
    <3>1. Append(<<>>, "channel") = <<"channel">>
      OBVIOUS
    <3>2. Append(<<"channel">>, e) = <<"channel", e>>
      BY ChannelPath
    <3>3. Append(<<"channel", "item">>, e) = <<"channel", "item", e>>
      BY ItemPath
    <3> QED  BY <3>1, <3>2, <3>3
  <2> QED  BY <1>1, <2>1, <2>2
<1>3. e \in Leaves => e # "item" /\ e # "channel"
  BY DEF Leaves, Fields
<1>4. TypeInv'
  BY <1>1, FieldNew DEF TypeInv, NoText
<1>5. DocumentInv'
  <2>1. path' \in Paths
    BY <1>2 DEF Paths, InItemPaths
  <2>2. \A l \in Leaves : path' = <<"channel", "item", l>> => currentElement' = l
    BY <1>1, <1>2
  <2> QED  BY <1>1, <2>1, <2>2 DEF DocumentInv
<1>6. ItemInv'
  <2> SUFFICES ASSUME path' \in InItemPaths, NEW f \in Fields
               PROVE  FieldFollows(current'[f], inItem'[f], cuts'[f])
    BY DEF ItemInv
  <2>1. CASE e = "item"
    <3>1. current'[f] = <<>> /\ inItem'[f] = <<>> /\ cuts'[f] = 0
      BY <1>1, <2>1 DEF NoText
    <3> QED  BY <3>1, FieldNew
  <2>2. CASE e # "item"
    <3>1. path = <<"channel", "item">>
      BY <1>2, <2>2 DEF InItemPaths
    <3>2. path \in InItemPaths
      BY <3>1 DEF InItemPaths
    <3>3. current' = current /\ inItem' = inItem /\ cuts' = cuts
      BY <1>1, <2>2
    <3> QED  BY <3>2, <3>3 DEF ItemInv
  <2> QED  BY <2>1, <2>2
<1>7. ItemsInv' /\ DeliveredInv'
  BY <1>1 DEF ItemsInv, DeliveredInv
<1> QED  BY <1>4, <1>5, <1>6, <1>7

LEMMA CharactersStep ==
  ASSUME ParserInv, NEW string \in Pieces, Characters(string)
  PROVE  ParserInv'
<1> USE DEF ParserInv
<1>1. /\ phase = "parsing" /\ phase' = phase /\ path' = path /\ path # <<>>
      /\ current' = IF currentElement \in Fields
                     THEN [current EXCEPT ![currentElement] = Trim(@ \o string)]
                     ELSE current
      /\ UNCHANGED <<rssItems, currentElement, delivered, inItems, cutsOf>>
  BY DEF Characters, FoundCharacters
<1>2. string \in Text
  BY ParseAssumption
<1>3. current \in [Fields -> Text] /\ inItem \in [Fields -> Text] /\ cuts \in [Fields -> Nat]
  BY DEF TypeInv
<1>4. current' \in [Fields -> Text]
  <2>1. ASSUME currentElement \in Fields
        PROVE  Trim(current[currentElement] \o string) \in Text
    BY <1>2, <1>3, <2>1, WordsConcat, TrimType
  <2> QED  BY <1>1, <1>3, <2>1
<1>5. CASE \E e \in Fields : path = <<"channel", "item", e>>
  <2>1. PICK e \in Fields : path = <<"channel", "item", e>>
    BY <1>5
  <2>2. currentElement = e
    BY <2>1 DEF DocumentInv, Leaves
  <2>3. Len(path) = 3 /\ Last(path) = e
    BY <2>1 DEF Last
  <2>4. /\ inItem' = [inItem EXCEPT ![e] = @ \o string]
        /\ cuts' = [cuts EXCEPT ![e] = @ + 1]
    BY <2>3 DEF Characters
  <2>5. path \in InItemPaths
    BY <2>1 DEF InItemPaths, Leaves
  <2>6. FieldFollows(current[e], inItem[e], cuts[e])
    BY <2>5 DEF ItemInv
  <2>7. /\ Trim(current[e] \o string) \in Text /\ inItem[e] \o string \in Text
        /\ FieldFollows(Trim(current[e] \o string), inItem[e] \o string, cuts[e] + 1)
    BY <1>2, <1>3, <2>6, FieldPiece
  <2>8. /\ current'[e] = Trim(current[e] \o string) /\ inItem'[e] = inItem[e] \o string
        /\ cuts'[e] = cuts[e] + 1
        /\ \A f \in Fields : f # e => /\ current'[f] = current[f] /\ inItem'[f] = inItem[f]
                                      /\ cuts'[f] = cuts[f]
    BY <1>1, <1>3, <2>2, <2>4
  <2>9. TypeInv'
    BY <1>1, <1>3, <1>4, <2>4, <2>7 DEF TypeInv
  <2>10. ItemInv'
    <3> SUFFICES ASSUME NEW f \in Fields
                 PROVE  FieldFollows(current'[f], inItem'[f], cuts'[f])
      BY DEF ItemInv
    <3>1. CASE f = e
      BY <2>7, <2>8, <3>1
    <3>2. CASE f # e
      BY <2>5, <2>8, <3>2 DEF ItemInv
    <3> QED  BY <3>1, <3>2
  <2>11. DocumentInv'
    BY <1>1 DEF DocumentInv
  <2>12. ItemsInv' /\ DeliveredInv'
    BY <1>1 DEF ItemsInv, DeliveredInv
  <2> QED  BY <2>9, <2>10, <2>11, <2>12
<1>6. CASE ~ \E e \in Fields : path = <<"channel", "item", e>>
  <2>1. inItem' = inItem /\ cuts' = cuts
    <3>1. ~ (Len(path) = 3 /\ Last(path) \in Fields)
      <4> SUFFICES ASSUME Len(path) = 3 PROVE Last(path) \notin Fields
        OBVIOUS
      <4>1. PICK e \in Leaves : path = <<"channel", "item", e>>
        <5>1. /\ Len(<<>>) = 0 /\ Len(<<"channel">>) = 1 /\ Len(<<"channel", "item">>) = 2
              /\ \A e : Len(<<"channel", e>>) = 2
          BY EmptySeq, ChannelPath
        <5>2. path \in Paths
          BY DEF DocumentInv
        <5>3. \/ path \in {<<>>, <<"channel">>} \/ \E e \in Leaves : path = <<"channel", e>>
              \/ path = <<"channel", "item">>
              \/ \E e \in Leaves : path = <<"channel", "item", e>>
          BY <5>2 DEF Paths, InItemPaths
        <5>4. path # <<"channel", "item">> /\ path \notin {<<>>, <<"channel">>}
          <6>1. 3 # 0 /\ 3 # 1 /\ 3 # 2
            OBVIOUS
          <6> QED  BY <5>1, <6>1, Zenon
        <5>5. ASSUME NEW e \in Leaves, path = <<"channel", e>> PROVE FALSE
          BY <5>1, <5>5
        <5> QED  BY <5>3, <5>4, <5>5
      <4>2. Last(path) = e
        BY <4>1 DEF Last
      <4> QED  BY <1>6, <4>1, <4>2
    <3> QED  BY <3>1 DEF Characters
  <2>2. TypeInv'
    BY <1>1, <1>3, <1>4, <2>1 DEF TypeInv
  <2>3. ItemInv'
    <3> SUFFICES ASSUME path \in InItemPaths, NEW f \in Fields
                 PROVE  FieldFollows(current'[f], inItem[f], cuts[f])
      BY <1>1, <2>1 DEF ItemInv
    <3>1. FieldFollows(current[f], inItem[f], cuts[f])
      BY DEF ItemInv
    <3>2. CASE currentElement # f
      <4>1. current'[f] = current[f]
        BY <1>1, <1>3, <3>2
      <4> QED  BY <3>1, <4>1
    <3>3. CASE currentElement = f
      <4>1. path = <<"channel", "item">>
        BY <1>6, <3>3 DEF InItemPaths, DocumentInv
      <4>2. Last(path) = "item"
        BY <4>1 DEF Last
      <4>3. Solid(string) = {}
        BY <4>2 DEF Characters, Leaves, Fields
      <4>4. current'[f] = Trim(current[f] \o string)
        BY <1>1, <1>3, <3>3
      <4>5. FieldFollows(Trim(current[f] \o string), inItem[f], cuts[f])
        BY <1>2, <1>3, <3>1, <4>3, FieldBlanks
      <4> QED  BY <4>4, <4>5
    <3> QED  BY <3>2, <3>3
  <2>4. DocumentInv'
    BY <1>1 DEF DocumentInv
  <2>5. ItemsInv' /\ DeliveredInv'
    BY <1>1 DEF ItemsInv, DeliveredInv
  <2> QED  BY <2>2, <2>3, <2>4, <2>5
<1> QED  BY <1>5, <1>6

LEMMA CloseStep == ASSUME ParserInv, Close PROVE ParserInv'
<1> USE DEF ParserInv
<1>1. /\ phase = "parsing" /\ Len(path) > 0 /\ path' = Front(path)
      /\ inItems' = IF Last(path) = "item" THEN Append(inItems, inItem) ELSE inItems
      /\ cutsOf'  = IF Last(path) = "item" THEN Append(cutsOf, cuts) ELSE cutsOf
      /\ rssItems' = IF Last(path) = "item" THEN Append(rssItems, current) ELSE rssItems
      /\ phase' = IF Len(path) = 1 THEN "closed" ELSE phase
      /\ UNCHANGED <<currentElement, current, delivered, inItem, cuts>>
  BY DEF Close, DidEndElement
<1>2. \/ path = <<"channel">> /\ path' = <<>> /\ Len(path) = 1 /\ Last(path) = "channel"
      \/ path = <<"channel", "item">> /\ path' = <<"channel">> /\ Len(path) = 2
         /\ Last(path) = "item"
      \/ \E e \in Leaves : path = <<"channel", e>> /\ path' = <<"channel">> /\ Len(path) = 2
                            /\ Last(path) = e
      \/ \E e \in Leaves : /\ path = <<"channel", "item", e>> /\ Last(path) = e
                            /\ path' = <<"channel", "item">> /\ Len(path) = 3
  <2>1. \/ path = <<"channel">> \/ path = <<"channel", "item">>
        \/ \E e \in Leaves : path = <<"channel", e>>
        \/ \E e \in Leaves : path = <<"channel", "item", e>>
    BY <1>1 DEF DocumentInv, Paths, InItemPaths
  <2>2. CASE path = <<"channel">>
    <3>1. Front(<<"channel">>) = <<>> /\ Last(<<"channel">>) = "channel" /\ Len(<<"channel">>) = 1
      BY DEF Front, Last
    <3> QED  BY <1>1, <2>2, <3>1
  <2>3. CASE path = <<"channel", "item">>
    BY <1>1, <2>3, ChannelPath
  <2>4. ASSUME NEW e \in Leaves, path = <<"channel", e>>
        PROVE  path' = <<"channel">> /\ Len(path) = 2 /\ Last(path) = e
    BY <1>1, <2>4, ChannelPath
  <2>5. ASSUME NEW e \in Leaves, path = <<"channel", "item", e>>
        PROVE  path' = <<"channel", "item">> /\ Len(path) = 3 /\ Last(path) = e
    BY <1>1, <2>5, ItemPath
  <2> QED  BY <2>1, <2>2, <2>3, <2>4, <2>5
<1>3. \A e \in Leaves : e # "item"
  BY DEF Leaves, Fields
<1>4. DocumentInv'
  <2>1. path' \in Paths
    BY <1>2 DEF Paths, InItemPaths
  <2>2. phase' \in {"idle", "requested", "closed", "ended"} => path' = <<>>
    <3>1. CASE Len(path) = 1
      BY <1>1, <1>2, <3>1
    <3>2. CASE Len(path) # 1
      BY <1>1, <3>2
    <3> QED  BY <3>1, <3>2
  <2>3. \A l \in Leaves : path' # <<"channel", "item", l>>
    BY <1>2
  <2> QED  BY <2>1, <2>2, <2>3 DEF DocumentInv
<1>5. DeliveredInv'
  BY <1>1 DEF DeliveredInv
<1>6. CASE Last(path) # "item"
  <2>1. TypeInv' /\ ItemsInv'
    BY <1>1, <1>6 DEF TypeInv, ItemsInv
  <2>2. path' \in InItemPaths => path \in InItemPaths
    BY <1>2 DEF InItemPaths
  <2>3. ItemInv'
    BY <1>1, <2>2 DEF ItemInv
  <2> QED  BY <1>4, <1>5, <2>1, <2>3
<1>7. CASE Last(path) = "item"
  <2>1. path = <<"channel", "item">> /\ path' = <<"channel">>
    BY <1>2, <1>3, <1>7
  <2>2. /\ rssItems' = Append(rssItems, current) /\ inItems' = Append(inItems, inItem)
        /\ cutsOf' = Append(cutsOf, cuts)
    BY <1>1, <1>7
  <2>3. /\ rssItems \in Seq([Fields -> Text]) /\ inItems \in Seq([Fields -> Text])
        /\ cutsOf \in Seq([Fields -> Nat]) /\ current \in [Fields -> Text]
        /\ inItem \in [Fields -> Text] /\ cuts \in [Fields -> Nat]
    BY DEF TypeInv
  <2>4. TypeInv'
    BY <1>1, <2>2, <2>3, AppendProperties DEF TypeInv
  <2>5. ItemInv'
    BY <2>1 DEF ItemInv, InItemPaths
  <2>6. ItemsInv'
    <3> DEFINE n == Len(inItems)
    <3>1. n \in Nat /\ Len(rssItems) = n /\ Len(cutsOf) = n
      BY <2>3, SeqLen DEF ItemsInv
    <3>2. /\ Len(rssItems') = n + 1 /\ Len(inItems') = n + 1 /\ Len(cutsOf') = n + 1
          /\ rssItems'[n + 1] = current /\ inItems'[n + 1] = inItem /\ cutsOf'[n + 1] = cuts
          /\ \A i \in 1 .. n : /\ rssItems'[i] = rssItems[i] /\ inItems'[i] = inItems[i]
                               /\ cutsOf'[i] = cutsOf[i]
      BY <2>2, <2>3, <3>1, AppendProperties
    <3>3. \A f \in Fields : FieldFollows(current[f], inItem[f], cuts[f])
      BY <2>1 DEF ItemInv, InItemPaths
    <3> SUFFICES ASSUME NEW i \in 1 .. n + 1, NEW f \in Fields
                 PROVE  FieldFollows(rssItems'[i][f], inItems'[i][f], cutsOf'[i][f])
      BY <3>2 DEF ItemsInv
    <3>4. CASE i = n + 1
      BY <3>2, <3>3, <3>4
    <3>5. CASE i # n + 1
      <4>1. i \in 1 .. n
        BY <3>1, <3>5
      <4> QED  BY <3>2, <4>1 DEF ItemsInv
    <3> QED  BY <3>4, <3>5
  <2> QED  BY <1>4, <1>5, <2>4, <2>5, <2>6
<1> QED  BY <1>6, <1>7

LEMMA EndStep == ASSUME ParserInv, EndDocument PROVE ParserInv'
<1>1. /\ phase = "closed" /\ phase' = "ended" /\ delivered' = << rssItems >>
      /\ UNCHANGED <<rssItems, currentElement, current, docVars>>
  BY DEF EndDocument, ParserDidEndDocument
<1> QED
  BY <1>1 DEF ParserInv, TypeInv, DocumentInv, ItemInv, ItemsInv, DeliveredInv, docVars

\* The steps of the request, and the end nobody hears of.
LEMMA QuietStep ==
  ASSUME ParserInv, ParseFeed \/ DataTaskEnds \/ Malformed PROVE ParserInv'
<1>1. /\ phase # "ended" /\ phase' # "ended" /\ UNCHANGED <<parserVars, docVars>>
      /\ phase' \in {"requested", "parsing", "silent"}
      /\ phase' = "requested" => phase = "idle"
  BY DEF ParseFeed, DataTaskEnds, Malformed
<1> QED
  BY <1>1 DEF ParserInv, TypeInv, DocumentInv, ItemInv, ItemsInv, DeliveredInv,
              docVars, parserVars

LEMMA ParserInvInit == Init => ParserInv
<1> SUFFICES ASSUME Init PROVE ParserInv
  OBVIOUS
<1>1. path = <<>> /\ path \in Paths /\ path \notin InItemPaths
  BY DEF Init, Paths, InItemPaths
<1>2. \A e \in Leaves : path # <<"channel", "item", e>>
  BY <1>1
<1>3. NoText \in [Fields -> Text]
  BY FieldNew DEF NoText
<1>4. TypeInv
  BY <1>3, EmptySeq DEF Init, TypeInv
<1>5. ItemsInv
  <2>1. Len(rssItems) = 0 /\ Len(inItems) = 0 /\ Len(cutsOf) = 0
    BY EmptySeq DEF Init
  <2>2. 1 .. Len(inItems) = {}
    BY <2>1
  <2> QED  BY <2>1, <2>2 DEF ItemsInv
<1>6. DeliveredInv
  BY DEF Init, DeliveredInv
<1> QED  BY <1>1, <1>2, <1>4, <1>5, <1>6 DEF Init, ParserInv, DocumentInv, ItemInv

LEMMA ParserInvNext == ParserInv /\ [Next]_vars => ParserInv'
<1> SUFFICES ASSUME ParserInv, [Next]_vars PROVE ParserInv'
  OBVIOUS
<1>1. CASE ParseFeed \/ DataTaskEnds \/ Malformed
  BY <1>1, QuietStep
<1>2. CASE Parse
  BY <1>2, OpenStep, CharactersStep, CloseStep, EndStep DEF Parse
<1>3. CASE UNCHANGED vars
  BY <1>3 DEF vars, parserVars, docVars, ParserInv, TypeInv, DocumentInv, ItemInv,
              ItemsInv, DeliveredInv
<1> QED  BY <1>1, <1>2, <1>3 DEF Next

THEOREM ParserFollows == Spec => []ParserInv
<1> QED  BY ParserInvInit, ParserInvNext, PTL DEF Spec

-----------------------------------------------------------------------------
(* The properties *)

\* However the text is cut into pieces, the items that the parser has are those
\* that are closed in the document, with the words of their fields in order.
THEOREM ParserItemsFollow == Spec => []ItemsFollowDocument
<1>1. ParserInv => ItemsFollowDocument
  <2> SUFFICES ASSUME ParserInv PROVE ItemsFollowDocument
    OBVIOUS
  <2>1. Len(rssItems) = Len(inItems) /\ DOMAIN rssItems = 1 .. Len(inItems)
    BY SeqLen DEF ParserInv, TypeInv, ItemsInv
  <2> QED  BY <2>1 DEF ParserInv, ItemsInv, FieldFollows, ItemsFollowDocument
<1> QED  BY <1>1, ParserFollows, PTL

\* A field whose text came in one piece is the trimmed text of the document.
THEOREM ParserWholeText == Spec => []WholeTextIsExact
<1>1. ParserInv => WholeTextIsExact
  <2> SUFFICES ASSUME ParserInv, NEW i \in DOMAIN rssItems, NEW f \in Fields,
                      cutsOf[i][f] <= 1
               PROVE  rssItems[i][f] = Trim(inItems[i][f])
    BY DEF WholeTextIsExact
  <2>1. i \in 1 .. Len(inItems) /\ cutsOf[i][f] \in Nat
    <3>1. Len(rssItems) = Len(inItems) /\ Len(cutsOf) = Len(inItems)
      BY DEF ParserInv, ItemsInv
    <3>2. DOMAIN rssItems = 1 .. Len(rssItems) /\ cutsOf \in Seq([Fields -> Nat])
      BY SeqLen DEF ParserInv, TypeInv
    <3>3. cutsOf[i] \in [Fields -> Nat]
      BY <3>1, <3>2
    <3> QED  BY <3>1, <3>2, <3>3
  <2>2. FieldFollows(rssItems[i][f], inItems[i][f], cutsOf[i][f])
    BY <2>1 DEF ParserInv, ItemsInv
  <2>3. cutsOf[i][f] = 0 \/ cutsOf[i][f] = 1
    BY <2>1
  <2>4. Trim(<<>>) = <<>>
    BY EmptySeq DEF Trim, Solid
  <2> QED  BY <2>2, <2>3, <2>4 DEF FieldFollows
<1> QED  BY <1>1, ParserFollows, PTL

\* The completion handler is called once, for a whole document with all its items.
THEOREM ParserDelivers == Spec => []DeliversWholeDocument
<1>1. ParserInv => DeliversWholeDocument
  BY DEF ParserInv, DocumentInv, ItemsInv, DeliveredInv, DeliversWholeDocument
<1> QED  BY <1>1, ParserFollows, PTL
=============================================================================
