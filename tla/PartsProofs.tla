------------------------------- MODULE PartsProofs ------------------------------
(***************************************************************************)
(* Proofs about the strings of the program, and of the parts together.     *)
(*                                                                         *)
(* StringChain, for texts of any length, any delimiters and any sizes of   *)
(* the chunk and of what is allocated: a link fits its memory, and the     *)
(* links are the fields of the text.                                       *)
(*                                                                         *)
(* TempStrings, for one thread and a pool of any size: as many temporaries *)
(* as the pool has strings are held at once, each with the text it was     *)
(* built from.                                                             *)
(*                                                                         *)
(* MCParts: the invariants of the parts hold of them side by side.         *)
(***************************************************************************)
EXTENDS MCParts, ArrayProofs, GateParamsProofs, FiniteSetTheorems

-----------------------------------------------------------------------------
(* The links of a string: the invariant. *)

ChainTypes ==
  /\ ChainTypeOK
  /\ chunk \in Seq(Char)
  /\ links \in Seq(Seq(Char))

LinkRoom == room >= 3 /\ LinkFits

(* The links that the loop's body has seen are the fields that start up to *)
(* n.                                                                      *)
Seen(n) ==
  /\ Len(links) = Cardinality(StartsUpTo(text, delims, n))
  /\ \A k \in 1 .. Len(links) : links[k] = Fields(text, delims)[k]

(* The characters from s up to where the walk is are of one field. *)
Inside(s) ==
  /\ s \in Starts(text, delims)
  /\ iter <= Len(text)
  /\ \A k \in s .. iter : text[k] \notin delims
  /\ Seen(s - 1)

FieldOver == iter = Len(text) \/ (iter < Len(text) /\ text[iter + 1] \in delims)

(* What is gathered, and what it is gathered to, is the field up to here.  *)
Gathering(s) ==
  /\ Inside(s)
  /\ iter >= s - 1
  /\ chunk = <<>> => iter = s - 1
  /\ link \o chunk = SubSeq(text, s, iter)

LinkIsField(s) ==
  /\ Inside(s)
  /\ iter >= s
  /\ FieldOver
  /\ link = SubSeq(text, s, iter)

WalkOK ==
  /\ cpc = "new" => links = <<>>
  /\ cpc = "skip" =>
       /\ iter <= Len(text)
       /\ iter = 0 \/ text[iter] \in delims \/ FieldOver
       /\ Seen(iter)
  /\ cpc = "gather" => \E s \in 1 .. Len(text) : Gathering(s)
  /\ cpc = "returned" =>
       IF AtEnd THEN Seen(Len(text))
       ELSE \E s \in 1 .. Len(text) : LinkIsField(s)
  /\ cpc = "done" => Seen(Len(text))

ChainInv == ChainTypes /\ LinkRoom /\ WalkOK

-----------------------------------------------------------------------------
(* The fields of a text. *)

LEMMA TextTyped == ChainTypes => text \in Seq(Char) /\ Len(text) \in Nat
<1> SUFFICES ASSUME ChainTypes PROVE text \in Seq(Char)
  OBVIOUS
<1>1. PICK n \in 0 .. MaxLen : text \in [1 .. n -> Char]
  BY DEF ChainTypes, ChainTypeOK, BoundedStrings
<1>2. n \in Nat
  BY ChainAssumption
<1> QED
  BY <1>1, <1>2

LEMMA StartsFinite ==
  ASSUME NEW C, NEW t \in Seq(C), NEW d, NEW n
  PROVE  /\ IsFiniteSet(Starts(t, d)) /\ Cardinality(Starts(t, d)) \in Nat
         /\ IsFiniteSet(StartsUpTo(t, d, n)) /\ Cardinality(StartsUpTo(t, d, n)) \in Nat
         /\ Cardinality(StartsUpTo(t, d, n)) <= Cardinality(Starts(t, d))
<1>1. IsFiniteSet(1 .. Len(t))
  BY FS_Interval
<1>2. Starts(t, d) \subseteq 1 .. Len(t)
  BY DEF Starts
<1>3. IsFiniteSet(Starts(t, d))
  BY <1>1, <1>2, FS_Subset
<1>4. StartsUpTo(t, d, n) \subseteq Starts(t, d)
  BY DEF StartsUpTo
<1>5. /\ IsFiniteSet(StartsUpTo(t, d, n))
      /\ Cardinality(StartsUpTo(t, d, n)) <= Cardinality(Starts(t, d))
  BY <1>3, <1>4, FS_Subset
<1> QED
  BY <1>3, <1>5, FS_CardinalityType

LEMMA NoStartBetween ==
  ASSUME NEW t, NEW d, NEW i \in Int, NEW j \in Int, i <= j,
         Starts(t, d) \subseteq Int,
         \A k \in i + 1 .. j : k \notin Starts(t, d)
  PROVE  StartsUpTo(t, d, j) = StartsUpTo(t, d, i)
BY DEF StartsUpTo

(* A start is one more than there are before it. *)
LEMMA StartCounts ==
  ASSUME NEW C, NEW t \in Seq(C), NEW d, NEW s \in Starts(t, d)
  PROVE  Cardinality(StartsUpTo(t, d, s)) = Cardinality(StartsUpTo(t, d, s - 1)) + 1
<1>1. Starts(t, d) \subseteq Int /\ s \in Int
  BY DEF Starts
<1>2. StartsUpTo(t, d, s) = StartsUpTo(t, d, s - 1) \cup {s}
  BY <1>1 DEF StartsUpTo
<1>3. s \notin StartsUpTo(t, d, s - 1)
  BY <1>1 DEF StartsUpTo
<1>4. IsFiniteSet(StartsUpTo(t, d, s - 1))
  BY StartsFinite
<1> QED
  BY <1>2, <1>3, <1>4, FS_AddElement

(* No two starts have equally many up to them. *)
LEMMA StartsApart ==
  ASSUME NEW C, NEW t \in Seq(C), NEW d, NEW i \in Starts(t, d), NEW s \in Starts(t, d),
         i < s
  PROVE  Cardinality(StartsUpTo(t, d, i)) # Cardinality(StartsUpTo(t, d, s))
<1>1. Starts(t, d) \subseteq Int /\ s \in Int /\ i \in Int
  BY DEF Starts
<1>2. StartsUpTo(t, d, i) \subseteq StartsUpTo(t, d, s)
  BY <1>1 DEF StartsUpTo
<1>3. s \in StartsUpTo(t, d, s) /\ s \notin StartsUpTo(t, d, i)
  BY <1>1 DEF StartsUpTo
<1>4. IsFiniteSet(StartsUpTo(t, d, s))
  BY StartsFinite
<1> QED
  BY <1>2, <1>3, <1>4, FS_Subset

(* A field ends where it cannot be longer. *)
LEMMA FieldEnds ==
  ASSUME NEW C, NEW t \in Seq(C), NEW d, NEW s \in Starts(t, d),
         NEW j \in s .. Len(t), \A k \in s .. j : t[k] \notin d,
         j = Len(t) \/ t[j + 1] \in d
  PROVE  FieldAt(t, d, s) = SubSeq(t, s, j)
<1> DEFINE ends == {e \in s .. Len(t) : \A k \in s .. e : t[k] \notin d}
           last == CHOOSE e \in ends : \A k \in ends : k <= e
<1>1. s \in Int /\ j \in Int /\ Len(t) \in Nat
  BY DEF Starts
<1>2. j \in ends
  BY <1>1
<1>3. ASSUME NEW e \in ends PROVE e <= j
  <2>1. e \in Int /\ e <= Len(t) /\ \A k \in s .. e : t[k] \notin d
    BY <1>1, <1>3
  <2>2. CASE j = Len(t)
    BY <1>1, <2>1, <2>2
  <2>3. CASE t[j + 1] \in d
    <3>1. j + 1 \notin s .. e
      BY <2>1, <2>3
    <3> QED
      BY <1>1, <2>1, <3>1
  <2> QED
    BY <2>2, <2>3
<1>4. last \in ends /\ \A k \in ends : k <= last
  BY <1>2, <1>3
<1>5. last \in Int
  BY <1>1, <1>4
<1>6. last = j
  <2> HIDE DEF last, ends
  <2> QED
    BY <1>1, <1>2, <1>3, <1>4, <1>5
<1> QED
  BY <1>6 DEF FieldAt

(* It is the one that its start says. *)
LEMMA FieldIs ==
  ASSUME NEW C, NEW t \in Seq(C), NEW d, NEW s \in Starts(t, d),
         NEW j \in s .. Len(t), \A k \in s .. j : t[k] \notin d,
         j = Len(t) \/ t[j + 1] \in d
  PROVE  /\ Cardinality(StartsUpTo(t, d, s)) \in 1 .. Cardinality(Starts(t, d))
         /\ Fields(t, d)[Cardinality(StartsUpTo(t, d, s))] = SubSeq(t, s, j)
<1> DEFINE n == Cardinality(StartsUpTo(t, d, s))
<1>1. n \in 1 .. Cardinality(Starts(t, d))
  <2>1. n = Cardinality(StartsUpTo(t, d, s - 1)) + 1
    BY StartCounts
  <2> QED
    BY <2>1, StartsFinite
<1>2. ASSUME NEW i \in Starts(t, d), Cardinality(StartsUpTo(t, d, i)) = n
      PROVE  i = s
  <2>1. i \in Int /\ s \in Int
    BY DEF Starts
  <2>2. ~(i < s) /\ ~(s < i)
    BY <1>2, StartsApart
  <2> QED
    BY <2>1, <2>2
<1>3. (CHOOSE i \in Starts(t, d) : Cardinality(StartsUpTo(t, d, i)) = n) = s
  BY <1>2
<1>4. Fields(t, d)[n] = FieldAt(t, d, s)
  BY <1>1, <1>3 DEF Fields
<1> QED
  BY <1>1, <1>4, FieldEnds

LEMMA SubSeqGrows ==
  ASSUME NEW C, NEW t \in Seq(C), NEW s \in 1 .. Len(t), NEW i \in s - 1 .. Len(t) - 1
  PROVE  Append(SubSeq(t, s, i), t[i + 1]) = SubSeq(t, s, i + 1)
<1>1. s \in 1 .. Len(t) /\ i + 1 \in s .. Len(t) /\ i + 1 - 1 = i /\ i \in Int
  OBVIOUS
<1>2. SubSeq(t, s, i + 1) = SubSeq(t, s, i + 1 - 1) \o <<t[i + 1]>>
  BY <1>1, SubSeqRecursiveSecond
<1>3. SubSeq(t, s, i) \in Seq(C) /\ t[i + 1] \in C
  <2>1. \A k \in s .. i : t[k] \in C
    OBVIOUS
  <2> QED
    BY <1>1, <2>1, SubSeqProperties
<1>4. SubSeq(t, s, i) \o <<t[i + 1]>> = Append(SubSeq(t, s, i), t[i + 1])
  <2> DEFINE a == SubSeq(t, s, i)
             x == t[i + 1]
  <2> HIDE DEF a, x
  <2>1. a \in Seq(C) /\ x \in C
    BY <1>3 DEF a, x
  <2>2. a \o <<x>> = Append(a, x)
    BY <2>1
  <2> QED
    BY <2>2 DEF a, x
<1> QED
  BY <1>1, <1>2, <1>4

LEMMA ConcatGrows ==
  ASSUME NEW C, NEW a \in Seq(C), NEW b \in Seq(C), NEW x \in C
  PROVE  /\ a \o Append(b, x) = Append(a \o b, x)
         /\ (a \o b) \o <<x>> = Append(a \o b, x)
OBVIOUS

-----------------------------------------------------------------------------
(* The steps of the walk. *)

LEMMA InBounds ==
  ASSUME ChainInv
  PROVE  /\ text \in Seq(Char) /\ Len(text) \in Nat
         /\ iter \in Nat /\ iter <= Len(text) + 1
         /\ link \in Seq(Char) /\ chunk \in Seq(Char) /\ links \in Seq(Seq(Char))
         /\ Len(link) \in Nat /\ Len(chunk) \in Nat /\ Len(links) \in Nat
         /\ room \in Nat /\ room >= 3 /\ Len(link) < room
         /\ Len(chunk) < ChunkSize /\ ChunkSize \in Nat /\ ChunkSize >= 2
         /\ Starts(text, delims) \subseteq Int
<1>1. ChainTypes /\ LinkRoom
  BY DEF ChainInv
<1>2. text \in Seq(Char) /\ Len(text) \in Nat
  BY <1>1, TextTyped
<1>3. Starts(text, delims) \subseteq Int
  BY <1>2 DEF Starts
<1> QED
  BY <1>1, <1>2, <1>3, ChainAssumption DEF ChainTypes, ChainTypeOK, LinkRoom, LinkFits

LEMMA ChainInitHolds == ChainInit => ChainInv
<1> SUFFICES ASSUME ChainInit PROVE ChainInv
  OBVIOUS
<1>1. ChainTypes
  <2>1. Len(text) \in Nat
    <3>1. PICK n \in 0 .. MaxLen : text \in [1 .. n -> Char]
      BY DEF ChainInit, BoundedStrings
    <3> QED
      BY <3>1, ChainAssumption
  <2> QED
    BY <2>1, ChainAssumption DEF ChainInit, ChainTypes, ChainTypeOK
<1>2. LinkRoom
  BY ChainAssumption DEF ChainInit, LinkRoom, LinkFits
<1>3. WalkOK
  BY DEF ChainInit, WalkOK
<1> QED
  BY <1>1, <1>2, <1>3 DEF ChainInv

LEMMA ChainStartKeeps ==
  ASSUME ChainInv, NEW d \in SUBSET Char, ChainStart(d)
  PROVE  ChainInv'
<1>1. ChainTypes'
  <2>1. /\ delims' = d /\ iter' = 0 /\ cpc' = "skip" /\ links' = <<>>
        /\ UNCHANGED <<text, link, room, chunk>>
    BY DEF ChainStart
  <2>2. ChainTypeOK /\ chunk \in Seq(Char)
    BY DEF ChainInv, ChainTypes
  <2>3. 0 \in 0 .. Len(text) + 1 /\ <<>> \in Seq(Seq(Char))
    BY InBounds
  <2>4. ChainTypeOK'
    BY <2>1, <2>2, <2>3 DEF ChainTypeOK
  <2> QED
    BY <2>1, <2>2, <2>3, <2>4 DEF ChainTypes
<1>2. LinkRoom'
  BY DEF ChainInv, LinkRoom, LinkFits, ChainStart
<1>3. /\ cpc' = "skip" /\ iter' = 0 /\ links' = <<>> /\ text' = text /\ delims' = d
  BY DEF ChainStart
<1>4. Seen(0)'
  <2>1. StartsUpTo(text, d, 0) = {}
    BY InBounds DEF StartsUpTo, Starts
  <2>2. Cardinality({}) = 0
    BY FS_EmptySet
  <2> QED
    BY <1>3, <2>1, <2>2 DEF Seen
<1>5. WalkOK'
  <2>1. Seen(iter)'
    BY <1>3, <1>4
  <2> QED
    BY <1>3, <2>1, InBounds DEF WalkOK
<1> QED
  BY <1>1, <1>2, <1>5 DEF ChainInv

LEMMA SkipDelimiterKeeps ==
  ASSUME ChainInv, SkipDelimiter
  PROVE  ChainInv'
<1>1. /\ cpc = "skip" /\ iter < Len(text) /\ text[iter + 1] \in delims
      /\ iter' = iter + 1 /\ cpc' = "skip"
      /\ UNCHANGED <<text, delims, link, room, chunk, links>>
  BY DEF SkipDelimiter
<1>2. ChainTypes'
  BY <1>1, InBounds DEF ChainInv, ChainTypes, ChainTypeOK
<1>3. LinkRoom'
  BY <1>1 DEF ChainInv, LinkRoom, LinkFits
<1>4. Seen(iter)
  BY <1>1 DEF ChainInv, WalkOK
<1>5. StartsUpTo(text, delims, iter + 1) = StartsUpTo(text, delims, iter)
  <2>1. \A k \in iter + 1 .. iter + 1 : k \notin Starts(text, delims)
    BY <1>1, InBounds DEF Starts
  <2>2. /\ iter \in Int /\ iter + 1 \in Int /\ iter <= iter + 1
        /\ Starts(text, delims) \subseteq Int
    BY InBounds
  <2> QED
    BY <2>1, <2>2, NoStartBetween
<1>6. Seen(iter)'
  BY <1>1, <1>4, <1>5 DEF Seen
<1>7. WalkOK'
  BY <1>1, <1>6, InBounds DEF WalkOK
<1> QED
  BY <1>2, <1>3, <1>7 DEF ChainInv

LEMMA SkippedToEndKeeps ==
  ASSUME ChainInv, SkippedToEnd
  PROVE  ChainInv'
<1>1. /\ cpc = "skip" /\ iter >= Len(text) /\ link' = <<>>
      /\ iter' = Len(text) + 1 /\ cpc' = "returned"
      /\ UNCHANGED <<text, delims, room, chunk, links>>
  BY DEF SkippedToEnd
<1>2. ChainTypes'
  BY <1>1, InBounds DEF ChainInv, ChainTypes, ChainTypeOK
<1>3. LinkRoom'
  BY <1>1, InBounds DEF LinkRoom, LinkFits
<1>4. Seen(iter) /\ iter = Len(text)
  BY <1>1, InBounds DEF ChainInv, WalkOK
<1>5. Seen(Len(text))'
  BY <1>1, <1>4 DEF Seen
<1>6. AtEnd'
  BY <1>1, InBounds DEF AtEnd
<1>7. WalkOK'
  BY <1>1, <1>5, <1>6 DEF WalkOK
<1> QED
  BY <1>2, <1>3, <1>7 DEF ChainInv

LEMMA SkippedKeeps ==
  ASSUME ChainInv, Skipped
  PROVE  ChainInv'
<1>1. /\ cpc = "skip" /\ iter < Len(text) /\ text[iter + 1] \notin delims
      /\ link' = <<>> /\ chunk' = <<>> /\ cpc' = "gather"
      /\ UNCHANGED <<text, delims, iter, room, links>>
  BY DEF Skipped
<1>2. ChainTypes'
  BY <1>1, InBounds DEF ChainInv, ChainTypes, ChainTypeOK
<1>3. LinkRoom'
  BY <1>1, InBounds DEF LinkRoom, LinkFits
<1>4. Seen(iter) /\ (iter = 0 \/ text[iter] \in delims)
  BY <1>1, InBounds DEF ChainInv, WalkOK, FieldOver
<1>5. PICK s : s = iter + 1
  OBVIOUS
<1>6. s \in 1 .. Len(text) /\ s - 1 = iter /\ s - 1 \in Int /\ s \in Int
  BY <1>1, <1>5, InBounds
<1>7. s \in Starts(text, delims)
  BY <1>1, <1>4, <1>5, <1>6 DEF Starts
<1>8. Gathering(s)'
  <2>1. Seen(s - 1)'
    BY <1>1, <1>4, <1>6 DEF Seen
  <2>2. \A k \in s .. iter : text[k] \notin delims
    BY <1>5, InBounds
  <2>3. Inside(s)'
    BY <1>1, <1>7, <2>1, <2>2, InBounds DEF Inside
  <2>4. SubSeq(text, s, iter) = <<>>
    <3>1. text \in Seq(Char) /\ iter \in Int
      BY InBounds
    <3>2. s > iter
      BY <1>5, <3>1
    <3> QED
      BY <1>6, <3>1, <3>2, SubSeqEmpty
  <2>5. (link \o chunk)' = <<>>
    <3>1. link' \o chunk' = <<>> \o <<>>
      BY <1>1
    <3>2. <<>> \o <<>> = <<>>
      OBVIOUS
    <3> QED
      BY <3>1, <3>2
  <2> QED
    BY <1>1, <1>6, <2>3, <2>4, <2>5, InBounds DEF Gathering
<1>9. WalkOK'
  BY <1>1, <1>6, <1>8 DEF WalkOK
<1> QED
  BY <1>2, <1>3, <1>9 DEF ChainInv

LEMMA GrowLinkKeeps ==
  ASSUME ChainInv, GrowLink
  PROVE  ChainInv'
<1>1. /\ cpc = "gather" /\ room' = (14 * room) \div 10
      /\ UNCHANGED <<text, delims, iter, link, chunk, cpc, links>>
  BY DEF GrowLink
<1>2. room' \in Nat /\ room' >= room
  BY <1>1, InBounds
<1>3. ChainTypes'
  BY <1>1, <1>2 DEF ChainInv, ChainTypes, ChainTypeOK
<1>4. LinkRoom'
  BY <1>1, <1>2, InBounds DEF LinkRoom, LinkFits
<1>5. WalkOK'
  BY <1>1 DEF ChainInv, WalkOK, Gathering, Inside, Seen
<1> QED
  BY <1>3, <1>4, <1>5 DEF ChainInv

(* A chunk is only copied to where there is room for it. *)
LEMMA ConcatFits ==
  ASSUME ChainInv, ConcatChunk, UNCHANGED room
  PROVE  link' \in Seq(Char) /\ Len(link') = Len(link) + Len(chunk) /\ LinkRoom'
<1>1. link' = link \o chunk /\ Len(link) + Len(chunk) + 1 < room
  BY InBounds DEF ConcatChunk, NeedsRoom
<1>2. link \o chunk \in Seq(Char) /\ Len(link \o chunk) = Len(link) + Len(chunk)
  BY InBounds, ConcatProperties
<1> QED
  BY <1>1, <1>2, InBounds DEF LinkRoom, LinkFits

(* What was gathered is a field when the text is over, or a delimiter      *)
(* follows.                                                                *)
LEMMA LinkIsFieldNow ==
  ASSUME ChainInv, cpc = "gather", FieldOver, iter >= Len(text) \/ chunk # <<>>,
         ConcatChunk, cpc' = "returned", iter' = iter,
         UNCHANGED <<text, delims, room, chunk, links>>
  PROVE  ChainInv'
<1>1. PICK s \in 1 .. Len(text) : Gathering(s)
  BY DEF ChainInv, WalkOK
<1>2. /\ Inside(s) /\ iter >= s - 1 /\ (chunk = <<>> => iter = s - 1)
      /\ link \o chunk = SubSeq(text, s, iter)
  BY <1>1 DEF Gathering
<1>3. iter <= Len(text) /\ s \in Int /\ s <= Len(text)
  BY <1>2, InBounds DEF Inside
<1>4. iter >= s
  <2>1. CASE iter >= Len(text)
    BY <1>3, <2>1, InBounds
  <2>2. CASE chunk # <<>>
    <3>1. Len(chunk) > 0
      BY <2>2, InBounds, EmptySeq
    <3>2. Len(SubSeq(text, s, iter)) > 0
      <4>1. Len(link \o chunk) = Len(link) + Len(chunk)
        BY InBounds, ConcatProperties
      <4> QED
        BY <1>2, <3>1, <4>1, InBounds
    <3>3. ~(iter < s)
      <4> SUFFICES ASSUME iter < s PROVE FALSE
        OBVIOUS
      <4>1. SubSeq(text, s, iter) = <<>>
        BY <1>3, SubSeqEmpty, InBounds
      <4>2. Len(<<>>) = 0
        OBVIOUS
      <4> QED
        BY <3>2, <4>1, <4>2
    <3> QED
      BY <1>3, <3>3, InBounds
  <2> QED
    BY <2>1, <2>2
<1>5. LinkIsField(s)'
  <2>1. Inside(s)'
    BY <1>2 DEF Inside, Seen
  <2>2. link' = SubSeq(text, s, iter)
    BY <1>2 DEF ConcatChunk
  <2>3. FieldOver'
    BY DEF FieldOver
  <2> QED
    BY <1>4, <2>1, <2>2, <2>3 DEF LinkIsField
<1>6. ~AtEnd'
  BY <1>3, InBounds DEF AtEnd
<1>7. WalkOK'
  BY <1>5, <1>6 DEF WalkOK
<1>8. ChainTypes'
  BY ConcatFits DEF ChainInv, ChainTypes, ChainTypeOK
<1> QED
  BY <1>7, <1>8, ConcatFits DEF ChainInv

LEMMA LinkEndsKeeps ==
  ASSUME ChainInv, LinkEnds
  PROVE  ChainInv'
<1>1. /\ cpc = "gather" /\ iter < Len(text)
      /\ text[iter + 1] \in delims /\ chunk # <<>>
      /\ ConcatChunk /\ cpc' = "returned"
      /\ UNCHANGED <<text, delims, iter, room, chunk, links>>
  BY DEF LinkEnds, Gathers
<1>2. FieldOver
  BY <1>1 DEF FieldOver
<1> QED
  BY <1>1, <1>2, LinkIsFieldNow

LEMMA GatheredToEndKeeps ==
  ASSUME ChainInv, GatheredToEnd
  PROVE  ChainInv'
<1>1. /\ cpc = "gather" /\ iter >= Len(text) /\ iter' = Len(text)
      /\ ConcatChunk /\ cpc' = "returned"
      /\ UNCHANGED <<text, delims, room, chunk, links>>
  BY DEF GatheredToEnd
<1>2. iter <= Len(text)
  BY <1>1, InBounds DEF ChainInv, WalkOK, Gathering, Inside
<1>3. FieldOver /\ iter' = iter
  BY <1>1, <1>2, InBounds DEF FieldOver
<1> QED
  BY <1>1, <1>3, LinkIsFieldNow

LEMMA GatherKeeps ==
  ASSUME ChainInv, Gather
  PROVE  ChainInv'
<1> DEFINE c == text[iter + 1]
<1>1. /\ cpc = "gather" /\ iter < Len(text) /\ (c \notin delims \/ chunk = <<>>)
      /\ iter' = iter + 1
      /\ UNCHANGED <<text, delims, room, cpc, links>>
  BY DEF Gather, Gathers
<1>2. c \in Char
  BY <1>1, InBounds
<1>3. PICK s \in 1 .. Len(text) : Gathering(s)
  BY <1>1 DEF ChainInv, WalkOK
<1>4. /\ Inside(s) /\ iter >= s - 1 /\ (chunk = <<>> => iter = s - 1)
      /\ link \o chunk = SubSeq(text, s, iter)
  BY <1>3 DEF Gathering
<1>5. s \in Int /\ s >= 1 /\ iter + 1 <= Len(text) /\ iter + 1 \in Nat /\ iter \in s - 1 .. Len(text) - 1
  <2>1. iter \in Nat /\ Len(text) \in Nat
    BY InBounds
  <2>2. s \in 1 .. Len(text)
    OBVIOUS
  <2>3. iter >= s - 1 /\ iter < Len(text)
    BY <1>1, <1>4
  <2> QED
    BY <2>1, <2>2, <2>3
<1>6. c \notin delims
  <2>1. CASE chunk = <<>>
    BY <1>4, <1>5, <2>1, InBounds DEF Inside, Starts
  <2> QED
    BY <1>1, <2>1
<1>7. /\ link' \in Seq(Char) /\ chunk' \in Seq(Char) /\ chunk' # <<>>
      /\ Len(chunk') < ChunkSize /\ LinkRoom'
      /\ link' \o chunk' = Append(link \o chunk, c)
  <2>1. CASE Full
    <3>1. ConcatChunk /\ chunk' = <<c>>
      BY <2>1 DEF Gather
    <3>2. link' = link \o chunk
      BY <3>1 DEF ConcatChunk
    <3>3. (link \o chunk) \o <<c>> = Append(link \o chunk, c)
      BY <1>2, ConcatGrows, InBounds
    <3> HIDE DEF c
    <3>4. <<c>> \in Seq(Char) /\ <<c>> # <<>> /\ Len(<<c>>) = 1
      BY <1>2
    <3>5. link' \in Seq(Char) /\ LinkRoom'
      BY <1>1, <3>1, ConcatFits
    <3>6. Len(chunk') < ChunkSize
      BY <3>1, <3>4, InBounds
    <3>7. link' \o chunk' = Append(link \o chunk, c)
      BY <3>1, <3>2, <3>3
    <3> QED
      BY <3>1, <3>4, <3>5, <3>6, <3>7
  <2>2. CASE ~Full
    <3>1. link' = link /\ chunk' = Append(chunk, c)
      BY <2>2 DEF Gather
    <3>2. link \o Append(chunk, c) = Append(link \o chunk, c)
      <4>1. link \in Seq(Char) /\ chunk \in Seq(Char)
        BY InBounds
      <4> QED
        BY <1>2, <4>1, ConcatGrows
    <3> HIDE DEF c
    <3>3. /\ Append(chunk, c) \in Seq(Char) /\ Append(chunk, c) # <<>>
          /\ Len(Append(chunk, c)) = Len(chunk) + 1
      <4>1. chunk \in Seq(Char)
        BY InBounds
      <4> QED
        BY <1>2, <4>1, AppendProperties
    <3>4. Len(chunk) + 1 < ChunkSize
      BY <2>2, InBounds DEF Full
    <3>5. LinkRoom'
      BY <1>1, <3>1 DEF ChainInv, LinkRoom, LinkFits
    <3> QED
      BY <3>1, <3>2, <3>3, <3>4, <3>5, InBounds
  <2> QED
    BY <2>1, <2>2
<1>8. Gathering(s)'
  <2>1. Append(SubSeq(text, s, iter), c) = SubSeq(text, s, iter + 1)
    BY <1>5, SubSeqGrows, InBounds
  <2>2. (link \o chunk)' = SubSeq(text, s, iter + 1)
    BY <1>4, <1>7, <2>1
  <2>3. Inside(s)'
    <3>1. ASSUME NEW k \in s .. iter + 1 PROVE text[k] \notin delims
      <4>1. CASE k = iter + 1
        BY <1>6, <4>1
      <4>2. CASE k # iter + 1
        <5>1. k \in s .. iter
          BY <1>5, <4>2, InBounds
        <5> QED
          BY <1>4, <5>1 DEF Inside
      <4> QED
        BY <4>1, <4>2
    <3>2. Seen(s - 1)'
      BY <1>1, <1>4 DEF Inside, Seen
    <3> QED
      BY <1>1, <1>4, <1>5, <3>1, <3>2 DEF Inside
  <2> HIDE DEF c
  <2> QED
    BY <1>1, <1>5, <1>7, <2>2, <2>3 DEF Gathering
<1>9. ChainTypes'
  <2> HIDE DEF c
  <2> QED
    <3>1. ChainTypeOK
      BY DEF ChainInv, ChainTypes
    <3>2. iter' \in 0 .. Len(text) + 1
      BY <1>1, <1>5, InBounds
    <3>3. link' \in Seq(Char) /\ room' \in Nat /\ Len(chunk') < ChunkSize
      BY <1>1, <1>7, InBounds
    <3>4. ChainTypeOK'
      BY <1>1, <3>1, <3>2, <3>3 DEF ChainTypeOK
    <3> QED
      BY <1>1, <1>7, <3>4 DEF ChainInv, ChainTypes
<1>10. WalkOK'
  BY <1>1, <1>8 DEF WalkOK
<1> QED
  BY <1>7, <1>9, <1>10 DEF ChainInv

LEMMA UseLinkKeeps ==
  ASSUME ChainInv, UseLink
  PROVE  ChainInv'
<1>1. cpc = "returned" /\ UNCHANGED <<text, delims, iter, link, room, chunk>>
  BY DEF UseLink
<1>2. LinkRoom'
  BY <1>1 DEF ChainInv, LinkRoom, LinkFits
<1>3. CASE AtEnd
  <2>1. cpc' = "done" /\ links' = links
    BY <1>3 DEF UseLink
  <2>2. Seen(Len(text))
    BY <1>1, <1>3 DEF ChainInv, WalkOK
  <2>3. Seen(Len(text))'
    BY <1>1, <2>1, <2>2 DEF Seen
  <2>4. WalkOK'
    BY <2>1, <2>3 DEF WalkOK
  <2>5. ChainTypes'
    BY <1>1, <2>1 DEF ChainInv, ChainTypes, ChainTypeOK
  <2> QED
    BY <1>2, <2>4, <2>5 DEF ChainInv
<1>4. CASE ~AtEnd
  <2>1. cpc' = "skip" /\ links' = Append(links, link)
    BY <1>4 DEF UseLink
  <2>2. PICK s \in 1 .. Len(text) : LinkIsField(s)
    BY <1>1, <1>4 DEF ChainInv, WalkOK
  <2>3. /\ s \in Starts(text, delims) /\ Seen(s - 1) /\ iter <= Len(text) /\ iter >= s
        /\ \A k \in s .. iter : text[k] \notin delims
        /\ link = SubSeq(text, s, iter) /\ FieldOver
    BY <2>2 DEF LinkIsField, Inside
  <2>4. s \in Int /\ s >= 1 /\ iter \in s .. Len(text)
    BY <2>3, InBounds
  <2>5. iter = Len(text) \/ text[iter + 1] \in delims
    BY <2>3 DEF FieldOver
  <2>6. /\ Cardinality(StartsUpTo(text, delims, s)) \in 1 .. Cardinality(Starts(text, delims))
        /\ Fields(text, delims)[Cardinality(StartsUpTo(text, delims, s))] = link
    BY <2>3, <2>4, <2>5, FieldIs, InBounds
  <2>7. StartsUpTo(text, delims, iter) = StartsUpTo(text, delims, s)
    <3>1. \A k \in s + 1 .. iter : k \notin Starts(text, delims)
      BY <2>3, <2>4, InBounds DEF Starts
    <3>2. s \in Int /\ iter \in Int /\ s <= iter /\ Starts(text, delims) \subseteq Int
      BY <2>4, InBounds
    <3> QED
      BY <3>1, <3>2, NoStartBetween
  <2>8. Cardinality(StartsUpTo(text, delims, s)) = Len(links) + 1
    <3>1. Cardinality(StartsUpTo(text, delims, s)) = Cardinality(StartsUpTo(text, delims, s - 1)) + 1
      BY <2>3, StartCounts, InBounds
    <3> QED
      BY <2>3, <3>1 DEF Seen
  <2>9. Seen(iter)'
    <3>1. Len(links') = Len(links) + 1
      BY <2>1, InBounds
    <3>2. ASSUME NEW k \in 1 .. Len(links) + 1
          PROVE  Append(links, link)[k] = Fields(text, delims)[k]
      <4>1. CASE k = Len(links) + 1
        BY <2>6, <2>8, <4>1, InBounds
      <4>2. CASE k # Len(links) + 1
        <5>1. k \in 1 .. Len(links)
          BY <4>2, InBounds
        <5>2. links[k] = Fields(text, delims)[k]
          BY <2>3, <5>1 DEF Seen
        <5>3. Append(links, link)[k] = links[k]
          BY <5>1, InBounds
        <5> QED
          BY <5>2, <5>3
      <4> QED
        BY <4>1, <4>2
    <3> QED
      BY <1>1, <2>1, <2>7, <2>8, <3>1, <3>2 DEF Seen
  <2>10. WalkOK'
    <3>1. FieldOver'
      BY <1>1, <2>3 DEF FieldOver
    <3> QED
      BY <1>1, <2>1, <2>3, <2>9, <3>1 DEF WalkOK
  <2>11. ChainTypes'
    BY <1>1, <2>1, InBounds DEF ChainInv, ChainTypes, ChainTypeOK
  <2> QED
    BY <1>2, <2>10, <2>11 DEF ChainInv
<1> QED
  BY <1>3, <1>4

LEMMA ChainNextKeeps == ChainInv /\ [ChainNext]_chainVars => ChainInv'
<1> SUFFICES ASSUME ChainInv, [ChainNext]_chainVars PROVE ChainInv'
  OBVIOUS
<1>1. CASE UNCHANGED chainVars
  BY <1>1 DEF chainVars, walk, ChainInv, ChainTypes, ChainTypeOK, LinkRoom, LinkFits, WalkOK,
              Gathering, LinkIsField, Inside, Seen, FieldOver, AtEnd
<1>2. CASE ChainNext
  BY <1>2, ChainStartKeeps, SkipDelimiterKeeps, SkippedToEndKeeps, SkippedKeeps, GrowLinkKeeps,
     LinkEndsKeeps, GatherKeeps, GatheredToEndKeeps, UseLinkKeeps DEF ChainNext
<1> QED
  BY <1>1, <1>2

LEMMA ChainInvSays == ChainInv => LinksAreFields /\ LinkFits /\ ChainTypeOK
<1> SUFFICES ASSUME ChainInv PROVE LinksAreFields
  BY DEF ChainInv, ChainTypes, LinkRoom
<1>1. Len(Fields(text, delims)) = Cardinality(Starts(text, delims))
  <2>1. Cardinality(Starts(text, delims)) \in Nat
    BY InBounds, StartsFinite
  <2> DEFINE n == Cardinality(Starts(text, delims))
  <2>2. Fields(text, delims) = [k \in 1 .. n |-> Fields(text, delims)[k]]
    BY DEF Fields
  <2> HIDE DEF n
  <2>3. n \in Nat
    BY <2>1 DEF n
  <2> QED
    BY <2>2, <2>3 DEF n
<1>2. ASSUME NEW n, Seen(n)
      PROVE  /\ Len(links) <= Len(Fields(text, delims))
             /\ \A k \in 1 .. Len(links) : links[k] = Fields(text, delims)[k]
  BY <1>1, <1>2, InBounds, StartsFinite DEF Seen
<1>3. CASE cpc = "new"
  <2>1. links = <<>>
    BY <1>3 DEF ChainInv, WalkOK
  <2>2. Len(links) = 0
    BY <2>1
  <2>3. Cardinality(Starts(text, delims)) \in Nat
    BY InBounds, StartsFinite
  <2> QED
    BY <1>1, <1>3, <2>2, <2>3 DEF LinksAreFields
<1>4. CASE cpc = "done"
  <2>1. Seen(Len(text))
    BY <1>4 DEF ChainInv, WalkOK
  <2>2. StartsUpTo(text, delims, Len(text)) = Starts(text, delims)
    BY InBounds DEF Starts, StartsUpTo
  <2> QED
    BY <1>1, <1>2, <2>1, <2>2 DEF Seen, LinksAreFields
<1>5. CASE cpc = "skip"
  <2>1. Seen(iter)
    BY <1>5 DEF ChainInv, WalkOK
  <2> QED
    BY <1>2, <1>5, <2>1 DEF LinksAreFields
<1>6. CASE cpc = "gather"
  <2>1. PICK s \in 1 .. Len(text) : Seen(s - 1)
    BY <1>6 DEF ChainInv, WalkOK, Gathering, Inside
  <2> QED
    BY <1>2, <1>6, <2>1 DEF LinksAreFields
<1>7. CASE cpc = "returned"
  <2>1. CASE AtEnd
    <3>1. Seen(Len(text))
      BY <1>7, <2>1 DEF ChainInv, WalkOK
    <3> QED
      BY <1>2, <1>7, <3>1 DEF LinksAreFields
  <2>2. CASE ~AtEnd
    <3>1. PICK s \in 1 .. Len(text) : Seen(s - 1)
      BY <1>7, <2>2 DEF ChainInv, WalkOK, LinkIsField, Inside
    <3> QED
      BY <1>2, <1>7, <3>1 DEF LinksAreFields
  <2> QED
    BY <2>1, <2>2
<1>8. cpc \in {"new", "skip", "gather", "returned", "done"}
  BY DEF ChainInv, ChainTypes, ChainTypeOK
<1> QED
  BY <1>3, <1>4, <1>5, <1>6, <1>7, <1>8

-----------------------------------------------------------------------------
(* The results. *)

(* The walk of a text of any length, with any delimiters and any sizes of  *)
(* the chunk and of what is allocated: the invariant is inductive.         *)
THEOREM ChainInvariant == ChainSpec => []ChainInv
<1> QED
  BY ChainInitHolds, ChainNextKeeps, PTL DEF ChainSpec

(* A link never outgrows its memory, however many chunks are appended. *)
THEOREM LinkAlwaysFits == ChainSpec => []LinkFits
<1> QED
  BY ChainInvSays, ChainInvariant, PTL

(* The links are the fields of the text, one after the other, and all of   *)
(* them when the walk is over.                                             *)
THEOREM LinksFollowText == ChainSpec => []LinksAreFields
<1> QED
  BY ChainInvSays, ChainInvariant, PTL

-----------------------------------------------------------------------------
(* The temporaries: the inductive invariant, of the thread t. *)

Held == [at : 0 .. Calls - 1, text : Text]

PoolTypes(t) ==
  /\ tempVals \in [0 .. Calls - 1 -> Text \cup {Nothing}]
  /\ tempIter \in 0 .. Calls
  /\ tpc \in [Thread -> {"out", "wrap", "load", "store", "fill", "use"}]
  /\ slot \in [Thread -> 0 .. Calls]
  /\ given \in [Thread -> Text \cup {Nothing}]
  /\ tpc[t] # "out" => given[t] \in Text
  /\ DOMAIN held = Thread
  /\ held[t] \in Seq(Held) /\ Len(held[t]) <= Calls

(* The entry d places before the first one of the pool is the d-th last.   *)
Place(d) == IF d >= 0 THEN d ELSE d + Calls

(* The strings that are held are the last ones before entry i, in their    *)
(* order, round the pool.                                                  *)
EndsBefore(h, i) == \A k \in 1 .. Len(h) : h[k].at = Place(i - (Len(h) + 1 - k))

Texts(h, s) == \A k \in 1 .. Len(h) : h[k].at # s => tempVals[h[k].at] = h[k].text

Before == {"out", "wrap", "load", "store", "fill"}

PoolRound(t) ==
  /\ tpc[t] \in {"out", "wrap", "load", "store"} => EndsBefore(held[t], tempIter)
  /\ tpc[t] \in {"load", "store"} => tempIter < Calls
  /\ tpc[t] = "store" => slot[t] = tempIter
  /\ tpc[t] \in {"fill", "use"} =>
       slot[t] < Calls /\ tempIter = slot[t] + 1 /\ EndsBefore(held[t], slot[t])

PoolTexts(t) ==
  /\ tpc[t] \in Before => Texts(held[t], Calls)
  /\ tpc[t] = "use" => tempVals[slot[t]] = given[t] /\ Texts(held[t], slot[t])

TempInv(t) == PoolTypes(t) /\ PoolRound(t) /\ PoolTexts(t)

-----------------------------------------------------------------------------

LEMMA CallsNat == Calls \in Nat /\ Calls >= 1
BY TempAssumption

(* Wrapping round changes the number of the next entry, not its place. *)
LEMMA EndsBeforeWrapped ==
  ASSUME NEW h \in Seq(Held), Len(h) <= Calls, EndsBefore(h, Calls)
  PROVE  EndsBefore(h, 0)
<1> SUFFICES ASSUME NEW k \in 1 .. Len(h)
             PROVE  h[k].at = Place(0 - (Len(h) + 1 - k))
  BY DEF EndsBefore
<1>1. Len(h) \in Nat /\ h[k].at = Place(Calls - (Len(h) + 1 - k))
  BY DEF EndsBefore
<1> QED
  BY <1>1, CallsNat DEF Place

(* The next string joins the ones that are held; if these were all of the  *)
(* pool, the first of them was in its place.                               *)
LEMMA HeldNext ==
  ASSUME NEW h \in Seq(Held), Len(h) <= Calls, NEW s \in 0 .. Calls - 1,
         EndsBefore(h, s), NEW x \in Text, tempVals[s] = x, Texts(h, s),
         NEW n, n = LET all == Append(h, [at |-> s, text |-> x])
                    IN  IF Len(all) > Calls THEN Tail(all) ELSE all
  PROVE  /\ n \in Seq(Held) /\ Len(n) <= Calls
         /\ EndsBefore(n, s + 1) /\ Texts(n, Calls)
<1> DEFINE e   == [at |-> s, text |-> x]
           all == Append(h, e)
           L   == Len(h)
<1>1. e \in Held /\ e.at = s /\ e.text = x
  BY DEF Held
<1>2. /\ L \in Nat /\ L <= Calls
      /\ \A k \in 1 .. L : /\ h[k] \in Held /\ h[k].at = Place(s - (L + 1 - k))
                           /\ h[k].at \in 0 .. Calls - 1
  <2>1. \A k \in 1 .. L : h[k] \in Held
    OBVIOUS
  <2> QED
    BY <2>1 DEF EndsBefore, Held
<1> HIDE DEF e
<1>3. /\ all \in Seq(Held) /\ Len(all) = L + 1 /\ all # <<>>
      /\ \A k \in 1 .. L : all[k] = h[k]
      /\ all[L + 1] = e
  BY <1>1, AppendProperties
<1>4. n = IF L + 1 > Calls THEN Tail(all) ELSE all
  BY <1>3 DEF e
<1>0. L \in Nat /\ L <= Calls /\ Calls \in Nat /\ s \in Nat
  BY <1>2, CallsNat
<1> HIDE DEF all, L
<1>5. \A k \in 1 .. L + 1 : all[k].at = Place(s - (L + 1 - k))
  <2> TAKE k \in 1 .. L + 1
  <2>1. CASE k = L + 1
    BY <1>1, <1>2, <1>3, <2>1 DEF Place
  <2>2. CASE k # L + 1
    <3>1. k \in 1 .. L
      BY <1>2, <2>2
    <3> QED
      BY <1>2, <1>3, <3>1
  <2> QED
    BY <2>1, <2>2
<1>6. \A k \in 1 .. L + 1 :
        \/ k = 1 /\ L = Calls
        \/ all[k] \in Held /\ all[k].at \in 0 .. Calls - 1 /\ tempVals[all[k].at] = all[k].text
  <2> TAKE k \in 1 .. L + 1
  <2>1. CASE k = L + 1
    BY <1>1, <1>3, <2>1
  <2>2. CASE k # L + 1
    <3>1. k \in 1 .. L /\ k \in Nat
      BY <1>2, <2>2
    <3>2. /\ all[k] = h[k] /\ h[k] \in Held /\ h[k].at \in 0 .. Calls - 1
          /\ h[k].at = Place(s - (L + 1 - k))
      BY <1>2, <1>3, <3>1
    <3>3. CASE h[k].at = s
      <4>1. k = 1 /\ L = Calls
        BY <1>2, <3>1, <3>2, <3>3, CallsNat DEF Place
      <4> QED
        BY <4>1
    <3>4. CASE h[k].at # s
      <4>1. tempVals[h[k].at] = h[k].text
        BY <3>1, <3>4 DEF Texts, L
      <4> QED
        BY <3>2, <4>1
    <3> QED
      BY <3>3, <3>4
  <2> QED
    BY <2>1, <2>2
<1>7. CASE L + 1 > Calls
  <2>1. L = Calls /\ n = Tail(all)
    <3>1. L = Calls
      BY <1>0, <1>7
    <3> QED
      BY <1>4, <1>7, <3>1
  <2>2. /\ n \in Seq(Held) /\ Len(n) = L /\ \A k \in 1 .. L : n[k] = all[k + 1]
    <3>1. /\ Tail(all) \in Seq(Held) /\ Len(Tail(all)) = Len(all) - 1
          /\ \A k \in 1 .. Len(Tail(all)) : Tail(all)[k] = all[k + 1]
      BY <1>3, HeadTailProperties
    <3>2. Len(all) - 1 = L
      BY <1>2, <1>3
    <3> QED
      BY <2>1, <3>1, <3>2
  <2>3. \A k \in 1 .. L :
          /\ k + 1 \in 1 .. L + 1 /\ k + 1 # 1
          /\ s - (L + 1 - (k + 1)) = (s + 1) - (L + 1 - k)
    BY <1>0
  <2>4. EndsBefore(n, s + 1)
    <3> SUFFICES ASSUME NEW k \in 1 .. Len(n)
                 PROVE  n[k].at = Place((s + 1) - (Len(n) + 1 - k))
      BY DEF EndsBefore
    <3>1. k \in 1 .. L /\ n[k] = all[k + 1] /\ Len(n) = L
      BY <2>2
    <3>2. all[k + 1].at = Place(s - (L + 1 - (k + 1)))
      BY <1>5, <2>3, <3>1
    <3>3. s - (L + 1 - (k + 1)) = (s + 1) - (L + 1 - k)
      BY <2>3, <3>1
    <3> QED
      BY <3>1, <3>2, <3>3
  <2>5. Texts(n, Calls)
    <3> SUFFICES ASSUME NEW k \in 1 .. L
                 PROVE  tempVals[n[k].at] = n[k].text
      BY <2>2 DEF Texts
    <3>1. k + 1 \in 1 .. L + 1 /\ k + 1 # 1 /\ n[k] = all[k + 1]
      BY <2>2, <2>3
    <3> QED
      BY <1>6, <3>1
  <2> QED
    BY <2>1, <2>2, <2>4, <2>5, CallsNat
<1>8. CASE ~(L + 1 > Calls)
  <2>1. n = all /\ L # Calls /\ L + 1 <= Calls
    <3>1. L # Calls /\ L + 1 <= Calls
      BY <1>0, <1>8
    <3> QED
      BY <1>4, <1>8, <3>1
  <2>2. EndsBefore(n, s + 1)
    <3> SUFFICES ASSUME NEW k \in 1 .. Len(n)
                 PROVE  n[k].at = Place((s + 1) - (Len(n) + 1 - k))
      BY DEF EndsBefore
    <3>1. k \in 1 .. L + 1 /\ Len(n) = L + 1
      BY <1>3, <2>1
    <3>2. all[k].at = Place(s - (L + 1 - k))
      BY <1>5, <3>1
    <3>3. (s + 1) - (L + 1 + 1 - k) = s - (L + 1 - k)
      BY <1>0, <3>1
    <3> QED
      BY <2>1, <3>1, <3>2, <3>3
  <2>3. Texts(n, Calls)
    BY <1>3, <1>6, <2>1 DEF Texts
  <2> QED
    BY <1>3, <2>1, <2>2, <2>3
<1> QED
  BY <1>7, <1>8

-----------------------------------------------------------------------------
(* Every step of a call keeps the invariant. *)

LEMMA TempInitHolds ==
  ASSUME NEW CONSTANT t, Thread = {t}, TempInit
  PROVE  TempInv(t)
<1>1. PoolTypes(t)
  <2>1. held[t] = <<>> /\ <<>> \in Seq(Held) /\ Len(<<>>) = 0
    BY EmptySeq DEF TempInit
  <2> QED
    BY <2>1, CallsNat DEF TempInit, PoolTypes
<1>2. PoolRound(t) /\ PoolTexts(t)
  <2>1. held[t] = <<>> /\ Len(<<>>) = 0 /\ tpc[t] = "out"
    BY DEF TempInit
  <2> QED
    BY <2>1 DEF PoolRound, PoolTexts, EndsBefore, Texts
<1> QED
  BY <1>1, <1>2 DEF TempInv

LEMMA CastKeeps ==
  ASSUME NEW CONSTANT t, Thread = {t}, TempInv(t), NEW s \in Text, Cast(t, s)
  PROVE  TempInv(t)'
<1>1. PoolTypes(t)'
  BY DEF TempInv, PoolTypes, Cast
<1>2. tpc[t] = "out" /\ tpc'[t] = "wrap" /\ UNCHANGED <<tempVals, tempIter, slot, held>>
  BY DEF TempInv, PoolTypes, Cast
<1>3. PoolRound(t)'
  BY <1>2 DEF TempInv, PoolRound, EndsBefore
<1>4. PoolTexts(t)'
  BY <1>2 DEF TempInv, PoolTexts, Before, Texts
<1> QED
  BY <1>1, <1>3, <1>4 DEF TempInv

LEMMA WrapKeeps ==
  ASSUME NEW CONSTANT t, Thread = {t}, TempInv(t), Wrap(t)
  PROVE  TempInv(t)'
<1>1. /\ tpc[t] = "wrap" /\ tpc'[t] = "load" /\ UNCHANGED <<tempVals, slot, given, held>>
      /\ tempIter' = IF tempIter >= Calls THEN 0 ELSE tempIter
      /\ tpc' = [tpc EXCEPT ![t] = "load"]
  BY DEF TempInv, PoolTypes, Wrap
<1>2. tempIter \in 0 .. Calls /\ held[t] \in Seq(Held) /\ Len(held[t]) <= Calls
  BY DEF TempInv, PoolTypes
<1>3. tempIter' \in 0 .. Calls - 1
  BY <1>1, <1>2, CallsNat
<1>4. PoolTypes(t)'
  BY <1>1, <1>3, CallsNat DEF TempInv, PoolTypes
<1>5. EndsBefore(held[t], tempIter')
  <2>1. EndsBefore(held[t], tempIter)
    BY <1>1 DEF TempInv, PoolRound
  <2>2. CASE tempIter = Calls
    <3>1. tempIter' = 0
      BY <1>1, <2>2, CallsNat
    <3>2. EndsBefore(held[t], Calls)
      BY <2>1, <2>2
    <3> QED
      BY <1>2, <3>1, <3>2, EndsBeforeWrapped
  <2>3. CASE tempIter # Calls
    <3>1. tempIter' = tempIter
      BY <1>1, <1>2, <2>3, CallsNat
    <3> QED
      BY <2>1, <3>1
  <2> QED
    BY <2>2, <2>3
<1>6. PoolRound(t)'
  <2>1. tempIter' < Calls
    BY <1>3, CallsNat
  <2>2. EndsBefore(held[t], tempIter)'
    BY <1>1, <1>5 DEF EndsBefore
  <2> QED
    BY <1>1, <2>1, <2>2 DEF PoolRound
<1>7. PoolTexts(t)'
  BY <1>1 DEF TempInv, PoolTexts, Before, Texts
<1> QED
  BY <1>4, <1>6, <1>7 DEF TempInv

LEMMA LoadIterKeeps ==
  ASSUME NEW CONSTANT t, Thread = {t}, TempInv(t), LoadIter(t)
  PROVE  TempInv(t)'
<1>1. PoolTypes(t)'
  BY DEF TempInv, PoolTypes, LoadIter
<1>2. /\ tpc[t] = "load" /\ tpc'[t] = "store" /\ slot'[t] = tempIter
      /\ UNCHANGED <<tempVals, tempIter, given, held>>
  BY DEF TempInv, PoolTypes, LoadIter
<1>3. PoolRound(t)'
  BY <1>2 DEF TempInv, PoolRound, EndsBefore
<1>4. PoolTexts(t)'
  BY <1>2 DEF TempInv, PoolTexts, Before, Texts
<1> QED
  BY <1>1, <1>3, <1>4 DEF TempInv

LEMMA StoreIterKeeps ==
  ASSUME NEW CONSTANT t, Thread = {t}, TempInv(t), StoreIter(t)
  PROVE  TempInv(t)'
<1>1. /\ tpc[t] = "store" /\ tpc'[t] = "fill" /\ tempIter' = slot[t] + 1
      /\ UNCHANGED <<tempVals, slot, given, held>> /\ tpc' = [tpc EXCEPT ![t] = "fill"]
  BY DEF TempInv, PoolTypes, StoreIter
<1>2. slot[t] = tempIter /\ tempIter < Calls /\ EndsBefore(held[t], tempIter)
  BY <1>1 DEF TempInv, PoolRound
<1>3. tempIter' \in 0 .. Calls
  BY <1>1, <1>2, CallsNat DEF TempInv, PoolTypes
<1>4. PoolTypes(t)'
  BY <1>1, <1>3 DEF TempInv, PoolTypes
<1>5. PoolRound(t)'
  <2>1. slot[t]' = slot[t] /\ slot[t] < Calls
    BY <1>1, <1>2
  <2>2. EndsBefore(held[t], slot[t])'
    BY <1>1, <1>2 DEF EndsBefore
  <2> QED
    BY <1>1, <2>1, <2>2 DEF PoolRound
<1>6. PoolTexts(t)'
  BY <1>1 DEF TempInv, PoolTexts, Before, Texts
<1> QED
  BY <1>4, <1>5, <1>6 DEF TempInv

LEMMA SetTextKeeps ==
  ASSUME NEW CONSTANT t, Thread = {t}, TempInv(t), SetText(t)
  PROVE  TempInv(t)'
<1>1. /\ tpc[t] = "fill" /\ slot[t] < Calls /\ slot[t] \in 0 .. Calls - 1
      /\ given[t] \in Text
  BY CallsNat DEF TempInv, PoolTypes, PoolRound, SetText
<1>2. /\ tempVals' = [tempVals EXCEPT ![slot[t]] = given[t]]
      /\ tpc' = [tpc EXCEPT ![t] = "use"] /\ UNCHANGED <<tempIter, slot, given, held>>
  BY <1>1 DEF SetText
<1>3. PoolTypes(t)'
  BY <1>1, <1>2 DEF TempInv, PoolTypes
<1>4. tpc'[t] = "use"
  BY <1>2 DEF TempInv, PoolTypes
<1>5. PoolRound(t)'
  BY <1>1, <1>2, <1>4 DEF TempInv, PoolRound, EndsBefore
<1>6. PoolTexts(t)'
  <2>1. /\ tempVals \in [0 .. Calls - 1 -> Text \cup {Nothing}]
        /\ Texts(held[t], Calls) /\ held[t] \in Seq(Held)
    BY <1>1 DEF TempInv, PoolTypes, PoolTexts, Before
  <2>2. ASSUME NEW k \in 1 .. Len(held[t]), held[t][k].at # slot[t]
        PROVE  tempVals'[held[t][k].at] = held[t][k].text
    <3>1. held[t][k].at \in 0 .. Calls - 1 /\ held[t][k].at # Calls
      <4>1. held[t][k] \in Held
        BY <2>1
      <4> QED
        BY <4>1, CallsNat DEF Held
    <3>2. tempVals[held[t][k].at] = held[t][k].text
      BY <2>1, <3>1 DEF Texts
    <3> QED
      BY <1>2, <2>1, <2>2, <3>1, <3>2
  <2>3. Texts(held[t], slot[t])'
    BY <1>2, <2>2 DEF Texts
  <2>4. tempVals'[slot[t]'] = given[t]'
    BY <1>1, <1>2, <2>1
  <2> QED
    BY <1>4, <2>3, <2>4 DEF PoolTexts, Before
<1> QED
  BY <1>3, <1>5, <1>6 DEF TempInv

LEMMA UseKeeps ==
  ASSUME NEW CONSTANT t, Thread = {t}, TempInv(t), Use(t)
  PROVE  TempInv(t)'
<1> DEFINE n == LET all == Append(held[t], [at |-> slot[t], text |-> given[t]])
                IN  IF Len(all) > Calls THEN Tail(all) ELSE all
<1>1. /\ tpc[t] = "use" /\ slot[t] \in 0 .. Calls - 1 /\ given[t] \in Text
      /\ held[t] \in Seq(Held) /\ Len(held[t]) <= Calls
      /\ tempIter = slot[t] + 1 /\ EndsBefore(held[t], slot[t])
      /\ tempVals[slot[t]] = given[t] /\ Texts(held[t], slot[t])
  BY CallsNat DEF TempInv, PoolTypes, PoolRound, PoolTexts, Use
<1>2. /\ held' = [held EXCEPT ![t] = n] /\ tpc' = [tpc EXCEPT ![t] = "out"]
      /\ UNCHANGED <<tempVals, tempIter, slot, given>>
  BY DEF Use
<1>3. /\ n \in Seq(Held) /\ Len(n) <= Calls
      /\ EndsBefore(n, slot[t] + 1) /\ Texts(n, Calls)
  BY <1>1, HeldNext
<1> HIDE DEF n
<1>4. held'[t] = n /\ tpc'[t] = "out" /\ DOMAIN held' = Thread
  BY <1>2 DEF TempInv, PoolTypes
<1>5. PoolTypes(t)'
  BY <1>2, <1>3, <1>4 DEF TempInv, PoolTypes
<1>6. PoolRound(t)'
  <2>1. EndsBefore(held[t], tempIter)'
    BY <1>1, <1>2, <1>3, <1>4 DEF EndsBefore
  <2> QED
    BY <1>4, <2>1 DEF PoolRound
<1>7. PoolTexts(t)'
  <2>1. Texts(held[t], Calls)'
    BY <1>2, <1>3, <1>4 DEF Texts
  <2> QED
    BY <1>4, <2>1 DEF PoolTexts, Before
<1> QED
  BY <1>5, <1>6, <1>7 DEF TempInv

LEMMA TempNextKeeps ==
  ASSUME NEW CONSTANT t, Thread = {t}, TempInv(t), [TempNext]_tempVars
  PROVE  TempInv(t)'
<1>1. CASE TempNext
  <2>1. TempStep(t)
    BY <1>1 DEF TempNext
  <2> QED
    BY <2>1, CastKeeps, WrapKeeps, LoadIterKeeps, StoreIterKeeps, SetTextKeeps, UseKeeps
       DEF TempStep
<1>2. CASE UNCHANGED tempVars
  BY <1>2 DEF tempVars, TempInv, PoolTypes, PoolRound, PoolTexts, EndsBefore, Texts
<1> QED
  BY <1>1, <1>2

(* What the invariant says, of one thread, in the words of the properties. *)
LEMMA TempInvSays ==
  ASSUME NEW CONSTANT t, Thread = {t}, TempInv(t)
  PROVE  TempTypeOK /\ HeldKeepText
<1>1. TempTypeOK
  BY DEF TempInv, PoolTypes, TempTypeOK
<1>2. HeldKeepText
  <2>1. tpc[t] # "fault"
    BY DEF TempInv, PoolTypes
  <2>2. held[t] \in Seq(Held)
    BY DEF TempInv, PoolTypes
  <2>3. ASSUME tpc[t] = "out", NEW k \in DOMAIN held[t]
        PROVE  tempVals[held[t][k].at] = held[t][k].text
    <3>1. k \in 1 .. Len(held[t]) /\ held[t][k] \in Held
      BY <2>2
    <3>2. held[t][k].at # Calls
      BY <3>1, CallsNat DEF Held
    <3> QED
      BY <2>3, <3>1, <3>2 DEF TempInv, PoolTexts, Before, Texts
  <2> QED
    BY <2>1, <2>3 DEF HeldKeepText
<1> QED
  BY <1>1, <1>2

-----------------------------------------------------------------------------
(* Whatever the calls of one thread, the strings that are held are the     *)
(* last ones that were given out (GENSYN_STR_CAST, string.c:331-354).      *)
THEOREM PoolInvariant ==
  ASSUME NEW CONSTANT t, Thread = {t}
  PROVE  TempSpec => []TempInv(t)
<1>1. TempInit => TempInv(t)
  BY TempInitHolds
<1>2. TempInv(t) /\ [TempNext]_tempVars => TempInv(t)'
  BY TempNextKeeps
<1> QED
  BY <1>1, <1>2, PTL DEF TempSpec

(* The next entry is one of the pool, or the one after it. *)
THEOREM TempTypeCorrect ==
  ASSUME NEW CONSTANT t, Thread = {t}
  PROVE  TempSpec => []TempTypeOK
<1>1. TempInv(t) => TempTypeOK
  BY TempInvSays
<1> QED
  BY <1>1, PoolInvariant, PTL

(* A thread that has the pool to itself can hold as many temporaries as    *)
(* there are in it: each keeps its text until that many others were made.  *)
THEOREM TemporariesLast ==
  ASSUME NEW CONSTANT t, Thread = {t}
  PROVE  TempSpec => []HeldKeepText
<1>1. TempInv(t) => HeldKeepText
  BY TempInvSays
<1> QED
  BY <1>1, PoolInvariant, PTL

-----------------------------------------------------------------------------
(* The parts side by side. *)

PartsInv(t) == ArrayInv /\ ChainInv /\ TempInv(t) /\ ParamInv

(* A step of the program is one of one part, and the others keep theirs.   *)
LEMMA PartsStep ==
  [Next]_vars => /\ [ArrayNext]_arrayVars /\ [ChainNext]_chainVars
                 /\ [TempNext]_tempVars /\ [ParamNext]_paramVars
<1> SUFFICES ASSUME [Next]_vars
             PROVE  /\ [ArrayNext]_arrayVars /\ [ChainNext]_chainVars
                    /\ [TempNext]_tempVars /\ [ParamNext]_paramVars
  OBVIOUS
<1>1. CASE UNCHANGED vars
  BY <1>1 DEF vars
<1>2. CASE Next
  BY <1>2 DEF Next, ArrayPart, ChainPart, TempPart, ParamPart
<1> QED
  BY <1>1, <1>2

(* What is allocated, iterated, given out and registered keeps its shape   *)
(* whichever parts are used in whichever order, by a single thread.        *)
THEOREM PartsInvariant ==
  ASSUME NEW CONSTANT t, Thread = {t}
  PROVE  Spec => []PartsInv(t)
<1>1. Init => PartsInv(t)
  BY ArrayInitHolds, ChainInitHolds, TempInitHolds, ParamInitHolds DEF Init, PartsInv
<1>2. PartsInv(t) /\ [Next]_vars => PartsInv(t)'
  <2> SUFFICES ASSUME PartsInv(t), [Next]_vars PROVE PartsInv(t)'
    OBVIOUS
  <2>1. ArrayInv' /\ ChainInv'
    BY PartsStep, ArrayNextKeeps, ChainNextKeeps DEF PartsInv
  <2>2. TempInv(t)'
    BY PartsStep, TempNextKeeps DEF PartsInv
  <2>3. ParamInv'
    BY PartsStep, ParamNextKeeps DEF PartsInv
  <2> QED
    BY <2>1, <2>2, <2>3 DEF PartsInv
<1> QED
  BY <1>1, <1>2, PTL DEF Spec

(* The parts keep their types. *)
THEOREM PartsTypeCorrect ==
  ASSUME NEW CONSTANT t, Thread = {t}
  PROVE  Spec => []PartsTypeOK
<1>1. PartsInv(t) => PartsTypeOK
  BY InvGivesTypes, ChainInvSays, TempInvSays DEF PartsInv, PartsTypeOK, ParamInv
<1> QED
  BY <1>1, PartsInvariant, PTL
=============================================================================
