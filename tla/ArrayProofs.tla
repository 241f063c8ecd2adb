------------------------------- MODULE ArrayProofs ------------------------------
(***************************************************************************)
(* Proofs about Array, for any elements, any presize amount and any size:  *)
(* what is in use is inside the memory, a search keeps its place between   *)
(* its bounds, and every call that returns did to the list what array.h    *)
(* says of it.                                                             *)
(***************************************************************************)
EXTENDS Array, SequenceTheorems, TLAPS

-----------------------------------------------------------------------------
(* The inductive invariant. *)

Content == Elem \cup {UNSET}

(* The operation under way has a place, and wants room, that fit its       *)
(* elements and the array, which nothing else changes meanwhile.           *)
Ops == {"push", "insert", "set_size", "remove", "clear", "overrun"}

Asks == [op : Ops, at : Nat, eles : Seq(Elem), want : Nat]

CallFits ==
  \/ call = Returned
  \/ /\ call \in Asks
     /\ call.want <= MaxSize
     /\ call.op = "push" =>
          call.at = size /\ Len(call.eles) = 1 /\ call.want = size + 1
     /\ call.op \in {"insert", "overrun"} =>
          /\ call.at <= size /\ call.want = size + Len(call.eles)
          /\ Len(call.eles) \in {1, 2}
     /\ call.op = "set_size" =>
          call.at = 0 /\ call.eles = <<>> /\ call.want <= size + 1
     /\ call.op = "remove" =>
          call.at < size /\ call.eles = <<>> /\ call.want = size - 1
     /\ call.op = "clear" => call.at = 0 /\ call.eles = <<>> /\ call.want = 0
  \/ /\ call \in [op : {"search"}, eles : Seq(Elem), lo : Nat, hi : Nat]
     /\ Len(call.eles) = 1 /\ Sorted
     /\ call.lo <= size /\ call.hi <= size

MemoryOK ==
  /\ alloc \in Nat /\ size \in Nat /\ size <= alloc /\ size <= MaxSize
  /\ data \in [0 .. alloc - 1 -> Content]

ArrayInv == MemoryOK /\ CallFits /\ PlaceIsBetween

LEMMA ConstantsNat ==
  /\ Elem \subseteq Nat /\ Presize \in Nat /\ Presize >= 1 /\ MaxSize \in Nat /\ UNSET \notin Nat
BY ArrayAssumption

LEMMA InvGivesTypes == ArrayInv => ArrayTypeOK
<1> SUFFICES ASSUME ArrayInv
             PROVE  ArrayTypeOK
  OBVIOUS
<1> USE DEF ArrayInv, MemoryOK, Content
<1>1. CASE call = Returned
  BY <1>1 DEF ArrayTypeOK, Returned
<1>2. CASE call \in Asks
  BY <1>2, ConstantsNat DEF ArrayTypeOK, CallFits, Returned, Asks, Ops
<1>3. CASE call \in [op : {"search"}, eles : Seq(Elem), lo : Nat, hi : Nat]
  BY <1>3 DEF ArrayTypeOK, CallFits, Returned, Asks, Ops
<1> QED
  BY <1>1, <1>2, <1>3 DEF CallFits

-----------------------------------------------------------------------------
(* Each step keeps it. *)

(* Between operations there is nothing to say of one. *)
LEMMA IdleKeeps ==
  ASSUME MemoryOK', call' = Returned
  PROVE  ArrayInv'
BY DEF ArrayInv, CallFits, PlaceIsBetween, Returned

LEMMA BeginKeeps ==
  ASSUME ArrayInv, NEW o, NEW i \in Nat, NEW s \in Seq(Elem), NEW n \in Nat, Begin(o, i, s, n),
         n <= MaxSize,
         \/ o = "push" /\ i = size /\ Len(s) = 1 /\ n = size + 1
         \/ o = "insert" /\ i <= size /\ n = size + Len(s) /\ Len(s) \in {1, 2}
         \/ o = "set_size" /\ i = 0 /\ s = <<>> /\ n <= size + 1
         \/ o = "remove" /\ i < size /\ s = <<>> /\ n = size - 1
         \/ o = "clear" /\ i = 0 /\ s = <<>> /\ n = 0
  PROVE  ArrayInv'
<1>1. /\ call'.op = o /\ call'.at = i /\ call'.eles = s /\ call'.want = n
      /\ call' \in Asks /\ o \in Ops \ {"overrun"}
      /\ UNCHANGED <<alloc, size, data>>
  BY DEF Begin, memory, Asks, Ops
<1>2. MemoryOK'
  BY <1>1 DEF ArrayInv, MemoryOK
<1>3. CallFits'
  BY <1>1 DEF CallFits
<1>4. call'.op # "search"
  BY <1>1 DEF Ops
<1> QED
  BY <1>2, <1>3, <1>4 DEF ArrayInv, PlaceIsBetween

LEMMA FillsShape ==
  ASSUME ArrayInv, Fills
  PROVE  /\ call \in Asks
         /\ call.at \in Nat /\ call.want \in Nat /\ call.eles \in Seq(Elem)
         /\ call.want <= MaxSize
         /\ \/ /\ call.op = "push" /\ call.at = size /\ Len(call.eles) = 1
               /\ call.want = size + 1
            \/ /\ call.op = "insert" /\ call.at <= size
               /\ call.want = size + Len(call.eles) /\ Len(call.eles) \in {1, 2}
            \/ /\ call.op = "set_size" /\ call.at = 0 /\ call.eles = <<>>
               /\ call.want <= size + 1
BY DEF ArrayInv, CallFits, Fills, Returned, Asks

(* The memory only grows, and keeps what was in it. *)
LEMMA GrowKeeps ==
  ASSUME ArrayInv, Grow
  PROVE  ArrayInv'
<1>1. Presize * alloc \in Nat
  BY ConstantsNat DEF ArrayInv, MemoryOK
<1>2. MemoryOK'
  BY <1>1 DEF Grow, Growth, ArrayInv, MemoryOK, Content
<1>3. call' = call /\ size' = size /\ Fills
  BY DEF Grow
<1>4. CallFits' /\ call.op # "search"
  BY <1>3, FillsShape DEF CallFits, Fills
<1> QED
  BY <1>2, <1>3, <1>4 DEF ArrayInv, PlaceIsBetween

(* What an operation leaves in the memory: all of it is there. *)
LEMMA WrittenTyped ==
  ASSUME NEW mem, alloc \in Nat, mem \in [0 .. alloc - 1 -> Content], NEW i \in Nat, NEW s \in Seq(Elem)
  PROVE  Written(mem, i, s) \in [0 .. alloc - 1 -> Content]
<1>1. \A j \in i .. i + Len(s) - 1 : s[j - i + 1] \in Elem
  <2>1. Len(s) \in Nat /\ \A k \in 1 .. Len(s) : s[k] \in Elem
    OBVIOUS
  <2> QED
    BY <2>1
<1> QED
  BY <1>1 DEF Written, Content

LEMMA MovedTyped ==
  ASSUME alloc \in Nat, data \in [0 .. alloc - 1 -> Content], NEW i \in Nat, NEW n \in Nat,
         call.want \in Nat, call.want + n <= alloc
  PROVE  Moved(i, n) \in [0 .. alloc - 1 -> Content]
BY DEF Moved

LEMMA StoreKeeps ==
  ASSUME ArrayInv, Store
  PROVE  ArrayInv'
<1>1. Fills /\ call' = Returned /\ alloc' = alloc /\ size' = call.want /\ call.want <= alloc
  BY DEF Store
<1>2. alloc \in Nat /\ data \in [0 .. alloc - 1 -> Content] /\ Len(call.eles) \in Nat
  BY <1>1, FillsShape DEF ArrayInv, MemoryOK
<1>3. data' \in [0 .. alloc - 1 -> Content]
  <2>1. CASE call.op = "insert"
    <3>1. call.want + Len(call.eles) <= alloc
      BY <1>1, <1>2, <2>1, FillsShape DEF Store, Overruns
    <3> QED
      BY <1>1, <1>2, <2>1, <3>1, FillsShape, WrittenTyped, MovedTyped DEF Store
  <2>2. CASE call.op # "insert"
    BY <1>1, <1>2, <2>2, FillsShape, WrittenTyped DEF Store
  <2> QED
    BY <2>1, <2>2
<1>4. MemoryOK'
  BY <1>1, <1>2, <1>3, FillsShape DEF MemoryOK
<1> QED
  BY <1>1, <1>4, IdleKeeps

(* The call that ended the program is left as it was. *)
LEMMA OverrunKeeps ==
  ASSUME ArrayInv, Overrun
  PROVE  ArrayInv'
<1>1. /\ Fills /\ call.op = "insert" /\ call' = [call EXCEPT !.op = "overrun"]
      /\ UNCHANGED <<alloc, size, data>>
  BY DEF Overrun, Overruns, memory
<1>2. call'.op = "overrun" /\ call' \in Asks
      /\ call'.at = call.at /\ call'.eles = call.eles /\ call'.want = call.want
  BY <1>1, FillsShape DEF Asks, Ops
<1>3. MemoryOK'
  BY <1>1 DEF ArrayInv, MemoryOK
<1>4. CallFits'
  BY <1>1, <1>2, FillsShape DEF CallFits
<1> QED
  BY <1>2, <1>3, <1>4 DEF ArrayInv, PlaceIsBetween

(* What a call of gensyn_array_remove or gensyn_array_clear looks like.    *)
LEMMA RemoveShape ==
  ASSUME ArrayInv, call.op \in {"remove", "clear"}
  PROVE  /\ call.at \in Nat
         /\ call.op = "remove" => call.at < size
BY DEF ArrayInv, CallFits, Returned, Asks

LEMMA CloseGapKeeps ==
  ASSUME ArrayInv, CloseGap
  PROVE  ArrayInv'
<1>0. /\ alloc \in Nat /\ size \in Nat /\ size <= alloc /\ size <= MaxSize /\ MaxSize \in Nat
      /\ data \in [0 .. alloc - 1 -> Content] /\ size > 0 /\ call.at \in Nat
  BY RemoveShape, ConstantsNat DEF CloseGap, ArrayInv, MemoryOK
<1>1. MemoryOK'
  <2> DEFINE at == call.at
  <2>1. /\ size' = size - 1 /\ alloc' = alloc
        /\ data' = [j \in 0 .. alloc - 1 |-> IF j \in at .. size - 2 THEN data[j + 1] ELSE data[j]]
    BY DEF CloseGap
  <2> HIDE DEF at
  <2>2. size - 1 \in Nat /\ size - 1 <= alloc /\ size - 1 <= MaxSize
    BY <1>0
  <2>3. data' \in [0 .. alloc - 1 -> Content]
    <3>1. \A j \in at .. size - 2 : j \in 0 .. alloc - 1 => data[j + 1] \in Content
      BY <1>0
    <3> QED
      BY <1>0, <2>1, <3>1
  <2> QED
    BY <1>0, <2>1, <2>2, <2>3 DEF MemoryOK
<1> QED
  BY <1>1, IdleKeeps DEF CloseGap

LEMMA EmptyKeeps ==
  ASSUME ArrayInv, Empty
  PROVE  ArrayInv'
<1>1. MemoryOK'
  BY ConstantsNat DEF Empty, ArrayInv, MemoryOK
<1> QED
  BY <1>1, IdleKeeps DEF Empty

(* The search begins with the whole array, and keeps, with each half, the  *)
(* place: all that is below lo is at most, all from hi on above it.        *)
LEMMA SearchKeeps ==
  ASSUME ArrayInv,
         \/ \E e \in Elem : LowerBound(e)
         \/ Halve
  PROVE  ArrayInv'
<1> USE DEF ArrayInv, MemoryOK
<1>1. ASSUME NEW e \in Elem, LowerBound(e)
      PROVE  ArrayInv'
  <2>1. /\ call' = [op |-> "search", eles |-> <<e>>, lo |-> 0, hi |-> size]
        /\ UNCHANGED <<alloc, size, data>> /\ Sorted
    BY <1>1 DEF LowerBound, memory
  <2>2. <<e>> \in Seq(Elem) /\ Len(<<e>>) = 1
    OBVIOUS
  <2>3. call'.lo = 0 /\ call'.hi = size /\ call'.eles = <<e>>
    BY <2>1
  <2>4. CallFits'
    BY <2>1, <2>2, <2>3 DEF CallFits, Sorted
  <2>5. PlaceIsBetween'
    BY <2>1, <2>3 DEF PlaceIsBetween
  <2> QED
    BY <2>1, <2>4, <2>5
<1>2. ASSUME Halve
      PROVE  ArrayInv'
  <2> DEFINE e   == call.eles[1]
             mid == call.lo + (call.hi - call.lo) \div 2
  <2>1. /\ call \in [op : {"search"}, eles : Seq(Elem), lo : Nat, hi : Nat]
        /\ Len(call.eles) = 1 /\ Sorted /\ call.lo \in Nat /\ call.hi \in Nat
        /\ call.lo < call.hi /\ call.hi <= size
    BY <1>2 DEF Halve, CallFits, Returned, Asks, Ops
  <2>2. UNCHANGED <<alloc, size, data>>
    BY <1>2 DEF Halve, memory
  <2>3. mid \in Nat /\ call.lo <= mid /\ mid < call.hi
    BY <2>1
  <2>4. e \in Nat /\ \A j \in 0 .. size - 1 : data[j] \in Nat
    <3>1. call.eles \in Seq(Elem) /\ e \in Elem
      BY <2>1
    <3>2. ASSUME NEW j \in 0 .. size - 1
          PROVE  data[j] \in Elem
      <4>1. data[j] \in Content /\ data[j] # UNSET
        BY <2>1 DEF Sorted
      <4> QED
        BY <4>1 DEF Content
    <3> QED
      BY <3>1, <3>2, ConstantsNat
  <2>5. \A j \in 0 .. call.lo - 1 : data[j] <= e
    BY <2>1 DEF PlaceIsBetween
  <2>6. \A j \in call.hi .. size - 1 : e < data[j]
    BY <2>1 DEF PlaceIsBetween
  <2>7. \A i, j \in 0 .. size - 1 : i <= j => data[i] <= data[j]
    BY <2>1 DEF Sorted
  <2>8. CASE e < data[mid]
    <3>1. call' = [call EXCEPT !.hi = mid]
      BY <1>2, <2>8 DEF Halve
    <3>2. /\ call'.hi = mid /\ call'.lo = call.lo /\ call'.eles = call.eles
          /\ call' \in [op : {"search"}, eles : Seq(Elem), lo : Nat, hi : Nat]
      BY <2>1, <2>3, <3>1
    <3>3. \A j \in mid .. size - 1 : e < data[j]
      <4> HIDE DEF e, mid
      <4> QED
        BY <2>1, <2>3, <2>4, <2>7, <2>8
    <3>4. PlaceIsBetween'
      BY <2>2, <2>3, <2>5, <3>2, <3>3 DEF PlaceIsBetween
    <3>5. CallFits'
      BY <2>1, <2>2, <2>3, <3>2 DEF CallFits, Sorted
    <3> QED
      BY <2>2, <3>4, <3>5
  <2>9. CASE ~(e < data[mid])
    <3>1. call' = [call EXCEPT !.lo = mid + 1] /\ mid + 1 \in Nat
      BY <1>2, <2>3, <2>9 DEF Halve
    <3>2. /\ call'.lo = mid + 1 /\ call'.hi = call.hi /\ call'.eles = call.eles
          /\ call' \in [op : {"search"}, eles : Seq(Elem), lo : Nat, hi : Nat]
      <4> DEFINE next == mid + 1
      <4>1. call' = [call EXCEPT !.lo = next] /\ next \in Nat
        BY <3>1
      <4> HIDE DEF next, mid
      <4>2. /\ call'.lo = next /\ call'.hi = call.hi /\ call'.eles = call.eles
            /\ call' \in [op : {"search"}, eles : Seq(Elem), lo : Nat, hi : Nat]
        BY <2>1, <4>1
      <4> QED
        BY <4>2 DEF next
    <3>3. \A j \in 0 .. mid : data[j] <= e
      <4> HIDE DEF e, mid
      <4> QED
        BY <2>1, <2>3, <2>4, <2>7, <2>9
    <3>4. PlaceIsBetween'
      BY <2>2, <2>3, <2>6, <3>2, <3>3 DEF PlaceIsBetween
    <3>5. CallFits'
      BY <2>1, <2>2, <2>3, <3>2 DEF CallFits, Sorted
    <3> QED
      BY <2>2, <3>4, <3>5
  <2> QED
    BY <2>8, <2>9
<1> QED
  BY <1>1, <1>2

-----------------------------------------------------------------------------

LEMMA ArrayInitHolds == ArrayInit => ArrayInv
BY ConstantsNat DEF ArrayInit, ArrayInv, MemoryOK, Content, CallFits, PlaceIsBetween, Returned

(* A step of the next-state relation, with its arguments in their types. *)
LEMMA ArrayNextKeeps == ArrayInv /\ [ArrayNext]_arrayVars => ArrayInv'
<1> SUFFICES ASSUME ArrayInv, [ArrayNext]_arrayVars
             PROVE  ArrayInv'
  OBVIOUS
<1>0. /\ alloc \in Nat /\ size \in Nat /\ size <= alloc /\ size <= MaxSize
      /\ data \in [0 .. alloc - 1 -> Content]
  BY DEF ArrayInv, MemoryOK
<1>1. ASSUME NEW e \in Elem, size < MaxSize, Push(e)
      PROVE  ArrayInv'
  <2>1. <<e>> \in Seq(Elem) /\ Len(<<e>>) = 1
    OBVIOUS
  <2>2. Begin("push", size, <<e>>, size + 1)
    BY <1>1 DEF Push
  <2>3. size + 1 \in Nat /\ size + 1 <= MaxSize
    BY <1>0, <1>1, ConstantsNat
  <2> QED
    BY <1>0, <2>1, <2>2, <2>3, BeginKeeps
<1>2. ASSUME NEW i \in 0 .. size, NEW e \in Elem, size < MaxSize, Insert(i, <<e>>)
      PROVE  ArrayInv'
  <2>1. <<e>> \in Seq(Elem) /\ Len(<<e>>) = 1
    OBVIOUS
  <2>2. Begin("insert", i, <<e>>, size + Len(<<e>>)) /\ i \in Nat /\ i <= size
    BY <1>0, <1>2 DEF Insert
  <2>3. size + Len(<<e>>) \in Nat /\ size + Len(<<e>>) <= MaxSize
    BY <1>0, <1>2, <2>1, ConstantsNat
  <2> QED
    BY <2>1, <2>2, <2>3, BeginKeeps
<1>3. ASSUME NEW i \in 0 .. size, NEW d \in Elem, NEW e \in Elem,
             size + 1 < MaxSize, Insert(i, <<d, e>>)
      PROVE  ArrayInv'
  <2>1. <<d, e>> \in Seq(Elem) /\ Len(<<d, e>>) = 2
    OBVIOUS
  <2>2. Begin("insert", i, <<d, e>>, size + Len(<<d, e>>)) /\ i \in Nat /\ i <= size
    BY <1>0, <1>3 DEF Insert
  <2>3. size + Len(<<d, e>>) \in Nat /\ size + Len(<<d, e>>) <= MaxSize
    BY <1>0, <1>3, <2>1, ConstantsNat
  <2> QED
    BY <2>1, <2>2, <2>3, BeginKeeps
<1>4. ASSUME NEW n \in 0 .. size + 1, n <= MaxSize, SetSize(n)
      PROVE  ArrayInv'
  <2>1. <<>> \in Seq(Elem)
    OBVIOUS
  <2>2. Begin("set_size", 0, <<>>, n) /\ n \in Nat /\ n <= size + 1 /\ n <= MaxSize
    BY <1>0, <1>4 DEF SetSize
  <2> QED
    BY <2>1, <2>2, BeginKeeps
<1>5. ASSUME NEW i \in 0 .. size - 1, Remove(i)
      PROVE  ArrayInv'
  <2>1. <<>> \in Seq(Elem)
    OBVIOUS
  <2>2. Begin("remove", i, <<>>, size - 1) /\ i \in Nat /\ i < size
    BY <1>0, <1>5 DEF Remove
  <2>3. size - 1 \in Nat /\ size - 1 <= MaxSize
    BY <1>0, <2>2, ConstantsNat
  <2> QED
    BY <2>1, <2>2, <2>3, BeginKeeps
<1>6. CASE Clear
  <2>1. <<>> \in Seq(Elem)
    OBVIOUS
  <2>2. Begin("clear", 0, <<>>, 0) /\ 0 <= MaxSize
    BY <1>6, ConstantsNat DEF Clear
  <2> QED
    BY <2>1, <2>2, BeginKeeps
<1>7. CASE Clone
  BY <1>0, <1>7, IdleKeeps DEF Clone, MemoryOK, Idle
<1>8. CASE Found
  BY <1>0, <1>8, IdleKeeps DEF Found, MemoryOK, memory
<1>9. CASE UNCHANGED arrayVars
  BY <1>0, <1>9 DEF arrayVars, memory, ArrayInv, MemoryOK, CallFits, PlaceIsBetween, Returned, Sorted
<1> QED
  BY <1>1, <1>2, <1>3, <1>4, <1>5, <1>6, <1>7, <1>8, <1>9,
     GrowKeeps, StoreKeeps, OverrunKeeps, CloseGapKeeps, EmptyKeeps, SearchKeeps
  DEF ArrayNext, Proceed

(* Every sequence of operations keeps the whole invariant. *)
THEOREM ArrayInvariant == ArraySpec => []ArrayInv
<1> QED
  BY ArrayInitHolds, ArrayNextKeeps, PTL DEF ArraySpec

(* What is in use is always inside the memory, and so is the place a call  *)
(* is at; how far the memmove of an insertion reaches is not part of this. *)
THEOREM ArrayTypeCorrect == ArraySpec => []ArrayTypeOK
<1> QED
  BY InvGivesTypes, ArrayInvariant, PTL

(* The search of a sorted array of any size closes in on the first place   *)
(* behind all elements that are not greater than the one looked for.       *)
THEOREM SearchKeepsPlace == ArraySpec => []PlaceIsBetween
<1>1. ArrayInv => PlaceIsBetween
  BY DEF ArrayInv
<1> QED
  BY <1>1, ArrayInvariant, PTL

-----------------------------------------------------------------------------
(* The array implements the list. *)

Items == [j \in 1 .. size |-> data[j - 1]]

LEMMA ItemsTyped ==
  ASSUME MemoryOK
  PROVE  /\ Items \in Seq(Content) /\ Len(Items) = size
         /\ \A k \in 1 .. size : Items[k] = data[k - 1]
<1>1. \A k \in 1 .. size : data[k - 1] \in Content
  BY DEF MemoryOK
<1>2. Items \in [1 .. size -> Content] /\ size \in Nat
  BY <1>1 DEF Items, MemoryOK
<1> QED
  BY <1>1, <1>2 DEF Items

(* What a store of the elements s at i leaves, of memory that holds mem. *)
LEMMA WrittenIs ==
  ASSUME alloc \in Nat, NEW mem, NEW i \in Nat, NEW s \in Seq(Elem), NEW j \in 0 .. alloc - 1
  PROVE  Written(mem, i, s)[j] =
           IF i <= j /\ j < i + Len(s) THEN s[j - i + 1] ELSE mem[j]
<1>1. Len(s) \in Nat
  OBVIOUS
<1> QED
  BY <1>1 DEF Written

(* gensyn_array_push appends. *)
LEMMA PushAppends ==
  ASSUME ArrayInv, ArrayInv', Store, call.op = "push"
  PROVE  Items' = Append(Items, call.eles[1])
<1>1. /\ Fills /\ size' = size + 1 /\ size' <= alloc /\ alloc' = alloc
      /\ data' = Written(data, size, call.eles)
      /\ call.eles \in Seq(Elem) /\ Len(call.eles) = 1
  BY FillsShape DEF Store
<1>2. MemoryOK /\ MemoryOK'
  BY DEF ArrayInv
<1> DEFINE e == call.eles[1]
<1>3. e \in Elem /\ e \in Content
  BY <1>1 DEF Content
<1>4. \A j \in 0 .. alloc - 1 : data'[j] = IF j = size THEN e ELSE data[j]
  <2> SUFFICES ASSUME NEW j \in 0 .. alloc - 1
               PROVE  data'[j] = IF j = size THEN e ELSE data[j]
    OBVIOUS
  <2>1. alloc \in Nat /\ size \in Nat
    BY <1>2 DEF MemoryOK
  <2>2. data'[j] = IF size <= j /\ j < size + Len(call.eles)
                   THEN call.eles[j - size + 1] ELSE data[j]
    BY <1>1, <2>1, WrittenIs
  <2> QED
    BY <1>1, <2>1, <2>2
<1>5. /\ Items \in Seq(Content) /\ Len(Items) = size
      /\ \A k \in 1 .. size : Items[k] = data[k - 1]
  BY <1>2, ItemsTyped
<1>6. /\ Items' \in Seq(Content) /\ Len(Items') = size + 1
      /\ \A k \in 1 .. size + 1 : Items'[k] = data'[k - 1]
  BY <1>1, <1>2, ItemsTyped DEF Items, MemoryOK
<1> HIDE DEF e
<1>7. \A k \in 1 .. size + 1 : Items'[k] = IF k = size + 1 THEN e ELSE Items[k]
  <2> SUFFICES ASSUME NEW k \in 1 .. size + 1
               PROVE  Items'[k] = IF k = size + 1 THEN e ELSE Items[k]
    OBVIOUS
  <2>1. size \in Nat /\ k - 1 \in 0 .. alloc - 1
    BY <1>1, <1>2 DEF MemoryOK
  <2>2. Items'[k] = data'[k - 1] /\ data'[k - 1] = IF k - 1 = size THEN e ELSE data[k - 1]
    BY <1>4, <1>6, <2>1
  <2>3. k # size + 1 => Items[k] = data[k - 1]
    BY <1>5, <2>1
  <2> QED
    BY <2>1, <2>2, <2>3
<1>8. /\ Append(Items, e) \in Seq(Content) /\ Len(Append(Items, e)) = size + 1
      /\ \A k \in 1 .. size : Append(Items, e)[k] = Items[k]
      /\ Append(Items, e)[size + 1] = e
  BY <1>3, <1>5, AppendProperties
<1>9. \A k \in 1 .. size + 1 : Items'[k] = Append(Items, e)[k]
  BY <1>2, <1>7, <1>8 DEF MemoryOK
<1>10. Items' = Append(Items, e)
  BY <1>6, <1>8, <1>9, SeqEqual
<1> QED
  BY <1>10 DEF e

(* A sequence that was opened at i for the elements of s. *)
LEMMA InsertedIs ==
  ASSUME NEW S, NEW u \in Seq(S), NEW s \in Seq(S), NEW i \in 0 .. Len(u),
         NEW t \in Seq(S), Len(t) = Len(u) + Len(s),
         \A k \in 1 .. Len(t) :
           t[k] = IF k <= i THEN u[k] ELSE IF k <= i + Len(s) THEN s[k - i] ELSE u[k - Len(s)]
  PROVE  t = SubSeq(u, 1, i) \o s \o SubSeq(u, i + 1, Len(u))
<1> DEFINE A == SubSeq(u, 1, i)
           B == SubSeq(u, i + 1, Len(u))
<1>1. Len(u) \in Nat /\ Len(s) \in Nat /\ i \in Nat /\ \A k \in 1 .. Len(u) : u[k] \in S
  OBVIOUS
<1>2. A \in Seq(S) /\ Len(A) = i /\ \A k \in 1 .. i : A[k] = u[k]
  <2>1. /\ A \in Seq(S) /\ Len(A) = (IF 1 <= i THEN i - 1 + 1 ELSE 0)
        /\ \A k \in 1 .. i - 1 + 1 : A[k] = u[1 + k - 1]
    BY <1>1, SubSeqProperties
  <2> HIDE DEF A
  <2> QED
    BY <1>1, <2>1
<1>3. B \in Seq(S) /\ Len(B) = Len(u) - i /\ \A k \in 1 .. Len(u) - i : B[k] = u[i + k]
  <2>1. /\ B \in Seq(S)
        /\ Len(B) = (IF i + 1 <= Len(u) THEN Len(u) - (i + 1) + 1 ELSE 0)
        /\ \A k \in 1 .. Len(u) - (i + 1) + 1 : B[k] = u[(i + 1) + k - 1]
    BY <1>1, SubSeqProperties
  <2> HIDE DEF B
  <2> QED
    BY <1>1, <2>1
<1> HIDE DEF A, B
<1> DEFINE C == A \o s
           D == C \o B
<1>4. /\ C \in Seq(S) /\ Len(C) = i + Len(s)
      /\ \A k \in 1 .. i + Len(s) : C[k] = IF k <= i THEN A[k] ELSE s[k - i]
  BY <1>2, ConcatProperties
<1> HIDE DEF C
<1>5. /\ D \in Seq(S) /\ Len(D) = Len(u) + Len(s)
      /\ \A k \in 1 .. Len(u) + Len(s) :
           D[k] = IF k <= i + Len(s) THEN C[k] ELSE B[k - (i + Len(s))]
  <2>1. C \in Seq(S) /\ B \in Seq(S)
    BY <1>3, <1>4
  <2>2. /\ D \in Seq(S) /\ Len(D) = Len(C) + Len(B)
        /\ \A k \in 1 .. Len(C) + Len(B) : D[k] = IF k <= Len(C) THEN C[k] ELSE B[k - Len(C)]
    BY <2>1, ConcatProperties
  <2>3. Len(C) + Len(B) = Len(u) + Len(s) /\ Len(C) = i + Len(s)
    BY <1>1, <1>3, <1>4
  <2> HIDE DEF D
  <2> QED
    BY <2>2, <2>3
<1> HIDE DEF D
<1>6. ASSUME NEW k \in 1 .. Len(t)
      PROVE  t[k] = D[k]
  <2>1. /\ k \in 1 .. Len(u) + Len(s)
        /\ t[k] = IF k <= i THEN u[k] ELSE IF k <= i + Len(s) THEN s[k - i] ELSE u[k - Len(s)]
    OBVIOUS
  <2>2. D[k] = IF k <= i + Len(s) THEN C[k] ELSE B[k - (i + Len(s))]
    BY <1>5, <2>1
  <2>3. CASE k <= i
    <3>1. k \in 1 .. i /\ k \in 1 .. i + Len(s)
      BY <1>1, <2>1, <2>3
    <3>2. C[k] = A[k] /\ A[k] = u[k]
      BY <1>2, <1>4, <2>3, <3>1
    <3> QED
      BY <1>1, <2>1, <2>2, <2>3, <3>1, <3>2
  <2>4. CASE i < k /\ k <= i + Len(s)
    <3>1. k \in 1 .. i + Len(s) /\ ~(k <= i)
      BY <1>1, <2>1, <2>4
    <3>2. C[k] = s[k - i]
      BY <1>4, <3>1
    <3> QED
      BY <2>1, <2>2, <2>4, <3>1, <3>2
  <2>5. CASE i + Len(s) < k
    <3>1. /\ k - (i + Len(s)) \in 1 .. Len(u) - i /\ i + (k - (i + Len(s))) = k - Len(s)
          /\ ~(k <= i) /\ ~(k <= i + Len(s))
      BY <1>1, <2>1, <2>5
    <3>2. B[k - (i + Len(s))] = u[k - Len(s)]
      BY <1>3, <3>1
    <3> QED
      BY <2>1, <2>2, <3>1, <3>2
  <2> QED
    BY <1>1, <2>1, <2>3, <2>4, <2>5
<1>7. t = D
  <2>1. Len(t) = Len(D) /\ D \in Seq(S)
    BY <1>5
  <2> QED
    BY <1>6, <2>1, SeqEqual
<1> QED
  BY <1>7 DEF A, B, C, D

(* A sequence that was closed over its element i + 1. *)
LEMMA RemovedIs ==
  ASSUME NEW S, NEW u \in Seq(S), NEW i \in 0 .. Len(u) - 1,
         NEW t \in Seq(S), Len(t) = Len(u) - 1,
         \A k \in 1 .. Len(t) : t[k] = IF k <= i THEN u[k] ELSE u[k + 1]
  PROVE  t = SubSeq(u, 1, i) \o SubSeq(u, i + 2, Len(u))
<1> DEFINE A == SubSeq(u, 1, i)
           B == SubSeq(u, i + 2, Len(u))
<1>1. Len(u) \in Nat /\ i \in Nat /\ \A k \in 1 .. Len(u) : u[k] \in S
  OBVIOUS
<1>2. A \in Seq(S) /\ Len(A) = i /\ \A k \in 1 .. i : A[k] = u[k]
  <2>1. /\ A \in Seq(S) /\ Len(A) = (IF 1 <= i THEN i - 1 + 1 ELSE 0)
        /\ \A k \in 1 .. i - 1 + 1 : A[k] = u[1 + k - 1]
    BY <1>1, SubSeqProperties
  <2> HIDE DEF A
  <2> QED
    BY <1>1, <2>1
<1>3. /\ B \in Seq(S) /\ Len(B) = Len(u) - 1 - i
      /\ \A k \in 1 .. Len(u) - 1 - i : B[k] = u[i + 1 + k]
  <2>1. /\ B \in Seq(S)
        /\ Len(B) = (IF i + 2 <= Len(u) THEN Len(u) - (i + 2) + 1 ELSE 0)
        /\ \A k \in 1 .. Len(u) - (i + 2) + 1 : B[k] = u[(i + 2) + k - 1]
    BY <1>1, SubSeqProperties
  <2> HIDE DEF B
  <2> QED
    BY <1>1, <2>1
<1> HIDE DEF A, B
<1> DEFINE D == A \o B
<1>4. /\ D \in Seq(S) /\ Len(D) = Len(u) - 1
      /\ \A k \in 1 .. Len(u) - 1 : D[k] = IF k <= i THEN A[k] ELSE B[k - i]
  <2>1. A \in Seq(S) /\ B \in Seq(S)
    BY <1>2, <1>3
  <2>2. /\ D \in Seq(S) /\ Len(D) = Len(A) + Len(B)
        /\ \A k \in 1 .. Len(A) + Len(B) : D[k] = IF k <= Len(A) THEN A[k] ELSE B[k - Len(A)]
    BY <2>1, ConcatProperties
  <2>3. Len(A) + Len(B) = Len(u) - 1 /\ Len(A) = i
    BY <1>1, <1>2, <1>3
  <2> HIDE DEF D
  <2> QED
    BY <2>2, <2>3
<1> HIDE DEF D
<1>5. ASSUME NEW k \in 1 .. Len(t)
      PROVE  t[k] = D[k]
  <2>1. k \in 1 .. Len(u) - 1 /\ t[k] = IF k <= i THEN u[k] ELSE u[k + 1]
    OBVIOUS
  <2>2. D[k] = IF k <= i THEN A[k] ELSE B[k - i]
    BY <1>4, <2>1
  <2>3. CASE k <= i
    <3>1. A[k] = u[k]
      BY <1>1, <1>2, <2>1, <2>3
    <3> QED
      BY <2>1, <2>2, <2>3, <3>1
  <2>4. CASE ~(k <= i)
    <3>1. k - i \in 1 .. Len(u) - 1 - i /\ i + 1 + (k - i) = k + 1
      BY <1>1, <2>1, <2>4
    <3>2. B[k - i] = u[k + 1]
      BY <1>3, <3>1
    <3> QED
      BY <2>1, <2>2, <2>4, <3>2
  <2> QED
    BY <2>3, <2>4
<1>6. t = D
  <2>1. Len(t) = Len(D) /\ D \in Seq(S)
    BY <1>4
  <2> QED
    BY <1>5, <2>1, SeqEqual
<1> QED
  BY <1>6 DEF A, B, D

(* gensyn_array_insert: everything from i on has moved up. *)
LEMMA InsertInserts ==
  ASSUME ArrayInv, ArrayInv', Store, call.op = "insert"
  PROVE  Items' = SubSeq(Items, 1, call.at) \o call.eles
                    \o SubSeq(Items, call.at + 1, Len(Items))
<1> DEFINE i == call.at
           s == call.eles
           n == Len(call.eles)
<1>1. /\ Fills /\ size' = size + n /\ size + n <= alloc /\ alloc' = alloc
      /\ call.want = size + n
      /\ data' = Written(Moved(i, n), i, s)
      /\ s \in Seq(Elem) /\ n \in Nat /\ i \in Nat /\ i <= size
  BY FillsShape DEF Store
<1>2. MemoryOK /\ MemoryOK' /\ size \in Nat /\ alloc \in Nat
  BY DEF ArrayInv, MemoryOK
<1>3. \A j \in 0 .. size + n - 1 :
        data'[j] = IF j < i THEN data[j] ELSE IF j < i + n THEN s[j - i + 1] ELSE data[j - n]
  <2> SUFFICES ASSUME NEW j \in 0 .. size + n - 1
               PROVE  data'[j] = IF j < i THEN data[j]
                                 ELSE IF j < i + n THEN s[j - i + 1] ELSE data[j - n]
    OBVIOUS
  <2>0. j \in 0 .. alloc - 1
    <3> HIDE DEF n
    <3> QED
      BY <1>1, <1>2
  <2>1. data'[j] = IF i <= j /\ j < i + n THEN s[j - i + 1] ELSE Moved(i, n)[j]
    BY <1>1, <1>2, <2>0, WrittenIs
  <2>2. Moved(i, n)[j] = IF j \in i + n .. size + n + n - 1 THEN data[j - n] ELSE data[j]
    BY <1>1, <2>0 DEF Moved
  <2> HIDE DEF i, s, n
  <2> QED
    BY <1>1, <1>2, <2>1, <2>2
<1>4. /\ Items \in Seq(Content) /\ Len(Items) = size
      /\ \A k \in 1 .. size : Items[k] = data[k - 1]
  BY <1>2, ItemsTyped
<1>5. /\ Items' \in Seq(Content) /\ Len(Items') = size + n
      /\ \A k \in 1 .. size + n : Items'[k] = data'[k - 1]
  BY <1>1, <1>2, ItemsTyped DEF Items, MemoryOK
<1>6. s \in Seq(Content)
  BY <1>1 DEF Content
<1> HIDE DEF i, s, n
<1>7. \A k \in 1 .. size + n :
        Items'[k] = IF k <= i THEN Items[k] ELSE IF k <= i + n THEN s[k - i] ELSE Items[k - n]
  <2> SUFFICES ASSUME NEW k \in 1 .. size + n
               PROVE  Items'[k] = IF k <= i THEN Items[k]
                                  ELSE IF k <= i + n THEN s[k - i] ELSE Items[k - n]
    OBVIOUS
  <2>1. k - 1 \in 0 .. size + n - 1 /\ k - 1 - i + 1 = k - i /\ k - 1 - n = k - n - 1
    BY <1>1, <1>2
  <2>2. Items'[k] = IF k - 1 < i THEN data[k - 1]
                    ELSE IF k - 1 < i + n THEN s[k - i] ELSE data[k - n - 1]
    BY <1>3, <1>5, <2>1
  <2>3. CASE k <= i
    BY <1>1, <1>2, <1>4, <2>2, <2>3
  <2>4. CASE i < k /\ k <= i + n
    BY <1>1, <1>2, <2>2, <2>4
  <2>5. CASE i + n < k
    <3>1. k - n \in 1 .. size
      BY <1>1, <1>2, <2>5
    <3> QED
      BY <1>1, <1>2, <1>4, <2>2, <2>5, <3>1
  <2> QED
    BY <1>1, <1>2, <2>3, <2>4, <2>5
<1>8. i \in 0 .. Len(Items) /\ Len(Items') = Len(Items) + Len(s)
  BY <1>1, <1>2, <1>4, <1>5 DEF s, n
<1>9. Items' = SubSeq(Items, 1, i) \o s \o SubSeq(Items, i + 1, Len(Items))
  <2>1. n = Len(s)
    BY DEF n, s
  <2> QED
    <3> DEFINE u == Items
               t == Items'
    <3>1. /\ u \in Seq(Content) /\ t \in Seq(Content) /\ i \in 0 .. Len(u)
          /\ Len(t) = Len(u) + Len(s)
      BY <1>4, <1>5, <1>8
    <3>2. \A k \in 1 .. Len(t) :
            t[k] = IF k <= i THEN u[k] ELSE IF k <= i + Len(s) THEN s[k - i] ELSE u[k - Len(s)]
      BY <1>5, <1>7, <2>1
    <3> HIDE DEF u, t
    <3>3. t = SubSeq(u, 1, i) \o s \o SubSeq(u, i + 1, Len(u))
      BY <1>6, <3>1, <3>2, InsertedIs
    <3> QED
      BY <3>3 DEF u, t
<1> QED
  BY <1>9 DEF i, s

(* gensyn_array_remove. *)
LEMMA RemoveRemoves ==
  ASSUME ArrayInv, ArrayInv', NEW i, i = call.at, CloseGap
  PROVE  Items' = SubSeq(Items, 1, i) \o SubSeq(Items, i + 2, Len(Items))
<1>1. /\ size' = size - 1 /\ alloc' = alloc
      /\ \A j \in 0 .. alloc - 1 : data'[j] = IF j \in i .. size - 2 THEN data[j + 1] ELSE data[j]
  BY DEF CloseGap
<1>2. MemoryOK /\ MemoryOK' /\ size \in Nat /\ alloc \in Nat /\ size <= alloc
      /\ i \in Nat /\ i < size
  <2>1. MemoryOK /\ MemoryOK'
    BY DEF ArrayInv
  <2>2. size \in Nat /\ alloc \in Nat /\ size <= alloc
    BY <2>1 DEF MemoryOK
  <2> QED
    BY <2>1, <2>2, RemoveShape DEF CloseGap
<1>3. /\ Items \in Seq(Content) /\ Len(Items) = size
      /\ \A k \in 1 .. size : Items[k] = data[k - 1]
  BY <1>2, ItemsTyped
<1>4. /\ Items' \in Seq(Content) /\ Len(Items') = size - 1
      /\ \A k \in 1 .. size - 1 : Items'[k] = data'[k - 1]
  BY <1>1, <1>2, ItemsTyped DEF Items, MemoryOK
<1>5. \A k \in 1 .. size - 1 : Items'[k] = IF k <= i THEN Items[k] ELSE Items[k + 1]
  <2> SUFFICES ASSUME NEW k \in 1 .. size - 1
               PROVE  Items'[k] = IF k <= i THEN Items[k] ELSE Items[k + 1]
    OBVIOUS
  <2>1. k - 1 \in 0 .. alloc - 1 /\ (k - 1 \in i .. size - 2 <=> ~(k <= i)) /\ k - 1 + 1 = k
    BY <1>2
  <2>2. Items'[k] = IF k <= i THEN data[k - 1] ELSE data[k]
    BY <1>1, <1>4, <2>1
  <2>3. Items[k] = data[k - 1] /\ Items[k + 1] = data[k]
    <3>1. k + 1 \in 1 .. size /\ k \in 1 .. size /\ k + 1 - 1 = k
      BY <1>2
    <3> QED
      BY <1>3, <3>1
  <2> QED
    BY <2>2, <2>3
<1>6. i \in 0 .. Len(Items) - 1 /\ Len(Items') = Len(Items) - 1
  BY <1>2, <1>3, <1>4
<1> QED
  BY <1>3, <1>4, <1>5, <1>6, RemovedIs

(* A step that keeps what is in use, of the same size. *)
LEMMA SameItems ==
  ASSUME size' = size, MemoryOK, \A j \in 0 .. size - 1 : data'[j] = data[j]
  PROVE  Items' = Items
<1>1. \A k \in 1 .. size : k - 1 \in 0 .. size - 1
  BY DEF MemoryOK
<1> QED
  BY <1>1 DEF Items

(* gensyn_array_set_size keeps what it can. *)
LEMMA SetSizeKeepsItems ==
  ASSUME ArrayInv, ArrayInv', Store, call.op = "set_size"
  PROVE  Items' \in {s \in [1 .. call.want -> Content] :
                        \A k \in DOMAIN s \cap DOMAIN Items : s[k] = Items[k]}
<1>1. /\ Fills /\ size' = call.want /\ call.want <= size + 1 /\ call.want <= alloc
      /\ data' = Written(data, 0, call.eles) /\ call.eles = <<>> /\ call.eles \in Seq(Elem)
      /\ call.want \in Nat
  BY FillsShape DEF Store
<1>2. MemoryOK /\ MemoryOK'
  BY DEF ArrayInv
<1>3. size \in Nat /\ alloc \in Nat
  BY <1>2 DEF MemoryOK
<1>4. \A j \in 0 .. alloc - 1 : data'[j] = data[j]
  <2> SUFFICES ASSUME NEW j \in 0 .. alloc - 1
               PROVE  data'[j] = data[j]
    OBVIOUS
  <2>1. PICK s \in Seq(Elem) : s = call.eles
    BY <1>1
  <2>2. data' = Written(data, 0, s) /\ Len(s) = 0
    BY <1>1, <2>1
  <2>3. Written(data, 0, s)[j] = IF 0 <= j /\ j < 0 + Len(s) THEN s[j - 0 + 1] ELSE data[j]
    BY <1>3, WrittenIs
  <2>4. ~(j < 0 + Len(s))
    BY <1>3, <2>2
  <2> QED
    BY <2>2, <2>3, <2>4
<1>5. /\ Items \in Seq(Content) /\ Len(Items) = size
      /\ \A k \in 1 .. size : Items[k] = data[k - 1]
  BY <1>2, ItemsTyped
<1>6. /\ Items' \in Seq(Content) /\ Len(Items') = call.want
      /\ \A k \in 1 .. call.want : Items'[k] = data'[k - 1]
  <2> DEFINE n == call.want
  <2>0. n \in Nat /\ size' = n
    BY <1>1
  <2>1. \A k \in 1 .. n : data'[k - 1] \in Content
    <3>1. alloc' = alloc
      BY DEF Store
    <3>2. data' \in [0 .. alloc - 1 -> Content]
      BY <1>2, <3>1 DEF MemoryOK
    <3>3. n <= alloc
      BY <1>1
    <3> HIDE DEF n
    <3>4. \A k \in 1 .. n : k - 1 \in 0 .. alloc - 1
      BY <1>3, <2>0, <3>3
    <3> QED
      BY <3>2, <3>4
  <2>2. Items' = [k \in 1 .. n |-> data'[k - 1]]
    BY <2>0 DEF Items
  <2>3. Items' \in [1 .. n -> Content]
    BY <2>1, <2>2
  <2>4. /\ Items' \in Seq(Content) /\ Len(Items') = n
        /\ \A k \in 1 .. n : Items'[k] = data'[k - 1]
    <3> HIDE DEF n
    <3> QED
      BY <2>0, <2>2, <2>3
  <2> QED
    BY <2>4
<1>7. DOMAIN Items = 1 .. size /\ DOMAIN Items' = 1 .. call.want
  BY <1>1 DEF Items
<1>8. \A k \in 1 .. call.want : k \in 1 .. size => Items'[k] = Items[k]
  <2> SUFFICES ASSUME NEW k \in 1 .. call.want, k \in 1 .. size
               PROVE  Items'[k] = Items[k]
    OBVIOUS
  <2>1. k - 1 \in 0 .. alloc - 1
    BY <1>1, <1>3
  <2> QED
    BY <1>4, <1>5, <1>6, <2>1
<1>9. Items' \in [1 .. call.want -> Content]
  BY <1>1, <1>3, <1>5, <1>6
<1> QED
  BY <1>7, <1>8, <1>9

(* A call that begins is one that the list is asked for. *)
LEMMA BeginIsAsk ==
  ASSUME ArrayInv, NEW o \in Ops \ {"overrun"}, NEW i, NEW s, NEW n, Begin(o, i, s, n)
  PROVE  Contents!Ask(o, i, s, n) /\ Items' = Items
<1>1. /\ call' = [op |-> o, at |-> i, eles |-> s, want |-> n] /\ call'.op = o
      /\ UNCHANGED <<alloc, size, data>> /\ call = Returned
  BY DEF Begin, memory, Idle
<1>2. Asked = Contents!NoCall
  BY <1>1 DEF Asked, Returned, Contents!NoCall
<1>3. Asked' = [op |-> o, at |-> i, eles |-> s, want |-> n]
  BY <1>1 DEF Asked, Ops
<1>4. Items' = Items
  BY <1>1 DEF Items
<1> QED
  BY <1>2, <1>3, <1>4 DEF Contents!Ask, Items

LEMMA AskIsListStep ==
  ASSUME ArrayInv,
         \/ \E e \in Elem : Push(e)
         \/ \E i \in 0 .. size, e \in Elem : Insert(i, <<e>>)
         \/ \E i \in 0 .. size, d, e \in Elem : Insert(i, <<d, e>>)
         \/ \E n \in 0 .. size + 1 : SetSize(n)
         \/ \E i \in 0 .. size - 1 : Remove(i)
         \/ Clear
  PROVE  Contents!AskAny
<1>1. Len(Items) = size
  BY ItemsTyped DEF ArrayInv
<1>2. ASSUME NEW e \in Elem, Push(e)
      PROVE  Contents!AskPush(e)
  BY <1>1, <1>2, BeginIsAsk DEF Push, Contents!AskPush, Items, Ops
<1>3. ASSUME NEW i, NEW s, Insert(i, s)
      PROVE  Contents!AskInsert(i, s)
  BY <1>1, <1>3, BeginIsAsk DEF Insert, Contents!AskInsert, Items, Ops
<1>4. ASSUME NEW n, SetSize(n)
      PROVE  Contents!AskSetSize(n)
  BY <1>4, BeginIsAsk DEF SetSize, Contents!AskSetSize, Ops
<1>5. ASSUME NEW i, Remove(i)
      PROVE  Contents!AskRemove(i)
  BY <1>1, <1>5, BeginIsAsk DEF Remove, Contents!AskRemove, Items, Ops
<1>6. ASSUME Clear
      PROVE  Contents!AskClear
  BY <1>6, BeginIsAsk DEF Clear, Contents!AskClear, Ops
<1> QED
  BY <1>1, <1>2, <1>3, <1>4, <1>5, <1>6 DEF Contents!AskAny, Items

(* What is carried out is what the list was asked for. *)
LEMMA StoreIsReturn ==
  ASSUME ArrayInv, ArrayInv', Store \/ CloseGap \/ Empty
  PROVE  Contents!Return
<1>1. call' = Returned
  BY DEF Store, CloseGap, Empty
<1>2. Asked' = Contents!NoCall
  BY <1>1 DEF Asked, Returned, Contents!NoCall
<1>3. CASE Store
  <2>1. Asked = call /\ call.op \in {"push", "insert", "set_size"}
    BY <1>3 DEF Store, Fills, Asked
  <2>2. CASE call.op = "push"
    BY <1>2, <1>3, <2>1, <2>2, PushAppends DEF Contents!Return, Contents!Push, Items
  <2>3. CASE call.op = "insert"
    BY <1>2, <1>3, <2>1, <2>3, InsertInserts DEF Contents!Return, Contents!Insert, Items
  <2>4. CASE call.op = "set_size"
    BY <1>2, <1>3, <2>1, <2>4, SetSizeKeepsItems
    DEF Contents!Return, Contents!SetSize, Items, Content
  <2> QED
    BY <2>1, <2>2, <2>3, <2>4
<1>4. CASE CloseGap
  <2>1. Asked = call /\ call.op = "remove"
    BY <1>4 DEF CloseGap, Asked
  <2> QED
    BY <1>2, <1>4, <2>1, RemoveRemoves DEF Contents!Return, Contents!Remove, Items
<1>5. CASE Empty
  <2>1. Asked = call /\ call.op = "clear"
    BY <1>5 DEF Empty, Asked
  <2>2. Items' = <<>>
    BY <1>5 DEF Empty, Items
  <2> QED
    BY <1>2, <2>1, <2>2 DEF Contents!Return, Contents!Clear, Items
<1> QED
  BY <1>3, <1>4, <1>5

(* Every step is one of the list, or leaves it alone. *)
LEMMA StepIsListStep ==
  ASSUME ArrayInv, ArrayInv', [ArrayNext]_arrayVars
  PROVE  [Contents!Next]_<<Items, Asked>>
<1>1. MemoryOK /\ size \in Nat /\ alloc \in Nat /\ size <= alloc
  BY DEF ArrayInv, MemoryOK
<1>2. CASE Store \/ CloseGap \/ Empty
  BY <1>2, StoreIsReturn DEF Contents!Next
<1>3. CASE Contents!AskAny
  BY <1>3 DEF Contents!Next
<1>4. CASE Clone
  <2>1. Items' = Items
    BY <1>1, <1>4, SameItems DEF Clone
  <2> QED
    BY <1>4, <2>1 DEF Clone, Asked
<1>5. CASE Grow
  <2>1. Growth(alloc) \in Nat
    BY <1>1, ConstantsNat DEF Growth
  <2>2. size' = size /\ \A j \in 0 .. size - 1 : data'[j] = data[j]
    BY <1>1, <1>5, <2>1 DEF Grow
  <2>3. Items' = Items
    BY <1>1, <2>2, SameItems
  <2> QED
    BY <1>5, <2>3 DEF Grow, Asked
<1>6. CASE Overrun
  <2>1. /\ call.op = "insert" /\ call' = [call EXCEPT !.op = "overrun"]
        /\ UNCHANGED <<alloc, size, data>> /\ call \in Asks
    BY <1>6, FillsShape DEF Overrun, Overruns, memory
  <2>2. call'.op = "overrun" /\ [call' EXCEPT !.op = "insert"] = call
    BY <2>1 DEF Asks
  <2>3. Asked' = Asked
    BY <2>1, <2>2 DEF Asked
  <2>4. Items' = Items
    BY <2>1 DEF Items
  <2> QED
    BY <2>3, <2>4
<1>7. ASSUME UNCHANGED <<size, data>>,
             call.op \in {"none", "search"}, call'.op \in {"none", "search"}
      PROVE  [Contents!Next]_<<Items, Asked>>
  BY <1>7 DEF Items, Asked
<1>8. CASE Halve \/ Found \/ \E e \in Elem : LowerBound(e)
  <2>1. UNCHANGED <<size, data>> /\ call.op \in {"none", "search"}
    BY <1>8 DEF Halve, Found, LowerBound, Idle, Returned, memory
  <2>2. CASE Halve
    <3>1. call \in [op : {"search"}, eles : Seq(Elem), lo : Nat, hi : Nat]
      BY <2>2 DEF Halve, ArrayInv, CallFits, Returned, Asks, Ops
    <3>2. call'.op = "search"
      BY <2>2, <3>1 DEF Halve
    <3> QED
      BY <1>7, <2>1, <3>2
  <2>3. CASE Found \/ \E e \in Elem : LowerBound(e)
    BY <1>7, <2>1, <2>3 DEF Found, LowerBound, Returned
  <2> QED
    BY <1>8, <2>2, <2>3
<1>9. CASE UNCHANGED arrayVars
  BY <1>9 DEF arrayVars, memory, Items, Asked
<1> QED
  BY <1>2, <1>3, <1>4, <1>5, <1>6, <1>8, <1>9, AskIsListStep DEF ArrayNext, Proceed

(* Whatever the array's memory, growth and moves, every call that returns  *)
(* did to the list the one thing that array.h says of it (lines 103-192).  *)
THEOREM ArrayImplementsList == ArraySpec => ArrayIsList
<1>1. ArrayInit => Contents!Init
  <2>1. ArrayInit => Items = <<>> /\ Asked = Contents!NoCall
    BY DEF ArrayInit, Items, Asked, Returned, Contents!NoCall
  <2> QED
    BY <2>1 DEF Contents!Init, Items
<1>2. ArrayInv /\ ArrayInv' /\ [ArrayNext]_arrayVars => [Contents!Next]_<<Items, Asked>>
  BY StepIsListStep
<1>3. ArraySpec => [][ArrayNext]_arrayVars
  BY PTL DEF ArraySpec
<1> QED
  BY <1>1, <1>2, ArrayInvariant, PTL DEF ArraySpec, ArrayIsList, Contents!Spec, Items
=============================================================================
