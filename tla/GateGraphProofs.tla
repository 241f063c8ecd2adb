---------------------------- MODULE GateGraphProofs ----------------------------
(***************************************************************************)
(* Proofs about GateGraph, for every heap size, fan-out limit and set of   *)
(* gate types: the two ends of every connection stay in agreement, with    *)
(* multiplicity, and no reference is left to memory that is not a gate.    *)
(***************************************************************************)
EXTENDS GateGraph, FiniteSetTheorems, FunctionTheorems, WellFoundedInduction,
        TLAPS

-----------------------------------------------------------------------------
(* What the assumption and the type invariant say of the reference arrays. *)

LEMMA MaxCxNat == MaxCx \in Nat /\ MaxCx >= 1
BY GraphAssumption

LEMMA RefTypes ==
  ASSUME GraphTypeOK
  PROVE  /\ live \subseteq Gate
         /\ inrefs  \in [Gate -> [Slot -> Gate \cup {NULL}]]
         /\ outrefs \in [Gate -> [Slot -> Gate \cup {NULL}]]
         /\ nouts   \in [Gate -> 0 .. MaxCx]
         /\ \A g \in Gate : nouts[g] \in Nat
<1>1. nouts \in [Gate -> 0 .. MaxCx]
  BY DEF GraphTypeOK
<1>2. \A g \in Gate : nouts[g] \in Nat
  BY <1>1, MaxCxNat
<1> QED
  BY <1>1, <1>2 DEF GraphTypeOK

LEMMA SlotFinite == IsFiniteSet(Slot)
BY MaxCxNat, FS_Interval DEF Slot

-----------------------------------------------------------------------------
(* The list of OUTs. *)

(* The first entry of a list that names g, when there is one. *)
LEMMA FirstOutIs ==
  ASSUME NEW outs, NEW n \in Nat, NEW g, \E k \in 0 .. n - 1 : outs[k] = g
  PROVE  /\ FirstOut(outs, n, g) \in 0 .. n - 1
         /\ outs[FirstOut(outs, n, g)] = g
<1> DEFINE At == {k \in 0 .. n - 1 : outs[k] = g}
<1>1. At \subseteq Nat /\ At # {}
  OBVIOUS
<1>2. PICK k \in At : \A j \in At : <<j, k>> \notin OpToRel(<, Nat)
  BY <1>1, WFMin, NatLessThanWellFounded
<1>3. \A j \in 0 .. k - 1 : outs[j] # g
  <2> SUFFICES ASSUME NEW j \in 0 .. k - 1, outs[j] = g
               PROVE  FALSE
    OBVIOUS
  <2>1. k \in Nat /\ j \in Nat /\ j < k /\ j \in At
    OBVIOUS
  <2>2. <<j, k>> \in OpToRel(<, Nat)
    BY <2>1 DEF OpToRel
  <2> QED
    BY <1>2, <2>1, <2>2
<1>4. \E m \in 0 .. n - 1 : outs[m] = g /\ \A j \in 0 .. m - 1 : outs[j] # g
  BY <1>2, <1>3
<1> QED
  BY <1>4 DEF FirstOut

(* The entries of a list that name b. *)
Entries(outs, n, b) == {k \in 0 .. n - 1 : outs[k] = b}

LEMMA EntriesFinite ==
  ASSUME NEW outs, NEW n \in Nat, NEW b
  PROVE  /\ IsFiniteSet(Entries(outs, n, b))
         /\ Cardinality(Entries(outs, n, b)) \in Nat
<1>1. IsFiniteSet(0 .. n - 1)
  BY FS_Interval
<1>2. Entries(outs, n, b) \subseteq 0 .. n - 1
  BY DEF Entries
<1> QED
  BY <1>1, <1>2, FS_Subset, FS_CardinalityType

(* Removing entry k moves the others down: the list names the gate at k    *)
(* once less and every other gate as often as before.                      *)
LEMMA RemoveCount ==
  ASSUME NEW outs, NEW n \in 1 .. MaxCx, NEW k \in 0 .. n - 1, NEW b
  PROVE  Cardinality(Entries(WithoutOut(outs, n, k), n - 1, b))
           = Cardinality(Entries(outs, n, b)) - (IF outs[k] = b THEN 1 ELSE 0)
<1> USE MaxCxNat
<1> DEFINE W == WithoutOut(outs, n, k)
           S == Entries(outs, n, b) \ {k}
           T == Entries(W, n - 1, b)
           f == [j \in T |-> IF j < k THEN j ELSE j + 1]
<1>1. \A j \in 0 .. n - 2 : W[j] = IF j < k THEN outs[j] ELSE outs[j + 1]
  BY DEF WithoutOut, Slot
<1>2. \A j \in 0 .. n - 2 : j \in T <=> W[j] = b
  BY DEF Entries
<1>3. T \subseteq 0 .. n - 2
  BY DEF Entries
<1>4. \A j \in 0 .. n - 1 : j \in S <=> outs[j] = b /\ j # k
  BY DEF Entries
<1>5. S \subseteq 0 .. n - 1
  BY DEF Entries
<1> HIDE DEF W, S, T
<1>6. f \in Bijection(T, S)
  <2>1. \A j \in T : f[j] \in S
    BY <1>1, <1>2, <1>3, <1>4
  <2>2. \A i, j \in T : f[i] = f[j] => i = j
    BY <1>3
  <2>3. \A s \in S : \E j \in T : f[j] = s
    <3> TAKE s \in S
    <3>1. CASE s < k
      <4>1. s \in 0 .. n - 2 /\ W[s] = b
        BY <1>1, <1>4, <1>5, <3>1
      <4> QED
        BY <4>1, <1>2, <3>1
    <3>2. CASE ~(s < k)
      <4>1. s - 1 \in 0 .. n - 2 /\ ~(s - 1 < k) /\ outs[s - 1 + 1] = b
        BY <1>4, <1>5, <3>2
      <4>2. s - 1 \in T
        BY <4>1, <1>1, <1>2
      <4> QED
        BY <4>1, <4>2, <1>5
    <3> QED
      BY <3>1, <3>2
  <2>4. f \in Injection(T, S)
    BY <2>1, <2>2 DEF Injection, IsInjective
  <2>5. f \in Surjection(T, S)
    BY <2>1, <2>3 DEF Surjection
  <2> QED
    BY <2>4, <2>5 DEF Bijection
<1>7. IsFiniteSet(T)
  BY EntriesFinite DEF T
<1>8. Cardinality(S) = Cardinality(T)
  BY <1>6, <1>7, FS_Bijection DEF ExistsBijection
<1>9. Cardinality(S) = Cardinality(Entries(outs, n, b))
                         - (IF outs[k] = b THEN 1 ELSE 0)
  <2>1. IsFiniteSet(Entries(outs, n, b)) /\ Cardinality(Entries(outs, n, b)) \in Nat
    BY EntriesFinite
  <2>2. k \in Entries(outs, n, b) <=> outs[k] = b
    BY DEF Entries
  <2>3. Cardinality(Entries(outs, n, b) \ {k})
          = IF k \in Entries(outs, n, b)
            THEN Cardinality(Entries(outs, n, b)) - 1
            ELSE Cardinality(Entries(outs, n, b))
    BY <2>1, FS_RemoveElement
  <2> QED
    BY <2>1, <2>2, <2>3 DEF S
<1> QED
  BY <1>8, <1>9 DEF T, W

(* Appending entry n to a list of n: it names that gate once more. *)
LEMMA AppendCount ==
  ASSUME NEW outs \in [Slot -> Gate \cup {NULL}], NEW n \in 0 .. MaxCx - 1,
         NEW to, NEW b
  PROVE  Cardinality(Entries([outs EXCEPT ![n] = to], n + 1, b))
           = Cardinality(Entries(outs, n, b)) + (IF to = b THEN 1 ELSE 0)
<1> USE MaxCxNat
<1> DEFINE A == [outs EXCEPT ![n] = to]
<1>1. \A j \in 0 .. n : A[j] = IF j = n THEN to ELSE outs[j]
  BY DEF Slot
<1> HIDE DEF A
<1>2. Entries(A, n + 1, b)
        = IF to = b THEN Entries(outs, n, b) \cup {n} ELSE Entries(outs, n, b)
  BY <1>1 DEF Entries
<1>3. n \notin Entries(outs, n, b)
  BY DEF Entries
<1>4. IsFiniteSet(Entries(outs, n, b)) /\ Cardinality(Entries(outs, n, b)) \in Nat
  BY EntriesFinite
<1>5. Cardinality(Entries(outs, n, b) \cup {n}) = Cardinality(Entries(outs, n, b)) + 1
  BY <1>3, <1>4, FS_AddElement
<1> QED
  BY <1>2, <1>4, <1>5 DEF A

-----------------------------------------------------------------------------
(* One call of gensyn_gate_connect. *)

(* The inductive invariant.  Mirror alone is not inductive: that a gate    *)
(* which feeds a slot lists its consumer, so that taking the slot over     *)
(* takes an entry away, needs the counts; that a new gate appears in no    *)
(* list needs NoDangling; that a command acts on allocated gates needs     *)
(* the table.                                                              *)
GraphInv == GraphTypeOK /\ Mirror /\ NoDangling /\ OneName

(* Of the two steps of a connection, the first: the old feeder of the slot *)
(* forgets one connection to `to`, no other count changes, and its list    *)
(* names allocated gates still.                                            *)
LEMMA OutsLeftCounts ==
  ASSUME GraphInv, NEW to \in live, NEW i \in Slot
  PROVE  /\ OutsLeft(to, i) \in [Gate -> [Slot -> Gate \cup {NULL}]]
         /\ NoutsLeft(to, i) \in [Gate -> 0 .. MaxCx]
         /\ \A a \in Gate : NoutsLeft(to, i)[a] <= nouts[a]
         /\ \A a \in live : \A k \in 0 .. NoutsLeft(to, i)[a] - 1 :
               OutsLeft(to, i)[a][k] \in live
         /\ \A a, b \in live :
               Cardinality(Entries(OutsLeft(to, i)[a], NoutsLeft(to, i)[a], b))
                 = Cardinality(OutEdges(a, b))
                     - (IF a = inrefs[to][i] /\ b = to THEN 1 ELSE 0)
<1> USE MaxCxNat
<1> DEFINE old == inrefs[to][i]
           n == nouts[old]
           k == FirstOut(outrefs[old], n, to)
           W == WithoutOut(outrefs[old], n, k)
<1>0. NoDangling /\ Mirror
  BY DEF GraphInv
<1>t. /\ live \subseteq Gate
      /\ inrefs  \in [Gate -> [Slot -> Gate \cup {NULL}]]
      /\ outrefs \in [Gate -> [Slot -> Gate \cup {NULL}]]
      /\ nouts   \in [Gate -> 0 .. MaxCx]
      /\ \A g \in Gate : nouts[g] \in Nat
  BY RefTypes DEF GraphInv
<1>a. to \in Gate /\ old \in live \cup {NULL} /\ (old = NULL => old \notin live)
  BY <1>0, <1>t, GraphAssumption DEF NoDangling
<1>b. \A a, b : OutEdges(a, b) = Entries(outrefs[a], nouts[a], b)
  BY DEF OutEdges, Entries
<1>1. CASE old = NULL
  <2>1. OutsLeft(to, i) = outrefs /\ NoutsLeft(to, i) = nouts
    BY <1>1 DEF OutsLeft, NoutsLeft, Listed
  <2>2. \A a, b \in live : Cardinality(OutEdges(a, b)) \in Nat
    BY <1>t, <1>b, EntriesFinite
  <2>3. \A a \in live : \A j \in 0 .. nouts[a] - 1 : outrefs[a][j] \in live
    BY <1>0 DEF NoDangling
  <2>4. \A a \in live : a # old
    BY <1>1, <1>a
  <2>5. \A a, b \in live : Cardinality(Entries(outrefs[a], nouts[a], b))
                             = Cardinality(OutEdges(a, b)) - 0
    BY <2>2, <1>b
  <2> HIDE DEF old
  <2> QED
    BY <2>1, <2>3, <2>4, <2>5, <1>t DEF old
<1>2. CASE old # NULL
  <2>1. old \in live /\ old \in Gate /\ n \in 0 .. MaxCx
    BY <1>t, <1>2, <1>a
  <2>2. OutEdges(old, to) # {}
    <3>1. i \in InEdges(old, to) /\ IsFiniteSet(InEdges(old, to))
      BY SlotFinite, FS_Subset DEF InEdges
    <3>2. Cardinality(InEdges(old, to)) # 0
      BY <3>1, FS_EmptySet
    <3>3. Cardinality(OutEdges(old, to)) # 0
      BY <3>2, <2>1, <1>0 DEF Mirror
    <3> QED
      BY <3>3, FS_EmptySet
  <2>3. Listed(to, i) /\ \E j \in 0 .. n - 1 : outrefs[old][j] = to
    BY <2>2, <1>2 DEF Listed, OutEdges
  <2>4. k \in 0 .. n - 1 /\ outrefs[old][k] = to /\ n \in 1 .. MaxCx
    BY <2>1, <2>3, FirstOutIs
  <2>5. OutsLeft(to, i) = [outrefs EXCEPT ![old] = W]
    BY <2>3, <2>1, <1>t DEF OutsLeft
  <2>6. NoutsLeft(to, i) = [nouts EXCEPT ![old] = n - 1]
    BY <2>3, <2>1, <1>t DEF NoutsLeft
  <2>7. /\ W \in [Slot -> Gate \cup {NULL}]
        /\ \A j \in 0 .. n - 2 : W[j] \in live
    <3>1. \A j \in 0 .. n - 2 : j \in Slot /\ j + 1 \in 0 .. n - 1 /\ j + 1 \in Slot
      BY <2>4 DEF Slot
    <3>2. outrefs[old] \in [Slot -> Gate \cup {NULL}]
      BY <2>1, <1>t
    <3>3. \A j \in 0 .. n - 1 : outrefs[old][j] \in live
      BY <2>1, <1>0 DEF NoDangling
    <3>4. \A j \in Slot : W[j] \in Gate \cup {NULL}
      BY <3>1, <3>2, <2>4 DEF WithoutOut
    <3>5. W \in [Slot -> Gate \cup {NULL}]
      BY <3>4 DEF WithoutOut
    <3>6. \A j \in 0 .. n - 2 : W[j] = IF j < k THEN outrefs[old][j] ELSE outrefs[old][j + 1]
      BY <3>1, <2>4 DEF WithoutOut
    <3>7. \A j \in 0 .. n - 2 : W[j] \in live
      BY <3>1, <3>3, <3>6, <2>4
    <3> QED
      BY <3>5, <3>7
  <2>8. \A b : Cardinality(Entries(W, n - 1, b))
                 = Cardinality(Entries(outrefs[old], n, b)) - (IF to = b THEN 1 ELSE 0)
    BY <2>4, RemoveCount
  <2>9. \A a, b \in live : Cardinality(OutEdges(a, b)) \in Nat
    BY <1>t, <1>b, EntriesFinite
  <2> HIDE DEF W, k, n, old
  <2>10. /\ OutsLeft(to, i) \in [Gate -> [Slot -> Gate \cup {NULL}]]
         /\ NoutsLeft(to, i) \in [Gate -> 0 .. MaxCx]
    <3>1. n - 1 \in 0 .. MaxCx
      BY <2>4
    <3> QED
      BY <3>1, <2>5, <2>6, <2>7, <1>t
  <2>11. /\ \A a \in Gate \ {old} : /\ NoutsLeft(to, i)[a] = nouts[a]
                                    /\ OutsLeft(to, i)[a] = outrefs[a]
         /\ NoutsLeft(to, i)[old] = n - 1
         /\ OutsLeft(to, i)[old] = W
    BY <2>1, <2>5, <2>6, <1>t
  <2>12. live \subseteq Gate /\ \A a \in Gate : nouts[a] \in Nat
    BY <1>t
  <2>13. \A a \in Gate : NoutsLeft(to, i)[a] <= nouts[a]
    BY <2>11, <2>12, <2>4 DEF n
  <2>14. \A a \in live : \A j \in 0 .. NoutsLeft(to, i)[a] - 1 :
           OutsLeft(to, i)[a][j] \in live
    <3> SUFFICES ASSUME NEW a \in live, NEW j \in 0 .. NoutsLeft(to, i)[a] - 1
                 PROVE  OutsLeft(to, i)[a][j] \in live
      OBVIOUS
    <3>1. CASE a = old
      <4>1. j \in 0 .. n - 2
        BY <3>1, <2>11, <2>4
      <4> QED
        BY <4>1, <3>1, <2>7, <2>11
    <3>2. CASE a # old
      BY <3>2, <2>11, <2>12, <1>0 DEF NoDangling
    <3> QED
      BY <3>1, <3>2
  <2>15. \A a, b \in live :
           Cardinality(Entries(OutsLeft(to, i)[a], NoutsLeft(to, i)[a], b))
             = Cardinality(OutEdges(a, b)) - (IF a = old /\ b = to THEN 1 ELSE 0)
    <3> TAKE a, b \in live
    <3>1. CASE a = old
      BY <3>1, <2>8, <2>11, <1>b DEF n
    <3>2. CASE a # old
      BY <3>2, <2>9, <2>11, <2>12, <1>b
    <3> QED
      BY <3>1, <3>2
  <2> QED
    BY <2>10, <2>13, <2>14, <2>15 DEF old
<1> QED
  BY <1>1, <1>2

(* The second: the slot, and the list of the new feeder, if there is one.  *)
LEMMA RelinkKeeps ==
  ASSUME GraphInv, NEW from \in live \cup {NULL}, NEW to \in live, NEW i \in Slot,
         from # NULL => nouts[from] < MaxCx,
         Relink(from, i, to), live' = live
  PROVE  /\ inrefs'  \in [Gate -> [Slot -> Gate \cup {NULL}]]
         /\ outrefs' \in [Gate -> [Slot -> Gate \cup {NULL}]]
         /\ nouts'   \in [Gate -> 0 .. MaxCx]
         /\ NoDangling'
         /\ Mirror'
<1> USE MaxCxNat
<1> DEFINE old == inrefs[to][i]
           O == OutsLeft(to, i)
           N == NoutsLeft(to, i)
<1>1. /\ live \subseteq Gate
      /\ inrefs  \in [Gate -> [Slot -> Gate \cup {NULL}]]
      /\ nouts   \in [Gate -> 0 .. MaxCx]
      /\ \A g \in Gate : nouts[g] \in Nat
  BY RefTypes DEF GraphInv
<1>2. /\ O \in [Gate -> [Slot -> Gate \cup {NULL}]]
      /\ N \in [Gate -> 0 .. MaxCx]
      /\ \A a \in Gate : N[a] <= nouts[a]
      /\ \A a \in live : \A k \in 0 .. N[a] - 1 : O[a][k] \in live
      /\ \A a, b \in live : Cardinality(Entries(O[a], N[a], b))
             = Cardinality(OutEdges(a, b)) - (IF a = old /\ b = to THEN 1 ELSE 0)
  BY OutsLeftCounts
<1>3. NULL \notin live /\ NoDangling /\ Mirror
  BY <1>1, GraphAssumption DEF GraphInv
<1>4. inrefs' = [inrefs EXCEPT ![to] = [@ EXCEPT ![i] = from]]
  BY DEF Relink
<1>5. \A g \in Gate, j \in Slot :
        inrefs'[g][j] = IF g = to /\ j = i THEN from ELSE inrefs[g][j]
  BY <1>1, <1>4
<1>6. inrefs' \in [Gate -> [Slot -> Gate \cup {NULL}]]
  BY <1>1, <1>4
<1>7. \A g \in live, j \in Slot : inrefs'[g][j] \in live \cup {NULL}
  BY <1>1, <1>3, <1>5 DEF NoDangling
<1>8. \A a, b \in live :
        Cardinality(InEdges(a, b)')
          = Cardinality(InEdges(a, b)) - (IF a = old /\ b = to THEN 1 ELSE 0)
                                       + (IF a = from /\ b = to THEN 1 ELSE 0)
  <2> TAKE a, b \in live
  <2>1. InEdges(a, b) \subseteq Slot
    BY DEF InEdges
  <2>2. IsFiniteSet(InEdges(a, b)) /\ Cardinality(InEdges(a, b)) \in Nat
    BY <2>1, SlotFinite, FS_Subset, FS_CardinalityType
  <2>3. \A j : j \in InEdges(a, b) <=> j \in Slot /\ inrefs[b][j] = a
    BY DEF InEdges
  <2>4. \A j : j \in InEdges(a, b)' <=> j \in Slot /\ inrefs'[b][j] = a
    BY DEF InEdges
  <2>5. CASE b # to
    <3>1. InEdges(a, b)' = InEdges(a, b)
      BY <2>3, <2>4, <2>5, <1>1, <1>5
    <3> QED
      BY <3>1, <2>2, <2>5
  <2>6. CASE b = to /\ (a = old <=> a = from)
    <3>1. InEdges(a, b)' = InEdges(a, b)
      BY <2>3, <2>4, <2>6, <1>1, <1>5
    <3> QED
      BY <3>1, <2>2, <2>6
  <2>7. CASE b = to /\ a = old /\ a # from
    <3>1. InEdges(a, b)' = InEdges(a, b) \ {i} /\ i \in InEdges(a, b)
      BY <2>3, <2>4, <2>7, <1>1, <1>5
    <3>2. Cardinality(InEdges(a, b) \ {i}) = Cardinality(InEdges(a, b)) - 1
      BY <3>1, <2>2, FS_RemoveElement
    <3> QED
      BY <3>1, <3>2, <2>2, <2>7
  <2>8. CASE b = to /\ a # old /\ a = from
    <3>1. InEdges(a, b)' = InEdges(a, b) \cup {i} /\ i \notin InEdges(a, b)
      BY <2>3, <2>4, <2>8, <1>1, <1>5
    <3>2. Cardinality(InEdges(a, b) \cup {i}) = Cardinality(InEdges(a, b)) + 1
      BY <3>1, <2>2, FS_AddElement
    <3> QED
      BY <3>1, <3>2, <2>2, <2>8
  <2> QED
    BY <2>5, <2>6, <2>7, <2>8
<1>9. \A a, b : OutEdges(a, b)' = Entries(outrefs'[a], nouts'[a], b)
  BY DEF OutEdges, Entries
<1>10. \A a, b \in live : Cardinality(OutEdges(a, b)) = Cardinality(InEdges(a, b))
                          /\ Cardinality(InEdges(a, b)) \in Nat
  <2> TAKE a, b \in live
  <2>1. IsFiniteSet(InEdges(a, b))
    BY SlotFinite, FS_Subset DEF InEdges
  <2> QED
    BY <2>1, <1>3, FS_CardinalityType DEF Mirror
<1>11. CASE from = NULL
  <2>1. outrefs' = O /\ nouts' = N
    BY <1>11 DEF Relink
  <2>2. \A a, b \in live : Cardinality(OutEdges(a, b)') = Cardinality(InEdges(a, b)')
    <3> TAKE a, b \in live
    <3>1. Cardinality(OutEdges(a, b)')
            = Cardinality(OutEdges(a, b)) - (IF a = old /\ b = to THEN 1 ELSE 0)
      BY <2>1, <1>2, <1>9
    <3>2. a # from
      BY <1>3, <1>11
    <3> QED
      BY <3>1, <3>2, <1>8, <1>10
  <2>3. Mirror'
    BY <2>2 DEF Mirror
  <2>4. NoDangling'
    BY <2>1, <1>2, <1>7 DEF NoDangling
  <2> QED
    BY <2>1, <2>3, <2>4, <1>2, <1>6
<1>12. CASE from # NULL
  <2> DEFINE m == N[from]
             L == [O[from] EXCEPT ![m] = to]
  <2>1. from \in live /\ from \in Gate
    BY <1>12, <1>1
  <2>2. m \in 0 .. MaxCx - 1 /\ m \in Slot
    <3>1. m \in 0 .. MaxCx /\ m <= nouts[from] /\ nouts[from] \in Nat
      BY <2>1, <1>1, <1>2
    <3>2. nouts[from] < MaxCx
      BY <1>12
    <3> QED
      BY <3>1, <3>2 DEF Slot
  <2>3. outrefs' = [O EXCEPT ![from] = L] /\ nouts' = [N EXCEPT ![from] = m + 1]
    BY <1>12, <1>2, <2>1 DEF Relink
  <2>4. O[from] \in [Slot -> Gate \cup {NULL}]
    BY <2>1, <1>2
  <2>5. L \in [Slot -> Gate \cup {NULL}]
    BY <2>2, <2>4, <1>1
  <2>6. \A j \in 0 .. m : L[j] \in live
    <3>1. \A j \in 0 .. m - 1 : O[from][j] \in live
      BY <2>1, <1>2
    <3>2. \A j \in 0 .. m : L[j] = IF j = m THEN to ELSE O[from][j]
      BY <2>2, <2>4 DEF Slot
    <3> HIDE DEF L, m
    <3> QED
      BY <3>1, <3>2, <2>2
  <2>7. \A b : Cardinality(Entries(L, m + 1, b))
               = Cardinality(Entries(O[from], m, b)) + (IF to = b THEN 1 ELSE 0)
    <3> TAKE b
    <3> HIDE DEF m, O
    <3> QED
      BY <2>2, <2>4, AppendCount DEF L
  <2> HIDE DEF m, L, O, N, old
  <2>8. /\ \A a \in Gate \ {from} : outrefs'[a] = O[a] /\ nouts'[a] = N[a]
        /\ outrefs'[from] = L /\ nouts'[from] = m + 1
    BY <2>1, <2>3, <1>2
  <2>9. outrefs' \in [Gate -> [Slot -> Gate \cup {NULL}]]
    BY <2>3, <2>5, <1>2
  <2>10. nouts' \in [Gate -> 0 .. MaxCx]
    <3>1. m + 1 \in 0 .. MaxCx
      BY <2>2
    <3> QED
      BY <3>1, <2>3, <1>2
  <2>11. \A a \in live : \A k \in 0 .. nouts'[a] - 1 : outrefs'[a][k] \in live
    <3> SUFFICES ASSUME NEW a \in live, NEW k \in 0 .. nouts'[a] - 1
                 PROVE  outrefs'[a][k] \in live
      OBVIOUS
    <3>1. CASE a = from
      <4>1. k \in 0 .. m
        BY <3>1, <2>2, <2>8
      <4> QED
        BY <4>1, <3>1, <2>6, <2>8
    <3>2. CASE a # from
      BY <3>2, <2>8, <1>1, <1>2
    <3> QED
      BY <3>1, <3>2
  <2>12. \A a, b \in live : Cardinality(OutEdges(a, b)') = Cardinality(InEdges(a, b)')
    <3> TAKE a, b \in live
    <3>1. CASE a = from
      <4>1. Cardinality(OutEdges(a, b)')
              = Cardinality(Entries(O[from], m, b)) + (IF to = b THEN 1 ELSE 0)
        BY <3>1, <2>7, <2>8, <1>9
      <4>2. Cardinality(Entries(O[from], m, b))
              = Cardinality(OutEdges(a, b)) - (IF a = old /\ b = to THEN 1 ELSE 0)
        BY <3>1, <1>2 DEF m
      <4> QED
        BY <4>1, <4>2, <3>1, <1>8, <1>10
    <3>2. CASE a # from
      <4>1. Cardinality(OutEdges(a, b)')
              = Cardinality(OutEdges(a, b)) - (IF a = old /\ b = to THEN 1 ELSE 0)
        BY <3>2, <2>8, <1>1, <1>2, <1>9
      <4> QED
        BY <4>1, <3>2, <1>8, <1>10
    <3> QED
      BY <3>1, <3>2
  <2>13. Mirror'
    BY <2>12 DEF Mirror
  <2>14. NoDangling'
    BY <2>11, <1>7 DEF NoDangling
  <2> QED
    BY <2>9, <2>10, <2>13, <2>14, <1>6
<1> QED
  BY <1>11, <1>12

-----------------------------------------------------------------------------
(* The commands. *)

LEMMA ConnectsKeeps ==
  ASSUME GraphInv, NEW from \in live \cup {NULL}, NEW to \in live, NEW i \in Nat,
         Connects(from, i, to)
  PROVE  GraphInv'
<1>1. /\ ~Refuses(from, i, to)
      /\ Relink(from, i, to)
      /\ result' = ""
      /\ UNCHANGED <<live, type, gates, output>>
  BY DEF Connects
<1>2. i \in Slot
  <2>1. type[to] \in DOMAIN Nins
    BY DEF GraphInv, GraphTypeOK
  <2>2. Nins[type[to]] \in 0 .. MaxCx
    BY <2>1, GraphAssumption
  <2>3. ~(i >= Nins[type[to]])
    BY <1>1 DEF Refuses, nins
  <2> QED
    BY <2>2, <2>3, MaxCxNat DEF Slot
<1>3. from # NULL => nouts[from] < MaxCx
  <2> SUFFICES ASSUME from # NULL
               PROVE  nouts[from] < MaxCx
    OBVIOUS
  <2>1. nouts[from] \in Nat
    BY RefTypes DEF GraphInv
  <2>2. ~(nouts[from] >= MaxCx)
    BY <1>1 DEF Refuses
  <2> QED
    BY <2>1, <2>2, MaxCxNat
<1>4. /\ inrefs'  \in [Gate -> [Slot -> Gate \cup {NULL}]]
      /\ outrefs' \in [Gate -> [Slot -> Gate \cup {NULL}]]
      /\ nouts'   \in [Gate -> 0 .. MaxCx]
      /\ NoDangling'
      /\ Mirror'
  BY <1>1, <1>2, <1>3, RelinkKeeps
<1>5. GraphTypeOK'
  BY <1>1, <1>4 DEF GraphInv, GraphTypeOK
<1>6. OneName'
  BY <1>1 DEF GraphInv, OneName
<1> QED
  BY <1>4, <1>5, <1>6 DEF GraphInv

(* A step that changes none of the graph, whatever it answers. *)
LEMMA UnchangedKeeps ==
  ASSUME GraphInv, result' \in {"", "error"},
         UNCHANGED <<live, type, refs, gates, output>>
  PROVE  GraphInv'
<1>1. UNCHANGED <<live, type, inrefs, outrefs, nouts, gates, output>>
  BY DEF refs
<1>2. GraphTypeOK'
  BY <1>1 DEF GraphInv, GraphTypeOK
<1>3. OneName' /\ NoDangling'
  BY <1>1 DEF GraphInv, OneName, NoDangling
<1>4. Mirror'
  <2>1. \A a, b : OutEdges(a, b)' = OutEdges(a, b) /\ InEdges(a, b)' = InEdges(a, b)
    BY <1>1 DEF OutEdges, InEdges
  <2> QED
    BY <1>1, <2>1 DEF GraphInv, Mirror
<1> QED
  BY <1>2, <1>3, <1>4 DEF GraphInv

(* A new gate has no connection, and nothing refers to where it lies. *)
LEMMA GateAddKeeps ==
  ASSUME GraphInv, NEW t \in Type, NEW n \in Name, GateAdd(t, n)
  PROVE  GraphInv'
<1>1. PICK g \in Gate \ live :
        /\ live'    = live \cup {g}
        /\ type'    = [type EXCEPT ![g] = t]
        /\ inrefs'  = [inrefs EXCEPT ![g] = NoRefs]
        /\ outrefs' = [outrefs EXCEPT ![g] = NoRefs]
        /\ nouts'   = [nouts EXCEPT ![g] = 0]
        /\ gates'   = [gates EXCEPT ![n] = g]
  BY DEF GateAdd
<1>2. /\ live \subseteq Gate
      /\ inrefs  \in [Gate -> [Slot -> Gate \cup {NULL}]]
      /\ outrefs \in [Gate -> [Slot -> Gate \cup {NULL}]]
      /\ nouts   \in [Gate -> 0 .. MaxCx]
  BY RefTypes DEF GraphInv
<1>3. NoRefs \in [Slot -> Gate \cup {NULL}] /\ \A i \in Slot : NoRefs[i] = NULL
  BY DEF NoRefs
<1>4. gates[n] = NULL /\ t \in DOMAIN Nins /\ result' = "" /\ output' = output
  BY DEF GateAdd
<1>5. GraphTypeOK'
  <2>1. 0 \in 0 .. MaxCx
    BY MaxCxNat
  <2>2. /\ inrefs'  \in [Gate -> [Slot -> Gate \cup {NULL}]]
        /\ outrefs' \in [Gate -> [Slot -> Gate \cup {NULL}]]
        /\ nouts'   \in [Gate -> 0 .. MaxCx]
    BY <1>1, <1>2, <1>3, <2>1
  <2>3. type \in [Gate -> DOMAIN Nins \cup {NULL}] /\ \A h \in live : type[h] \in DOMAIN Nins
    BY DEF GraphInv, GraphTypeOK
  <2>4. type' \in [Gate -> DOMAIN Nins \cup {NULL}] /\ \A h \in live' : type'[h] \in DOMAIN Nins
    <3>1. type' = [type EXCEPT ![g] = t] /\ t \in DOMAIN Nins /\ g \in Gate
      BY <1>1, <1>4
    <3>2. type' \in [Gate -> DOMAIN Nins \cup {NULL}]
      BY <2>3, <3>1
    <3>3. \A h \in Gate : type'[h] = IF h = g THEN t ELSE type[h]
      BY <2>3, <3>1
    <3> QED
      BY <1>1, <1>2, <2>3, <3>1, <3>2, <3>3
  <2>5. gates' \in [Name -> Gate \cup {NULL}] /\ output' \in Gate /\ live' \subseteq Gate
    BY <1>1, <1>2, <1>4 DEF GraphInv, GraphTypeOK
  <2> QED
    BY <2>2, <2>4, <2>5, <1>4 DEF GraphTypeOK
<1>6. \A h \in Gate : h # g => /\ inrefs'[h] = inrefs[h]
                               /\ outrefs'[h] = outrefs[h]
                               /\ nouts'[h] = nouts[h]
  BY <1>1, <1>2
<1>7. inrefs'[g] = NoRefs /\ nouts'[g] = 0
  BY <1>1, <1>2
<1>8. /\ \A h \in live : \A k \in 0 .. nouts[h] - 1 : outrefs[h][k] \in live
      /\ \A h \in live : \A i \in Slot : inrefs[h][i] \in live \cup {NULL}
  BY DEF GraphInv, NoDangling
<1>9. NoDangling'
  BY <1>1, <1>2, <1>3, <1>6, <1>7, <1>8 DEF NoDangling
<1>10. Mirror'
  <2> SUFFICES ASSUME NEW a \in live', NEW b \in live'
               PROVE  Cardinality(OutEdges(a, b)') = Cardinality(InEdges(a, b)')
    BY DEF Mirror
  <2>1. CASE a # g /\ b # g
    <3>1. a \in live /\ b \in live
      BY <2>1, <1>1
    <3>2. OutEdges(a, b)' = OutEdges(a, b) /\ InEdges(a, b)' = InEdges(a, b)
      BY <2>1, <3>1, <1>2, <1>6 DEF OutEdges, InEdges
    <3> QED
      BY <3>1, <3>2 DEF GraphInv, Mirror
  <2>2. CASE a = g \/ b = g
    <3>1. OutEdges(a, b)' = {}
      <4>1. CASE a = g
        BY <4>1, <1>7 DEF OutEdges
      <4>2. CASE a # g
        BY <4>2, <2>2, <1>1, <1>2, <1>6, <1>8 DEF OutEdges
      <4> QED
        BY <4>1, <4>2
    <3>2. InEdges(a, b)' = {}
      <4>1. CASE b = g
        BY <4>1, <1>1, <1>2, <1>3, <1>7, GraphAssumption DEF InEdges
      <4>2. CASE b # g
        BY <4>2, <2>2, <1>1, <1>2, <1>6, <1>8, GraphAssumption DEF InEdges
      <4> QED
        BY <4>1, <4>2
    <3> QED
      BY <3>1, <3>2
  <2> QED
    BY <2>1, <2>2
<1>11. OneName'
  <2>1. /\ \A h \in live : \E m \in Name : gates[m] = h
        /\ \A l, m \in Name : gates[l] = gates[m] /\ gates[l] # NULL => l = m
        /\ \A m \in Name : gates[m] \in live \cup {NULL}
        /\ gates[OutputName] = output
        /\ gates \in [Name -> Gate \cup {NULL}]
        /\ output \in Gate
    BY DEF GraphInv, OneName, GraphTypeOK
  <2>2. gates'[n] = g /\ \A m \in Name \ {n} : gates'[m] = gates[m]
    BY <2>1, <1>1
  <2>3. OutputName \in Name /\ OutputName # n
    BY <2>1, <1>4, GraphAssumption
  <2>4. \A h \in live' : \E m \in Name : gates'[m] = h
    <3> SUFFICES ASSUME NEW h \in live' PROVE \E m \in Name : gates'[m] = h
      OBVIOUS
    <3>1. CASE h = g
      BY <3>1, <2>2
    <3>2. CASE h # g
      <4>1. PICK m \in Name : gates[m] = h
        BY <3>2, <2>1, <1>1
      <4>2. m # n
        BY <4>1, <3>2, <1>1, <1>2, <1>4, GraphAssumption
      <4> QED
        BY <4>1, <4>2, <2>2
    <3> QED
      BY <3>1, <3>2
  <2>5. \A l, m \in Name : gates'[l] = gates'[m] /\ gates'[l] # NULL => l = m
    BY <2>1, <2>2, <1>1, <1>2, GraphAssumption
  <2>6. \A m \in Name : gates'[m] \in live' \cup {NULL}
    BY <2>1, <2>2, <1>1
  <2> QED
    BY <2>1, <2>2, <2>3, <2>4, <2>5, <2>6, <1>4 DEF OneName
<1> QED
  BY <1>5, <1>9, <1>10, <1>11 DEF GraphInv

LEMMA InitHolds == GraphInit => GraphInv
<1> SUFFICES ASSUME GraphInit PROVE GraphInv
  OBVIOUS
<1>1. PICK g \in Gate :
        /\ live    = {g}
        /\ type    = [h \in Gate |-> IF h = g THEN OutputType ELSE NULL]
        /\ inrefs  = [h \in Gate |-> NoRefs]
        /\ outrefs = [h \in Gate |-> NoRefs]
        /\ nouts   = [h \in Gate |-> 0]
        /\ gates   = [n \in Name |-> IF n = OutputName THEN g ELSE NULL]
        /\ output  = g
        /\ result  = ""
  BY DEF GraphInit
<1>2. NoRefs \in [Slot -> Gate \cup {NULL}] /\ \A i \in Slot : NoRefs[i] = NULL
  BY DEF NoRefs
<1>3. GraphTypeOK
  <2>1. 0 \in 0 .. MaxCx
    BY MaxCxNat
  <2>2. OutputType \in DOMAIN Nins
    BY GraphAssumption
  <2> QED
    BY <1>1, <1>2, <2>1, <2>2 DEF GraphTypeOK
<1>4. OneName
  BY <1>1, GraphAssumption DEF OneName
<1>a. inrefs[g] = NoRefs /\ nouts[g] = 0 /\ \A k \in 0 .. nouts[g] - 1 : FALSE
  <2>1. inrefs[g] = NoRefs /\ nouts[g] = 0
    BY <1>1
  <2>2. \A k \in 0 .. 0 - 1 : FALSE
    OBVIOUS
  <2> QED
    BY <2>1, <2>2
<1>5. NoDangling
  BY <1>1, <1>2, <1>a DEF NoDangling
<1>6. OutEdges(g, g) = {} /\ InEdges(g, g) = {}
  <2>1. OutEdges(g, g) = {}
    BY <1>a DEF OutEdges
  <2>2. InEdges(g, g) = {}
    BY <1>2, <1>a, GraphAssumption DEF InEdges
  <2> QED
    BY <2>1, <2>2
<1>7. Mirror
  BY <1>1, <1>6 DEF Mirror
<1> QED
  BY <1>3, <1>4, <1>5, <1>7 DEF GraphInv

LEMMA NextKeeps == GraphInv /\ [GraphNext]_graphVars => GraphInv'
<1> SUFFICES ASSUME GraphInv, [GraphNext]_graphVars
             PROVE  GraphInv'
  OBVIOUS
<1>0. \A n \in Name : gates[n] # NULL => gates[n] \in live
  BY DEF GraphInv, OneName
<1>1. ASSUME NEW t \in Type, NEW n \in Name, GateAdd(t, n)
      PROVE  GraphInv'
  BY <1>1, GateAddKeeps
<1>2. ASSUME NEW t \in Type, NEW n \in Name, GateAddRefused(t, n)
      PROVE  GraphInv'
  BY <1>2, UnchangedKeeps DEF GateAddRefused
<1>3. ASSUME NEW a \in Name, NEW b \in Name, NEW i \in 0 .. MaxCx, GateConnect(a, i, b)
      PROVE  GraphInv'
  <2>1. gates[a] \in live \cup {NULL} /\ gates[b] \in live /\ i \in Nat
    BY <1>0, <1>3, MaxCxNat DEF GateConnect
  <2> QED
    BY <1>3, <2>1, ConnectsKeeps, UnchangedKeeps DEF GateConnect, Ignored
<1>4. ASSUME NEW a \in Name, NEW b \in Name, NEW i \in 0 .. MaxCx, GateDisconnect(a, i, b)
      PROVE  GraphInv'
  <2>1. NULL \in live \cup {NULL} /\ gates[b] \in live /\ i \in Nat
    BY <1>0, <1>4, MaxCxNat DEF GateDisconnect
  <2> QED
    BY <1>4, <2>1, ConnectsKeeps, UnchangedKeeps DEF GateDisconnect, Ignored
<1>5. ASSUME NEW a \in Name, NEW b \in Name, NoSuchGate(a, b)
      PROVE  GraphInv'
  BY <1>5, UnchangedKeeps DEF NoSuchGate
<1>6. CASE UNCHANGED graphVars
  <2>1. result \in {"", "error"}
    BY DEF GraphInv, GraphTypeOK
  <2> QED
    BY <1>6, <2>1, UnchangedKeeps DEF graphVars, refs
<1> QED
  BY <1>1, <1>2, <1>3, <1>4, <1>5, <1>6 DEF GraphNext

(* Every run of commands, from the context gensyn_create leaves, keeps the *)
(* whole invariant.                                                        *)
THEOREM GraphInvariant == GraphSpec => []GraphInv
<1>1. GraphInit => GraphInv
  BY InitHolds
<1>2. GraphInv /\ [GraphNext]_graphVars => GraphInv'
  BY NextKeeps
<1> QED
  BY <1>1, <1>2, PTL DEF GraphSpec

(* Every variable keeps its type: in particular no OUT list, whose bound   *)
(* gensyn_gate_connect tests before it takes the old connection away, ever *)
(* grows past MAX_CX entries.                                              *)
THEOREM GraphTypeCorrect == GraphSpec => []GraphTypeOK
<1>1. GraphInv => GraphTypeOK
  BY DEF GraphInv
<1> QED
  BY <1>1, GraphInvariant, PTL

(* The two ends of the connections agree, with multiplicity, after any     *)
(* sequence of gate-add, gate-connect and gate-disconnect commands.        *)
THEOREM MirrorHolds == GraphSpec => []Mirror
<1>1. GraphInv => Mirror
  BY DEF GraphInv
<1> QED
  BY <1>1, GraphInvariant, PTL

(* No used OUT entry is empty or stale, and every IN is empty or leads to  *)
(* an allocated gate.                                                      *)
THEOREM NothingDangles == GraphSpec => []NoDangling
<1>1. GraphInv => NoDangling
  BY DEF GraphInv
<1> QED
  BY <1>1, GraphInvariant, PTL

(* The table names every allocated gate exactly once. *)
THEOREM GatesAreNamed == GraphSpec => []OneName
<1>1. GraphInv => OneName
  BY DEF GraphInv
<1> QED
  BY <1>1, GraphInvariant, PTL

-----------------------------------------------------------------------------
(* Bystanders. *)

(* What Bystanders says of a step. *)
Spared ==
  \A g, h \in live, i, j \in Slot :
    /\ inrefs[g][i] # inrefs'[g][i]
    /\ inrefs[h][j] # inrefs'[h][j]
    => g = h /\ i = j /\
       \A p \in live \ {inrefs[g][i], inrefs'[g][i]} :
          outrefs'[p] = outrefs[p] /\ nouts'[p] = nouts[p]

(* The lists of all but the old producer and the new one stay. *)
LEMMA RelinkSpares ==
  ASSUME GraphTypeOK, NEW from \in Gate \cup {NULL}, NEW to \in Gate, NEW i, Relink(from, i, to)
  PROVE  Spared
<1>1. /\ inrefs \in [Gate -> [Slot -> Gate \cup {NULL}]]
      /\ inrefs' = [inrefs EXCEPT ![to] = [@ EXCEPT ![i] = from]]
      /\ live \subseteq Gate
  BY DEF GraphTypeOK, Relink
<1>2. ASSUME NEW g \in live, NEW j \in Slot, inrefs[g][j] # inrefs'[g][j]
      PROVE  g = to /\ j = i /\ inrefs'[g][j] = from
  <2>1. g = to
    BY <1>1, <1>2
  <2>2. inrefs'[to] = [inrefs[to] EXCEPT ![i] = from]
    BY <1>1
  <2>3. inrefs[to] \in [Slot -> Gate \cup {NULL}]
    BY <1>1
  <2>4. j = i
    BY <1>2, <2>1, <2>2, <2>3
  <2> QED
    BY <2>1, <2>2, <2>3, <2>4
<1>3. ASSUME NEW p \in live, p # inrefs[to][i], p # from
      PROVE  outrefs'[p] = outrefs[p] /\ nouts'[p] = nouts[p]
  <2>1. outrefs \in [Gate -> [Slot -> Gate \cup {NULL}]] /\ nouts \in [Gate -> 0 .. MaxCx]
    BY DEF GraphTypeOK
  <2>2. OutsLeft(to, i)[p] = outrefs[p]
    BY <1>1, <1>3, <2>1 DEF OutsLeft
  <2>3. NoutsLeft(to, i)[p] = nouts[p]
    BY <1>1, <1>3, <2>1 DEF NoutsLeft
  <2>4. p \in DOMAIN OutsLeft(to, i) /\ p \in DOMAIN NoutsLeft(to, i)
    BY <1>1, <2>1 DEF OutsLeft, NoutsLeft
  <2> QED
    BY <1>3, <2>2, <2>3, <2>4 DEF Relink
<1> QED
  <2> SUFFICES ASSUME NEW g \in live, NEW h \in live, NEW j \in Slot, NEW k \in Slot,
                      inrefs[g][j] # inrefs'[g][j], inrefs[h][k] # inrefs'[h][k]
               PROVE  /\ g = h /\ j = k
                      /\ \A p \in live \ {inrefs[g][j], inrefs'[g][j]} :
                            outrefs'[p] = outrefs[p] /\ nouts'[p] = nouts[p]
    BY DEF Spared
  <2>1. g = to /\ j = i /\ inrefs'[g][j] = from /\ h = to /\ k = i
    BY <1>2
  <2> QED
    BY <1>3, <2>1

LEMMA NextSpares == GraphInv /\ GraphNext => Spared
<1> SUFFICES ASSUME GraphInv, GraphNext
             PROVE  Spared
  OBVIOUS
<1>0. GraphTypeOK /\ live \subseteq Gate /\ gates \in [Name -> Gate \cup {NULL}]
  BY DEF GraphInv, GraphTypeOK
<1>1. ASSUME UNCHANGED refs
      PROVE  Spared
  BY <1>1 DEF Spared, refs
<1>2. ASSUME NEW t \in Type, NEW n \in Name, GateAdd(t, n)
      PROVE  Spared
  <2>1. PICK g \in Gate \ live : inrefs' = [inrefs EXCEPT ![g] = NoRefs]
    BY <1>2 DEF GateAdd
  <2>2. \A h \in live : inrefs'[h] = inrefs[h]
    BY <1>0, <2>1 DEF GraphTypeOK
  <2> QED
    BY <2>2 DEF Spared
<1>3. ASSUME NEW from \in Gate \cup {NULL}, NEW to \in Gate, NEW i,
             Connects(from, i, to) \/ Ignored(from, i, to)
      PROVE  Spared
  BY <1>0, <1>1, <1>3, RelinkSpares DEF Connects, Ignored
<1>4. ASSUME NEW a \in Name, NEW b \in Name, NEW i \in 0 .. MaxCx,
             GateConnect(a, i, b) \/ GateDisconnect(a, i, b)
      PROVE  Spared
  <2>1. gates[a] \in Gate /\ gates[b] \in Gate
    BY <1>0, <1>4 DEF GateConnect, GateDisconnect
  <2> QED
    BY <1>3, <1>4, <2>1 DEF GateConnect, GateDisconnect
<1> QED
  BY <1>1, <1>2, <1>4 DEF GraphNext, GateAddRefused, NoSuchGate

(* A command changes at most one IN, and of the OUT lists only those of    *)
(* the gate that lost it and of the one that won it: the loop that fills   *)
(* the gap (gate.c:311-319) disturbs no third gate.                        *)
THEOREM BystandersSpared == GraphSpec => Bystanders
<1>1. GraphInv /\ [GraphNext]_graphVars => [Spared]_graphVars
  BY NextSpares
<1>2. GraphSpec => [][Spared]_graphVars
  BY <1>1, GraphInvariant, PTL DEF GraphSpec
<1> QED
  BY <1>2 DEF Bystanders, Spared
=============================================================================
