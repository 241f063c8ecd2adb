----------------------------- MODULE HashTableProofs ---------------------------
(***************************************************************************)
(* Proofs about HashTable, for any keys, hashes, length of a chain and     *)
(* number of buckets: through collisions, removals and resizes the table   *)
(* is the map of Dictionary, the count covers what a resize gathers, and   *)
(* an iteration that no resize disturbs misses nothing.                    *)
(***************************************************************************)
EXTENDS HashTable, SequenceTheorems, FiniteSetTheorems, WellFoundedInduction, TLAPS

-----------------------------------------------------------------------------
(* The inductive invariant: where the entries are, in each phase. *)

Members(chain) == {chain[p] : p \in DOMAIN chain}

Unique(chain) == \A p, q \in DOMAIN chain : chain[p].key = chain[q].key => p = q

Chain == {c \in Seq(Entry) : Unique(c)}

(* Every entry is in the chain of its hash, and no key is there twice. *)
BucketsOK ==
  /\ nBuckets \in Nat \ {0}
  /\ buckets \in [Bucket -> Chain]
  /\ \A b \in Bucket : \A e \in Members(buckets[b]) : hash_to_index(e.key) = b

(* A resize has gathered the entries of the first n buckets, ... *)
GatherOK ==
  pc = "gather" =>
    /\ n <= nBuckets
    /\ \A e \in Entry : e \in Members(entries) <=>
                          \E b \in Bucket : b < n /\ e \in Members(buckets[b])

(* ... or handed out those before the n-th. *)
RedistributeOK ==
  pc = "redistribute" =>
    /\ 1 <= n /\ n <= Len(entries) + 1
    /\ \A b \in Bucket, e \in Entry :
         e \in Members(buckets[b]) <=>
           hash_to_index(e.key) = b /\ \E p \in DOMAIN entries : p < n /\ entries[p] = e

ResizeOK ==
  /\ pc \in {"idle", "gather", "redistribute"}
  /\ n \in Nat
  /\ entries \in Chain
  /\ pc # "idle" => again \in Key \X Value

TableInv == BucketsOK /\ ResizeOK /\ GatherOK /\ RedistributeOK

-----------------------------------------------------------------------------
(* Chains. *)

LEMMA IndexIn ==
  ASSUME NEW k \in Key, NEW m \in Nat \ {0}
  PROVE  Index(k, m) \in 0 .. m - 1
<1>1. HashMod \in Nat \ {0} /\ Hash[k] \in Nat
  BY TableAssumption
<1>2. (Hash[k] * 11) % HashMod \in Nat
  BY <1>1
<1> DEFINE h == (Hash[k] * 11) % HashMod
<1> HIDE DEF h
<1>3. h \in Nat => h % m \in 0 .. m - 1
  OBVIOUS
<1> QED
  BY <1>2, <1>3 DEF Index, h

LEMMA PlaceIs ==
  ASSUME NEW c \in Chain, NEW p \in DOMAIN c
  PROVE  Place(c, c[p].key) = p /\ Has(c, c[p].key)
<1> DEFINE P(x) == /\ c[x].key = c[p].key
                   /\ \A q \in DOMAIN c : c[q].key = c[p].key => x <= q
<1>1. Unique(c) /\ p \in Nat
  BY DEF Chain
<1>2. P(p)
  BY <1>1 DEF Unique
<1>3. \A x \in DOMAIN c : P(x) => x = p
  BY <1>1 DEF Unique
<1>4. (CHOOSE x \in DOMAIN c : P(x)) = p
  BY <1>2, <1>3
<1> QED
  BY <1>4 DEF Place, Has

LEMMA LookupFinds ==
  ASSUME NEW c \in Chain, NEW e \in Members(c)
  PROVE  Lookup(c, e.key) = e.value /\ Has(c, e.key)
<1>1. PICK p \in DOMAIN c : c[p] = e
  BY DEF Members
<1> QED
  BY <1>1, PlaceIs DEF Lookup

LEMMA LookupMisses ==
  ASSUME NEW c, NEW k, \A e \in Members(c) : e.key # k
  PROVE  Lookup(c, k) = NULL /\ ~Has(c, k)
BY DEF Members, Lookup, Has

(* What a lookup finds depends on the entries of its key only. *)
LEMMA LookupSame ==
  ASSUME NEW c \in Chain, NEW d \in Chain, NEW k,
         \A e \in Entry : e.key = k => (e \in Members(c) <=> e \in Members(d))
  PROVE  Lookup(c, k) = Lookup(d, k)
<1>1. Members(c) \subseteq Entry /\ Members(d) \subseteq Entry
  BY DEF Members, Chain
<1>2. CASE \E e \in Members(c) : e.key = k
  <2>1. PICK e \in Members(c) : e.key = k
    BY <1>2
  <2>2. e \in Members(d)
    BY <1>1, <2>1
  <2>3. Lookup(c, e.key) = e.value
    BY LookupFinds
  <2>4. Lookup(d, e.key) = e.value
    BY <2>2, LookupFinds
  <2> QED
    BY <2>1, <2>3, <2>4
<1>3. CASE ~\E e \in Members(c) : e.key = k
  <2>1. \A e \in Members(d) : e.key # k
    BY <1>1, <1>3
  <2> QED
    BY <1>3, <2>1, LookupMisses
<1> QED
  BY <1>2, <1>3

LEMMA EmptyChain == <<>> \in Chain /\ Members(<<>>) = {}
BY EmptySeq DEF Chain, Unique, Members

LEMMA AppendChain ==
  ASSUME NEW c \in Chain, NEW e \in Entry, \A f \in Members(c) : f.key # e.key
  PROVE  /\ Append(c, e) \in Chain
         /\ \A f : f \in Members(Append(c, e)) <=> f \in Members(c) \/ f = e
<1> DEFINE d == Append(c, e)
<1>1. c \in Seq(Entry) /\ Unique(c) /\ Len(c) \in Nat /\ DOMAIN c = 1 .. Len(c)
  BY DEF Chain
<1>2. /\ d \in Seq(Entry) /\ Len(d) = Len(c) + 1 /\ DOMAIN d = 1 .. Len(c) + 1
      /\ \A p \in DOMAIN c : d[p] = c[p]
      /\ d[Len(c) + 1] = e
  BY <1>1, AppendProperties
<1>3. \A p \in DOMAIN c : c[p].key # e.key
  BY DEF Members
<1> HIDE DEF d
<1>4. Unique(d)
  BY <1>1, <1>2, <1>3 DEF Unique
<1>5. ASSUME NEW f
      PROVE  f \in Members(d) <=> f \in Members(c) \/ f = e
  <2>1. \A p \in 1 .. Len(c) + 1 : p \in DOMAIN c \/ p = Len(c) + 1
    BY <1>1
  <2>2. DOMAIN c \subseteq DOMAIN d /\ Len(c) + 1 \in DOMAIN d
    BY <1>1, <1>2
  <2> QED
    BY <1>2, <2>1, <2>2 DEF Members
<1> QED
  BY <1>2, <1>4, <1>5 DEF Chain, d

LEMMA UpdateChain ==
  ASSUME NEW c \in Chain, NEW k \in Key, NEW v \in Value, Has(c, k),
         NEW d, d = [c EXCEPT ![Place(c, k)].value = v]
  PROVE  /\ d \in Chain
         /\ \A f : f \in Members(d) <=>
              \/ f \in Members(c) /\ f.key # k
              \/ f = [key |-> k, value |-> v]
<1>1. PICK p \in DOMAIN c : c[p].key = k
  BY DEF Has
<1>2. Place(c, k) = p
  BY <1>1, PlaceIs
<1>3. c \in Seq(Entry) /\ Unique(c) /\ c[p] \in Entry
  BY DEF Chain
<1>4. d = [c EXCEPT ![p] = [key |-> k, value |-> v]]
  <2>1. [c[p] EXCEPT !.value = v] = [key |-> k, value |-> v]
    BY <1>1, <1>3 DEF Entry
  <2> QED
    BY <1>2, <2>1
<1> DEFINE e == [key |-> k, value |-> v]
<1>5. e \in Entry /\ e.key = k
  BY DEF Entry
<1> HIDE DEF e
<1>6. /\ d \in Seq(Entry) /\ DOMAIN d = DOMAIN c /\ d[p] = e
      /\ \A q \in DOMAIN c : q # p => d[q] = c[q]
  <2>1. DOMAIN c = 1 .. Len(c)
    BY <1>3
  <2>2. /\ [c EXCEPT ![p] = e] \in Seq(Entry) /\ Len([c EXCEPT ![p] = e]) = Len(c)
        /\ \A q \in 1 .. Len(c) : [c EXCEPT ![p] = e][q] = IF q = p THEN e ELSE c[q]
    BY <1>3, <1>5, <2>1, ExceptSeq
  <2>3. d = [c EXCEPT ![p] = e]
    BY <1>4 DEF e
  <2> QED
    BY <2>1, <2>2, <2>3
<1>7. \A q \in DOMAIN c : d[q].key = c[q].key
  BY <1>1, <1>5, <1>6
<1>8. Unique(d)
  BY <1>3, <1>6, <1>7 DEF Unique
<1>9. \A q \in DOMAIN c : c[q].key = k => q = p
  BY <1>1, <1>3 DEF Unique
<1>10. ASSUME NEW f
       PROVE  f \in Members(d) <=> (f \in Members(c) /\ f.key # k) \/ f = e
  <2>1. ASSUME f \in Members(d)
        PROVE  (f \in Members(c) /\ f.key # k) \/ f = e
    <3>1. PICK q \in DOMAIN c : f = d[q]
      BY <1>6, <2>1 DEF Members
    <3> QED
      BY <1>6, <1>9, <3>1 DEF Members
  <2>2. ASSUME f \in Members(c), f.key # k
        PROVE  f \in Members(d)
    <3>1. PICK q \in DOMAIN c : f = c[q]
      BY <2>2 DEF Members
    <3> QED
      BY <1>1, <1>6, <2>2, <3>1 DEF Members
  <2>3. e \in Members(d)
    BY <1>6 DEF Members
  <2> QED
    BY <2>1, <2>2, <2>3
<1> QED
  BY <1>6, <1>8, <1>10 DEF Chain, e

LEMMA UnlinkChain ==
  ASSUME NEW c \in Chain, NEW k, Has(c, k), NEW d, d = Unlinked(c, Place(c, k))
  PROVE  /\ d \in Chain
         /\ \A f : f \in Members(d) <=> f \in Members(c) /\ f.key # k
<1>1. PICK p \in DOMAIN c : c[p].key = k
  BY DEF Has
<1>2. Place(c, k) = p
  BY <1>1, PlaceIs
<1>3. c \in Seq(Entry) /\ Unique(c) /\ Len(c) \in Nat /\ DOMAIN c = 1 .. Len(c) /\ p \in 1 .. Len(c)
  BY DEF Chain
<1> DEFINE s1 == SubSeq(c, 1, p - 1)
           s2 == SubSeq(c, p + 1, Len(c))
<1>4. s1 \in Seq(Entry) /\ Len(s1) = p - 1 /\ \A q \in 1 .. p - 1 : s1[q] = c[q]
  <2>1. \A q \in 1 .. p - 1 : c[q] \in Entry
    BY <1>3
  <2>2. \A q \in 1 .. (p - 1) - 1 + 1 : s1[q] = c[1 + q - 1]
    BY <1>3, <2>1, SubSeqProperties
  <2>3. s1 \in Seq(Entry) /\ Len(s1) = IF 1 <= p - 1 THEN (p - 1) - 1 + 1 ELSE 0
    BY <1>3, <2>1, SubSeqProperties
  <2> QED
    BY <1>3, <2>2, <2>3
<1>5. /\ s2 \in Seq(Entry) /\ Len(s2) = Len(c) - p
      /\ \A q \in 1 .. Len(c) - p : s2[q] = c[p + q]
  <2>1. \A q \in p + 1 .. Len(c) : c[q] \in Entry
    BY <1>3
  <2>2. \A q \in 1 .. Len(c) - (p + 1) + 1 : s2[q] = c[p + 1 + q - 1]
    BY <1>3, <2>1, SubSeqProperties
  <2>3. s2 \in Seq(Entry) /\ Len(s2) = IF p + 1 <= Len(c) THEN Len(c) - (p + 1) + 1 ELSE 0
    BY <1>3, <2>1, SubSeqProperties
  <2> QED
    BY <1>3, <2>2, <2>3
<1>6. d = s1 \o s2
  BY <1>2 DEF Unlinked
<1> HIDE DEF s1, s2
<1>7. /\ d \in Seq(Entry) /\ Len(d) = Len(c) - 1
      /\ \A q \in 1 .. Len(c) - 1 : d[q] = IF q < p THEN c[q] ELSE c[q + 1]
  <2>1. /\ d \in Seq(Entry) /\ Len(d) = Len(s1) + Len(s2)
        /\ \A q \in 1 .. Len(s1) + Len(s2) :
              d[q] = IF q <= Len(s1) THEN s1[q] ELSE s2[q - Len(s1)]
    BY <1>4, <1>5, <1>6, ConcatProperties
  <2>2. Len(s1) + Len(s2) = Len(c) - 1
    BY <1>3, <1>4, <1>5
  <2>3. ASSUME NEW q \in 1 .. Len(c) - 1
        PROVE  d[q] = IF q < p THEN c[q] ELSE c[q + 1]
    <3>1. d[q] = IF q <= p - 1 THEN s1[q] ELSE s2[q - (p - 1)]
      BY <1>4, <2>1, <2>2
    <3>2. CASE q < p
      <4>1. q \in 1 .. p - 1 /\ q <= p - 1
        BY <1>3, <3>2
      <4> QED
        BY <1>4, <3>1, <3>2, <4>1
    <3>3. CASE ~(q < p)
      <4>1. q - (p - 1) \in 1 .. Len(c) - p /\ p + (q - (p - 1)) = q + 1 /\ ~(q <= p - 1)
        BY <1>3, <3>3
      <4> QED
        BY <1>5, <3>1, <3>3, <4>1
    <3> QED
      BY <3>2, <3>3
  <2> QED
    BY <2>1, <2>2, <2>3
<1>8. \A q \in DOMAIN d : \E x \in DOMAIN c :
        d[q] = c[x] /\ x # p /\ x = IF q < p THEN q ELSE q + 1
  <2> TAKE q \in DOMAIN d
  <2>1. q \in 1 .. Len(c) - 1
    BY <1>7
  <2>2. (IF q < p THEN q ELSE q + 1) \in DOMAIN c
    BY <1>3, <2>1
  <2>3. PICK x \in DOMAIN c : x = IF q < p THEN q ELSE q + 1
    BY <2>2
  <2>4. d[q] = c[x] /\ x # p
    BY <1>3, <1>7, <2>1, <2>3
  <2> QED
    BY <2>3, <2>4
<1>9. \A x \in DOMAIN c : x # p => \E q \in DOMAIN d : d[q] = c[x]
  <2> TAKE x \in DOMAIN c
  <2> HAVE x # p
  <2>1. CASE x < p
    <3>1. x \in 1 .. Len(c) - 1
      BY <1>3, <2>1
    <3> QED
      BY <1>7, <2>1, <3>1
  <2>2. CASE ~(x < p)
    <3>1. x - 1 \in 1 .. Len(c) - 1 /\ ~(x - 1 < p) /\ x - 1 + 1 = x
      BY <1>3, <2>2
    <3> QED
      BY <1>7, <3>1
  <2> QED
    BY <2>1, <2>2
<1>10. Unique(d)
  <2> SUFFICES ASSUME NEW q \in DOMAIN d, NEW r \in DOMAIN d, d[q].key = d[r].key
               PROVE  q = r
    BY DEF Unique
  <2>1. q \in Nat /\ r \in Nat
    BY <1>7
  <2>2. (IF q < p THEN q ELSE q + 1) = (IF r < p THEN r ELSE r + 1)
    BY <1>3, <1>8 DEF Unique
  <2> QED
    BY <1>3, <2>1, <2>2
<1>11. ASSUME NEW f
       PROVE  f \in Members(d) <=> f \in Members(c) /\ f.key # k
  <2>1. ASSUME f \in Members(d)
        PROVE  f \in Members(c) /\ f.key # k
    <3>1. PICK q \in DOMAIN d : d[q] = f
      BY <2>1 DEF Members
    <3>2. PICK x \in DOMAIN c : f = c[x] /\ x # p
      BY <1>8, <3>1
    <3> QED
      BY <1>1, <1>3, <3>2 DEF Members, Unique
  <2>2. ASSUME f \in Members(c), f.key # k
        PROVE  f \in Members(d)
    <3>1. PICK x \in DOMAIN c : f = c[x]
      BY <2>2 DEF Members
    <3> QED
      BY <1>1, <1>9, <2>2, <3>1 DEF Members
  <2> QED
    BY <2>1, <2>2
<1> QED
  BY <1>7, <1>10, <1>11 DEF Chain

LEMMA JoinChains ==
  ASSUME NEW c \in Chain, NEW d \in Chain,
         \A e \in Members(c), f \in Members(d) : e.key # f.key
  PROVE  /\ c \o d \in Chain
         /\ \A f : f \in Members(c \o d) <=> f \in Members(c) \/ f \in Members(d)
<1> DEFINE j == c \o d
<1>1. /\ c \in Seq(Entry) /\ Unique(c) /\ Len(c) \in Nat /\ DOMAIN c = 1 .. Len(c)
      /\ d \in Seq(Entry) /\ Unique(d) /\ Len(d) \in Nat /\ DOMAIN d = 1 .. Len(d)
  BY DEF Chain
<1>2. /\ j \in Seq(Entry) /\ DOMAIN j = 1 .. Len(c) + Len(d)
      /\ \A q \in DOMAIN j : j[q] = IF q <= Len(c) THEN c[q] ELSE d[q - Len(c)]
  <2>1. /\ j \in Seq(Entry) /\ Len(j) = Len(c) + Len(d)
        /\ \A q \in 1 .. Len(c) + Len(d) : j[q] = IF q <= Len(c) THEN c[q] ELSE d[q - Len(c)]
    BY <1>1, ConcatProperties
  <2> QED
    BY <2>1
<1> HIDE DEF j
<1>3. \A q \in DOMAIN j :
        \/ q \in DOMAIN c /\ j[q] = c[q] /\ j[q] \in Members(c)
        \/ q - Len(c) \in DOMAIN d /\ j[q] = d[q - Len(c)] /\ j[q] \in Members(d)
  BY <1>1, <1>2 DEF Members
<1>4. Unique(j)
  <2> SUFFICES ASSUME NEW q \in DOMAIN j, NEW r \in DOMAIN j, j[q].key = j[r].key
               PROVE  q = r
    BY DEF Unique
  <2>1. CASE q \in DOMAIN c /\ j[q] = c[q] /\ r \in DOMAIN c /\ j[r] = c[r]
    BY <1>1, <2>1 DEF Unique
  <2>2. CASE q - Len(c) \in DOMAIN d /\ j[q] = d[q - Len(c)]
             /\ r - Len(c) \in DOMAIN d /\ j[r] = d[r - Len(c)]
    <3>1. q - Len(c) = r - Len(c)
      BY <1>1, <2>2 DEF Unique
    <3> QED
      BY <1>1, <1>2, <3>1
  <2> QED
    BY <1>3, <2>1, <2>2
<1>5. ASSUME NEW f
      PROVE  f \in Members(j) <=> f \in Members(c) \/ f \in Members(d)
  <2>1. ASSUME f \in Members(j)
        PROVE  f \in Members(c) \/ f \in Members(d)
    <3>1. PICK q \in DOMAIN j : f = j[q]
      BY <2>1 DEF Members
    <3> QED
      BY <1>3, <3>1
  <2>2. ASSUME f \in Members(c)
        PROVE  f \in Members(j)
    <3>1. PICK q \in DOMAIN c : f = c[q]
      BY <2>2 DEF Members
    <3>2. q \in DOMAIN j /\ q <= Len(c)
      BY <1>1, <1>2
    <3> QED
      BY <1>2, <3>1, <3>2 DEF Members
  <2>3. ASSUME f \in Members(d)
        PROVE  f \in Members(j)
    <3>1. PICK q \in DOMAIN d : f = d[q]
      BY <2>3 DEF Members
    <3>2. q + Len(c) \in DOMAIN j /\ ~(q + Len(c) <= Len(c)) /\ (q + Len(c)) - Len(c) = q
      BY <1>1, <1>2
    <3> QED
      BY <1>2, <3>1, <3>2 DEF Members
  <2> QED
    BY <2>1, <2>2, <2>3
<1> QED
  BY <1>2, <1>4, <1>5 DEF Chain, j

-----------------------------------------------------------------------------
(* What an insertion stores, once or in the chains of a resize. *)

InBuckets == [k \in Key |-> Lookup(buckets[hash_to_index(k)], k)]

(* d is the chain of k's bucket with k's value in it. *)
IsStored(k, v, d) ==
  /\ d \in Chain
  /\ \A f : f \in Members(d) <=>
       \/ f \in Members(buckets[hash_to_index(k)]) /\ f.key # k
       \/ f = [key |-> k, value |-> v]
  /\ buckets' = [buckets EXCEPT ![hash_to_index(k)] = d]

LEMMA HashInBucket ==
  ASSUME BucketsOK, NEW k \in Key
  PROVE  hash_to_index(k) \in Bucket /\ buckets[hash_to_index(k)] \in Chain
<1>1. hash_to_index(k) \in Bucket
  BY IndexIn DEF BucketsOK, hash_to_index, Bucket
<1> QED
  BY <1>1 DEF BucketsOK

LEMMA InsertStores ==
  ASSUME BucketsOK, NEW k \in Key, NEW v \in Value, Update(k, v) \/ Add(k, v)
  PROVE  /\ \E d : IsStored(k, v, d)
         /\ nBuckets' = nBuckets /\ n' = 0 /\ entries' = <<>>
         /\ \/ pc' = "idle"
            \/ pc' = "gather" /\ again' = <<k, v>>
<1> DEFINE b == hash_to_index(k)
           c == buckets[b]
<1>1. c \in Chain /\ b \in Bucket
  BY HashInBucket
<1>2. CASE Update(k, v)
  <2> DEFINE d == [c EXCEPT ![Place(c, k)].value = v]
  <2>1. Has(c, k) /\ buckets' = [buckets EXCEPT ![b] = d]
    BY <1>2 DEF Update
  <2>2. /\ d \in Chain
        /\ \A f : f \in Members(d) <=>
             \/ f \in Members(c) /\ f.key # k
             \/ f = [key |-> k, value |-> v]
    BY <1>1, <2>1, UpdateChain
  <2> HIDE DEF d
  <2>3. IsStored(k, v, d)
    BY <2>1, <2>2 DEF IsStored
  <2> QED
    BY <1>2, <2>3 DEF Update
<1>3. CASE Add(k, v)
  <2> DEFINE e == [key |-> k, value |-> v]
             d == Append(c, e)
  <2>1. ~Has(c, k) /\ buckets' = [buckets EXCEPT ![b] = d]
    BY <1>3 DEF Add
  <2>2. \A f \in Members(c) : f.key # k
    BY <2>1 DEF Has, Members
  <2>3. e \in Entry /\ e.key = k
    BY DEF Entry
  <2>4. d \in Chain /\ \A f : f \in Members(d) <=> f \in Members(c) \/ f = e
    BY <1>1, <2>2, <2>3, AppendChain
  <2> HIDE DEF d
  <2>5. IsStored(k, v, d)
    BY <2>1, <2>2, <2>4 DEF IsStored
  <2> QED
    BY <1>3, <2>5 DEF Add
<1> QED
  BY <1>2, <1>3

(* The chains stay as they must be, and the map changes at k only. *)
LEMMA StoredKeeps ==
  ASSUME BucketsOK, NEW k \in Key, NEW v \in Value, NEW d, IsStored(k, v, d),
         nBuckets' = nBuckets
  PROVE  BucketsOK' /\ InBuckets' = [InBuckets EXCEPT ![k] = v]
<1> DEFINE b == hash_to_index(k)
           e == [key |-> k, value |-> v]
<1>1. b \in Bucket /\ buckets[b] \in Chain /\ e \in Entry /\ e.key = k /\ e.value = v
  BY HashInBucket DEF Entry
<1>2. /\ d \in Chain
      /\ \A f : f \in Members(d) <=> (f \in Members(buckets[b]) /\ f.key # k) \/ f = e
      /\ buckets' = [buckets EXCEPT ![b] = d]
  BY DEF IsStored
<1> HIDE DEF e
<1>3. /\ nBuckets \in Nat \ {0} /\ buckets \in [Bucket -> Chain]
      /\ \A x \in Bucket : \A f \in Members(buckets[x]) : hash_to_index(f.key) = x
  BY DEF BucketsOK
<1>4. Bucket' = Bucket /\ \A x : hash_to_index(x)' = hash_to_index(x)
  BY DEF Bucket, hash_to_index
<1>5. buckets' \in [Bucket -> Chain] /\ buckets'[b] = d /\ \A x \in Bucket : x # b => buckets'[x] = buckets[x]
  BY <1>1, <1>2, <1>3
<1>6. ASSUME NEW x \in Bucket, NEW f \in Members(buckets'[x])
      PROVE  hash_to_index(f.key) = x
  <2>1. CASE x = b
    <3>1. f \in Members(d)
      BY <1>5, <2>1
    <3> QED
      BY <1>1, <1>2, <1>3, <2>1, <3>1
  <2>2. CASE x # b
    BY <1>3, <1>5, <2>2
  <2> QED
    BY <2>1, <2>2
<1>7. BucketsOK'
  <2>1. \A x \in Bucket : Members(buckets[x])' = Members(buckets'[x])
    BY DEF Members
  <2> QED
    BY <1>3, <1>4, <1>5, <1>6, <2>1 DEF BucketsOK
<1>8. ASSUME NEW j \in Key
      PROVE  Lookup(buckets'[hash_to_index(j)], j) =
               IF j = k THEN v ELSE Lookup(buckets[hash_to_index(j)], j)
  <2>0. hash_to_index(j) \in Bucket /\ buckets[hash_to_index(j)] \in Chain
    BY HashInBucket
  <2>1. CASE j = k
    <3>1. Lookup(d, e.key) = e.value
      BY <1>2, LookupFinds
    <3> QED
      BY <1>1, <1>5, <2>1, <3>1
  <2>2. CASE j # k /\ hash_to_index(j) = b
    <3>1. \A f \in Entry : f.key = j => (f \in Members(d) <=> f \in Members(buckets[b]))
      BY <1>1, <1>2, <2>2
    <3>2. Lookup(d, j) = Lookup(buckets[b], j)
      BY <1>1, <1>2, <3>1, LookupSame
    <3> QED
      BY <1>5, <2>2, <3>2
  <2>3. CASE j # k /\ hash_to_index(j) # b
    BY <1>5, <2>0, <2>3
  <2> QED
    BY <2>1, <2>2, <2>3
<1>9. InBuckets' = [j \in Key |-> Lookup(buckets'[hash_to_index(j)], j)]
  BY DEF InBuckets, hash_to_index
<1> QED
  BY <1>7, <1>8, <1>9 DEF InBuckets

-----------------------------------------------------------------------------
(* Every step keeps the invariant, and what it does to the map. *)

LEMMA ContentsIdle ==
  ASSUME pc # "redistribute"
  PROVE  Contents = InBuckets
BY DEF Contents, InBuckets

(* Once all is handed out, the new chains hold what was gathered. *)
LEMMA ContentsRebuilt ==
  ASSUME TableInv, pc = "redistribute", n > Len(entries)
  PROVE  Contents = InBuckets
<1>1. BucketsOK /\ entries \in Chain /\ n \in Nat
  BY DEF TableInv, ResizeOK
<1>2. ASSUME NEW k \in Key
      PROVE  Lookup(entries, k) = Lookup(buckets[hash_to_index(k)], k)
  <2>1. hash_to_index(k) \in Bucket /\ buckets[hash_to_index(k)] \in Chain
    BY <1>1, HashInBucket
  <2>2. \A p \in DOMAIN entries : p < n
    BY <1>1 DEF Chain
  <2>3. \A e \in Entry : e.key = k =>
          (e \in Members(entries) <=> e \in Members(buckets[hash_to_index(k)]))
    BY <2>1, <2>2 DEF TableInv, RedistributeOK, Members
  <2> QED
    BY <1>1, <2>1, <2>3, LookupSame
<1> QED
  BY <1>2 DEF Contents, InBuckets

LEMMA InsertKeeps ==
  ASSUME TableInv, Contents = InBuckets, NEW k \in Key, NEW v \in Value,
         Update(k, v) \/ Add(k, v)
  PROVE  TableInv' /\ Contents' = [Contents EXCEPT ![k] = v]
<1>1. BucketsOK
  BY DEF TableInv
<1>2. PICK d : IsStored(k, v, d)
  BY <1>1, InsertStores
<1>3. /\ nBuckets' = nBuckets /\ n' = 0 /\ entries' = <<>>
      /\ \/ pc' = "idle"
         \/ pc' = "gather" /\ again' = <<k, v>>
  BY <1>1, InsertStores
<1>4. BucketsOK' /\ InBuckets' = [InBuckets EXCEPT ![k] = v]
  BY <1>1, <1>2, <1>3, StoredKeeps
<1>5. Contents' = InBuckets'
  BY <1>3 DEF Contents, InBuckets
<1>6. ResizeOK' /\ RedistributeOK'
  BY <1>3, EmptyChain DEF ResizeOK, RedistributeOK
<1>7. GatherOK'
  <2>1. Members(entries') = {} /\ Members(entries)' = {}
    BY <1>3, EmptyChain DEF Members
  <2>2. \A b \in Bucket' : ~(b < n')
    BY <1>3, <1>4 DEF BucketsOK, Bucket
  <2>3. n' <= nBuckets'
    BY <1>3, <1>4 DEF BucketsOK
  <2> QED
    BY <2>1, <2>2, <2>3 DEF GatherOK
<1> QED
  BY <1>4, <1>5, <1>6, <1>7 DEF TableInv

LEMMA GatherKeeps ==
  ASSUME TableInv, Gather
  PROVE  TableInv' /\ Contents' = Contents
<1>1. /\ pc = "gather" /\ pc' = "gather" /\ n < nBuckets /\ n' = n + 1
      /\ entries' = entries \o buckets[n]
      /\ nBuckets' = nBuckets /\ buckets' = buckets /\ again' = again
  BY DEF Gather, table
<1>2. /\ BucketsOK /\ n \in Nat /\ nBuckets \in Nat /\ entries \in Chain
      /\ again \in Key \X Value
      /\ \A e \in Entry : e \in Members(entries) <=>
                            \E b \in Bucket : b < n /\ e \in Members(buckets[b])
  BY <1>1 DEF TableInv, ResizeOK, GatherOK, BucketsOK
<1>3. n \in Bucket /\ buckets[n] \in Chain
  BY <1>1, <1>2 DEF Bucket, BucketsOK
<1>4. Members(entries) \subseteq Entry /\ Members(buckets[n]) \subseteq Entry
  BY <1>2, <1>3 DEF Members, Chain
<1>5. \A e \in Members(entries), f \in Members(buckets[n]) : e.key # f.key
  <2> SUFFICES ASSUME NEW e \in Members(entries), NEW f \in Members(buckets[n])
               PROVE  e.key # f.key
    OBVIOUS
  <2>1. PICK b \in Bucket : b < n /\ e \in Members(buckets[b])
    BY <1>2, <1>4
  <2>2. hash_to_index(e.key) = b /\ hash_to_index(f.key) = n
    BY <1>2, <1>3, <2>1 DEF BucketsOK
  <2>3. b # n
    BY <1>2, <2>1 DEF Bucket
  <2> QED
    BY <2>2, <2>3
<1>6. /\ entries' \in Chain
      /\ \A f : f \in Members(entries') <=> f \in Members(entries) \/ f \in Members(buckets[n])
  BY <1>1, <1>2, <1>3, <1>5, JoinChains
<1>7. \A e \in Entry : e \in Members(entries') <=>
                         \E b \in Bucket : b < n + 1 /\ e \in Members(buckets[b])
  <2>1. \A b \in Bucket : b < n + 1 <=> b < n \/ b = n
    BY <1>2 DEF Bucket
  <2> QED
    BY <1>2, <1>3, <1>6, <2>1
<1>8. BucketsOK'
  BY <1>1, <1>2 DEF BucketsOK, Bucket, hash_to_index, Members
<1>9. GatherOK'
  <2>1. n' <= nBuckets' /\ Bucket' = Bucket
    BY <1>1, <1>2 DEF Bucket
  <2>2. \A b : Members(buckets[b])' = Members(buckets[b])
    BY <1>1
  <2>3. Members(entries)' = Members(entries')
    OBVIOUS
  <2> QED
    BY <1>1, <1>7, <2>1, <2>2, <2>3 DEF GatherOK
<1>10. ResizeOK' /\ RedistributeOK'
  BY <1>1, <1>2, <1>6 DEF ResizeOK, RedistributeOK
<1>11. Contents' = Contents
  BY <1>1 DEF Contents, hash_to_index
<1> QED
  BY <1>8, <1>9, <1>10, <1>11 DEF TableInv

LEMMA RebuildKeeps ==
  ASSUME TableInv, Rebuild
  PROVE  TableInv' /\ Contents' = Contents
<1>1. /\ pc = "gather" /\ pc' = "redistribute" /\ n = nBuckets /\ n' = 1
      /\ nBuckets' = 2 * nBuckets
      /\ buckets' = [b \in 0 .. 2 * nBuckets - 1 |-> <<>>]
      /\ entries' = entries /\ again' = again
  BY DEF Rebuild
<1>2. /\ BucketsOK /\ n \in Nat /\ nBuckets \in Nat \ {0} /\ entries \in Chain
      /\ again \in Key \X Value
      /\ \A e \in Entry : e \in Members(entries) <=>
                            \E b \in Bucket : b < n /\ e \in Members(buckets[b])
  BY <1>1 DEF TableInv, ResizeOK, GatherOK, BucketsOK
<1>3. Bucket' = 0 .. 2 * nBuckets - 1 /\ 2 * nBuckets \in Nat \ {0}
  BY <1>1, <1>2 DEF Bucket
<1>4. \A b \in Bucket' : buckets'[b] = <<>> /\ Members(buckets'[b]) = {}
  BY <1>1, <1>3, EmptyChain
<1>5. BucketsOK'
  <2>1. buckets' \in [Bucket' -> Chain] /\ nBuckets' \in Nat \ {0}
    BY <1>1, <1>3, EmptyChain
  <2>2. \A b : Members(buckets[b])' = Members(buckets'[b])
    OBVIOUS
  <2> QED
    BY <1>4, <2>1, <2>2 DEF BucketsOK
<1>6. RedistributeOK'
  <2>1. Len(entries) \in Nat /\ \A p \in DOMAIN entries : ~(p < 1)
    BY <1>2 DEF Chain
  <2>2. \A b : Members(buckets[b])' = Members(buckets'[b])
    OBVIOUS
  <2>3. \A b \in Bucket', e \in Entry :
          e \in Members(buckets[b])' <=>
            hash_to_index(e.key)' = b /\ \E p \in DOMAIN entries : p < 1 /\ entries[p] = e
    BY <1>4, <2>1, <2>2
  <2> QED
    BY <1>1, <2>1, <2>3 DEF RedistributeOK
<1>7. ResizeOK' /\ GatherOK'
  BY <1>1, <1>2 DEF ResizeOK, GatherOK
<1>8. ASSUME NEW k \in Key
      PROVE  Lookup(entries, k) = Lookup(buckets[hash_to_index(k)], k)
  <2>1. hash_to_index(k) \in Bucket /\ buckets[hash_to_index(k)] \in Chain
    BY <1>2, HashInBucket
  <2>2. \A b \in Bucket : b < n
    BY <1>1, <1>2 DEF Bucket
  <2>3. \A e \in Entry : e.key = k =>
          (e \in Members(entries) <=> e \in Members(buckets[hash_to_index(k)]))
    BY <1>2, <2>1, <2>2 DEF BucketsOK
  <2> QED
    BY <1>2, <2>1, <2>3, LookupSame
<1>9. Contents' = Contents
  BY <1>1, <1>8 DEF Contents
<1> QED
  BY <1>5, <1>6, <1>7, <1>9 DEF TableInv

LEMMA RedistributeKeeps ==
  ASSUME TableInv, Redistribute
  PROVE  TableInv' /\ Contents' = Contents
<1> DEFINE e == entries[n]
           b == hash_to_index(e.key)
           d == Append(buckets[b], e)
<1>1. /\ pc = "redistribute" /\ pc' = "redistribute" /\ n <= Len(entries) /\ n' = n + 1
      /\ buckets' = [buckets EXCEPT ![b] = d]
      /\ nBuckets' = nBuckets /\ entries' = entries /\ again' = again
  BY DEF Redistribute
<1>2. /\ BucketsOK /\ n \in Nat /\ 1 <= n /\ entries \in Chain /\ again \in Key \X Value
      /\ \A x \in Bucket, f \in Entry :
           f \in Members(buckets[x]) <=>
             hash_to_index(f.key) = x /\ \E p \in DOMAIN entries : p < n /\ entries[p] = f
  BY <1>1 DEF TableInv, ResizeOK, RedistributeOK
<1>3. /\ entries \in Seq(Entry) /\ Len(entries) \in Nat /\ DOMAIN entries = 1 .. Len(entries)
      /\ n \in DOMAIN entries /\ Unique(entries)
  BY <1>1, <1>2 DEF Chain
<1>4. e \in Entry /\ e.key \in Key
  <2>1. e \in Entry
    BY <1>3
  <2> QED
    BY <2>1 DEF Entry
<1>5. b \in Bucket /\ buckets[b] \in Chain
  BY <1>2, <1>4, HashInBucket
<1>6. \A f \in Members(buckets[b]) : f.key # e.key
  <2> SUFFICES ASSUME NEW f \in Members(buckets[b])
               PROVE  f.key # e.key
    OBVIOUS
  <2>1. f \in Entry
    BY <1>5 DEF Members, Chain
  <2>2. PICK p \in DOMAIN entries : p < n /\ entries[p] = f
    BY <1>2, <1>5, <2>1
  <2>3. p # n
    BY <1>3, <2>2
  <2> QED
    BY <1>3, <2>2, <2>3 DEF Unique
<1>7. d \in Chain /\ \A f : f \in Members(d) <=> f \in Members(buckets[b]) \/ f = e
  BY <1>4, <1>5, <1>6, AppendChain
<1>8. hash_to_index(e.key) = b
  OBVIOUS
<1>9. entries[n] = e
  OBVIOUS
<1> HIDE DEF d, b, e
<1>10. /\ buckets' \in [Bucket -> Chain] /\ buckets'[b] = d
       /\ \A x \in Bucket : x # b => buckets'[x] = buckets[x]
  BY <1>1, <1>2, <1>5, <1>7 DEF BucketsOK
<1>11. /\ Bucket' = Bucket /\ (\A x : hash_to_index(x)' = hash_to_index(x))
       /\ \A x : Members(buckets[x])' = Members(buckets'[x])
  BY <1>1 DEF Bucket, hash_to_index
<1>12. \A x \in Bucket, f \in Entry :
         f \in Members(buckets'[x]) <=>
           hash_to_index(f.key) = x /\ \E p \in DOMAIN entries : p < n + 1 /\ entries[p] = f
  <2> SUFFICES ASSUME NEW x \in Bucket, NEW f \in Entry
               PROVE  f \in Members(buckets'[x]) <=>
                        /\ hash_to_index(f.key) = x
                        /\ \E p \in DOMAIN entries : p < n + 1 /\ entries[p] = f
    OBVIOUS
  <2>1. \A p \in DOMAIN entries : p < n + 1 <=> p < n \/ p = n
    BY <1>2, <1>3
  <2>2. (\E p \in DOMAIN entries : p < n + 1 /\ entries[p] = f)
          <=> (\E p \in DOMAIN entries : p < n /\ entries[p] = f) \/ f = e
    BY <1>3, <1>9, <2>1
  <2>3. CASE x = b
    BY <1>2, <1>7, <1>8, <1>10, <2>2, <2>3
  <2>4. CASE x # b
    BY <1>2, <1>8, <1>10, <2>2, <2>4
  <2> QED
    BY <2>3, <2>4
<1>13. RedistributeOK'
  <2>1. 1 <= n' /\ n' <= Len(entries') + 1
    BY <1>1, <1>2, <1>3
  <2>2. \A x \in Bucket', f \in Entry :
          f \in Members(buckets[x])' <=>
            hash_to_index(f.key)' = x /\ \E p \in DOMAIN entries' : p < n' /\ entries'[p] = f
    BY <1>1, <1>11, <1>12
  <2> QED
    BY <2>1, <2>2 DEF RedistributeOK
<1>14. BucketsOK'
  <2>1. \A x \in Bucket : \A f \in Members(buckets'[x]) : f \in Entry
    BY <1>10 DEF Members, Chain
  <2>2. \A x \in Bucket : \A f \in Members(buckets'[x]) : hash_to_index(f.key) = x
    BY <1>12, <2>1
  <2>3. nBuckets' \in Nat \ {0}
    BY <1>1, <1>2 DEF BucketsOK
  <2> QED
    BY <1>10, <1>11, <2>2, <2>3 DEF BucketsOK
<1>15. ResizeOK' /\ GatherOK'
  BY <1>1, <1>2 DEF ResizeOK, GatherOK
<1>16. Contents' = Contents
  BY <1>1 DEF Contents, hash_to_index
<1> QED
  BY <1>13, <1>14, <1>15, <1>16 DEF TableInv

LEMMA RemoveKeeps ==
  ASSUME TableInv, NEW k \in Key, Remove(k)
  PROVE  TableInv' /\ Contents' = [Contents EXCEPT ![k] = NULL]
<1> DEFINE b == hash_to_index(k)
           d == Unlinked(buckets[b], Place(buckets[b], k))
<1>1. /\ pc = "idle" /\ pc' = "idle" /\ Has(buckets[b], k)
      /\ buckets' = [buckets EXCEPT ![b] = d]
      /\ nBuckets' = nBuckets /\ UNCHANGED resizing
  BY DEF Remove, resizing
<1>2. /\ BucketsOK /\ b \in Bucket /\ buckets[b] \in Chain
      /\ \A x \in Bucket : \A f \in Members(buckets[x]) : hash_to_index(f.key) = x
  BY HashInBucket DEF TableInv, BucketsOK
<1>3. d \in Chain /\ \A f : f \in Members(d) <=> f \in Members(buckets[b]) /\ f.key # k
  BY <1>1, <1>2, UnlinkChain
<1>4. hash_to_index(k) = b
  OBVIOUS
<1> HIDE DEF b, d
<1>5. /\ buckets' \in [Bucket -> Chain] /\ buckets'[b] = d
      /\ \A x \in Bucket : x # b => buckets'[x] = buckets[x]
  BY <1>1, <1>2, <1>3 DEF BucketsOK
<1>6. /\ Bucket' = Bucket /\ (\A x : hash_to_index(x)' = hash_to_index(x))
      /\ \A x : Members(buckets[x])' = Members(buckets'[x])
  BY <1>1 DEF Bucket, hash_to_index
<1>7. \A x \in Bucket : \A f \in Members(buckets'[x]) : hash_to_index(f.key) = x
  BY <1>2, <1>3, <1>5
<1>8. BucketsOK'
  BY <1>1, <1>2, <1>5, <1>6, <1>7 DEF BucketsOK
<1>9. ResizeOK' /\ GatherOK' /\ RedistributeOK'
  BY <1>1 DEF TableInv, ResizeOK, GatherOK, RedistributeOK, resizing
<1>10. ASSUME NEW j \in Key
       PROVE  Lookup(buckets'[hash_to_index(j)], j) =
                IF j = k THEN NULL ELSE Lookup(buckets[hash_to_index(j)], j)
  <2>1. CASE j = k
    BY <1>3, <1>4, <1>5, <2>1, LookupMisses
  <2>2. CASE j # k /\ hash_to_index(j) = b
    <3>1. Lookup(d, j) = Lookup(buckets[b], j)
      BY <1>2, <1>3, <2>2, LookupSame
    <3> QED
      BY <1>5, <2>2, <3>1
  <2>3. CASE j # k /\ hash_to_index(j) # b
    BY <1>2, <1>5, <2>3, HashInBucket
  <2> QED
    BY <2>1, <2>2, <2>3
<1>11. InBuckets' = [j \in Key |-> Lookup(buckets'[hash_to_index(j)], j)]
  BY <1>1 DEF InBuckets, hash_to_index
<1>12. Contents = InBuckets /\ Contents' = InBuckets'
  BY <1>1 DEF Contents, InBuckets
<1> QED
  BY <1>8, <1>9, <1>10, <1>11, <1>12 DEF TableInv, InBuckets

LEMMA ClearKeeps ==
  ASSUME TableInv, Clear
  PROVE  TableInv' /\ Contents' = [k \in Key |-> NULL]
<1>1. /\ pc = "idle" /\ pc' = "idle" /\ buckets' = [b \in Bucket |-> <<>>]
      /\ nBuckets' = nBuckets /\ UNCHANGED resizing
  BY DEF Clear, resizing
<1>2. BucketsOK
  BY DEF TableInv
<1>3. Bucket' = Bucket /\ \A x : Members(buckets[x])' = Members(buckets'[x])
  BY <1>1 DEF Bucket
<1>4. \A b \in Bucket : buckets'[b] = <<>> /\ Members(buckets'[b]) = {}
  BY <1>1, EmptyChain
<1>5. BucketsOK'
  BY <1>1, <1>2, <1>3, <1>4, EmptyChain DEF BucketsOK
<1>6. ResizeOK' /\ GatherOK' /\ RedistributeOK'
  BY <1>1 DEF TableInv, ResizeOK, GatherOK, RedistributeOK, resizing
<1>7. ASSUME NEW k \in Key
      PROVE  Lookup(buckets'[hash_to_index(k)], k) = NULL
  <2>1. buckets'[hash_to_index(k)] = <<>>
    BY <1>2, <1>4, HashInBucket
  <2> QED
    BY <2>1, EmptyChain, LookupMisses
<1>8. Contents' = [k \in Key |-> Lookup(buckets'[hash_to_index(k)], k)]
  BY <1>1 DEF Contents, hash_to_index
<1> QED
  BY <1>5, <1>6, <1>7, <1>8 DEF TableInv

(* Steps that touch neither the chains nor a resize. *)
LEMMA SameKeeps ==
  ASSUME TableInv, UNCHANGED <<nBuckets, buckets, resizing>>
  PROVE  TableInv' /\ Contents' = Contents
<1>1. /\ Bucket' = Bucket /\ (\A x : hash_to_index(x)' = hash_to_index(x))
      /\ \A x : Members(buckets[x])' = Members(buckets[x])
  BY DEF Bucket, hash_to_index
<1>2. BucketsOK'
  BY <1>1 DEF TableInv, BucketsOK
<1>3. ResizeOK'
  BY DEF TableInv, ResizeOK, resizing
<1>4. Members(entries)' = Members(entries)
  BY DEF resizing
<1>5. GatherOK'
  BY <1>1, <1>4 DEF TableInv, GatherOK, resizing
<1>6. RedistributeOK'
  BY <1>1 DEF TableInv, RedistributeOK, resizing
<1>7. Contents' = Contents
  BY DEF Contents, hash_to_index, resizing
<1> QED
  BY <1>2, <1>3, <1>5, <1>6, <1>7 DEF TableInv

-----------------------------------------------------------------------------
(* The refinement. *)

LEMMA TableInitHolds == TableInit => TableInv /\ Map!Init
<1> SUFFICES ASSUME TableInit
             PROVE  TableInv /\ Map!Init
  OBVIOUS
<1>1. /\ nBuckets \in Nat \ {0} /\ pc = "idle" /\ entries = <<>> /\ n = 0 /\ answer = NULL
      /\ buckets = [b \in Bucket |-> <<>>]
  BY TableAssumption DEF TableInit
<1>2. \A b \in Bucket : Members(buckets[b]) = {} /\ buckets[b] = <<>>
  BY <1>1, EmptyChain
<1>3. BucketsOK
  BY <1>1, <1>2, EmptyChain DEF BucketsOK
<1>4. ResizeOK /\ GatherOK /\ RedistributeOK
  BY <1>1, EmptyChain DEF ResizeOK, GatherOK, RedistributeOK
<1>5. \A k \in Key : Lookup(buckets[hash_to_index(k)], k) = NULL
  <2> TAKE k \in Key
  <2>1. Members(buckets[hash_to_index(k)]) = {}
    BY <1>2, <1>3, HashInBucket
  <2> QED
    BY <2>1, LookupMisses
<1>6. Contents = [k \in Key |-> NULL]
  BY <1>1, <1>5 DEF Contents
<1> QED
  BY <1>1, <1>3, <1>4, <1>6 DEF TableInv, Map!Init

LEMMA TableStep ==
  TableInv /\ [TableNext]_tableVars => TableInv' /\ [Map!Next]_<<Contents, answer>>
<1> SUFFICES ASSUME TableInv, [TableNext]_tableVars
             PROVE  TableInv' /\ [Map!Next]_<<Contents, answer>>
  OBVIOUS
<1>1. ASSUME NEW k \in Key, NEW v \in Value, Contents = InBuckets, answer' = answer,
             Update(k, v) \/ Add(k, v)
      PROVE  TableInv' /\ [Map!Next]_<<Contents, answer>>
  BY <1>1, InsertKeeps DEF Map!Next, Map!Insert
<1>2. ASSUME NEW k \in Key, NEW v \in Value, Insert(k, v)
      PROVE  TableInv' /\ [Map!Next]_<<Contents, answer>>
  <2>1. Contents = InBuckets
    BY <1>2, ContentsIdle DEF Insert
  <2> QED
    BY <1>1, <1>2, <2>1 DEF Insert
<1>3. CASE Resize
  <2>1. CASE Gather
    BY <2>1, GatherKeeps DEF Gather
  <2>2. CASE Rebuild
    BY <2>2, RebuildKeeps DEF Rebuild
  <2>3. CASE Redistribute
    BY <2>3, RedistributeKeeps DEF Redistribute
  <2>4. CASE InsertAgain
    <3>1. Contents = InBuckets
      BY <2>4, ContentsRebuilt DEF InsertAgain
    <3>2. again[1] \in Key /\ again[2] \in Value
      BY <2>4 DEF InsertAgain, TableInv, ResizeOK
    <3> QED
      BY <1>1, <2>4, <3>1, <3>2 DEF InsertAgain
  <2> QED
    BY <1>3, <2>1, <2>2, <2>3, <2>4 DEF Resize
<1>4. ASSUME NEW k \in Key, Find(k)
      PROVE  TableInv' /\ [Map!Next]_<<Contents, answer>>
  <2>1. pc = "idle" /\ answer' = Lookup(buckets[hash_to_index(k)], k)
        /\ UNCHANGED <<nBuckets, buckets, resizing>>
    BY <1>4 DEF Find, table
  <2>2. answer' = Contents[k]
    BY <2>1 DEF Contents
  <2> QED
    BY <2>1, <2>2, SameKeeps DEF Map!Next, Map!Find
<1>5. ASSUME NEW k \in Key, Remove(k)
      PROVE  TableInv' /\ [Map!Next]_<<Contents, answer>>
  <2>1. answer' = answer
    BY <1>5 DEF Remove
  <2> QED
    BY <1>5, <2>1, RemoveKeeps DEF Map!Next, Map!Remove
<1>6. CASE Clear
  <2>1. answer' = answer
    BY <1>6 DEF Clear
  <2> QED
    BY <1>6, <2>1, ClearKeeps DEF Map!Next, Map!Clear
<1>7. CASE IterStart(NewIter) \/ IterProceed \/ UNCHANGED tableVars
  <2>1. UNCHANGED <<nBuckets, buckets, resizing>> /\ answer' = answer
    BY <1>7 DEF IterStart, IterProceed, tableVars, table
  <2> QED
    BY <2>1, SameKeeps
<1> QED
  BY <1>2, <1>3, <1>4, <1>5, <1>6, <1>7 DEF TableNext

(* Whatever is inserted, removed and looked up: the entries are in the     *)
(* chains of their hashes, and a resize has lost or doubled none.          *)
THEOREM TableInvariant == TableSpec => []TableInv
<1>1. TableInit => TableInv
  BY TableInitHolds
<1>2. TableInv /\ [TableNext]_tableVars => TableInv'
  BY TableStep
<1> QED
  BY <1>1, <1>2, PTL DEF TableSpec

(* The table is a map: an insertion, with its resize and its second try, a *)
(* removal from the middle of a chain, a clearing and a lookup do what     *)
(* table.h promises, for any hashes and any length of a chain.             *)
THEOREM TableImplementsDictionary == TableSpec => IsMap
<1>1. TableInit => Map!Init
  BY TableInitHolds
<1>2. TableInv /\ [TableNext]_tableVars => [Map!Next]_<<Contents, answer>>
  BY TableStep
<1>3. TableSpec => [][TableNext]_tableVars
  BY PTL DEF TableSpec
<1> QED
  BY <1>1, <1>2, <1>3, TableInvariant, PTL DEF TableSpec, IsMap, Map!Spec

-----------------------------------------------------------------------------
(* The count of the entries, and what the iterator stands at. *)

StoredKeys == {k \in Key : Contents[k] # NULL}

(* A cleared table keeps its count, so it may be more than there are. *)
CountOK ==
  /\ size \in 0 .. MaxSize
  /\ IsFiniteSet(StoredKeys) /\ Cardinality(StoredKeys) <= size

IterOK ==
  /\ answer \in Value \cup {NULL}
  /\ iter \in [bucket : Nat, current : Key \cup {NULL}, isEnd : BOOLEAN]
  /\ iter.current # NULL => iter.current \in StoredKeys
  /\ seen \in Seq(Key) /\ todo \subseteq Key /\ moved \in BOOLEAN

LEMMA LookupHas ==
  ASSUME NEW c \in Chain, NEW k \in Key
  PROVE  /\ Lookup(c, k) \in Value \cup {NULL}
         /\ Lookup(c, k) # NULL <=> Has(c, k)
<1>1. CASE Has(c, k)
  <2>1. PICK p \in DOMAIN c : c[p].key = k
    BY <1>1 DEF Has
  <2>2. Lookup(c, k) = c[p].value
    BY <1>1, <2>1, PlaceIs DEF Lookup
  <2>3. c[p] \in Entry
    BY DEF Chain
  <2>4. c[p].value \in Value /\ c[p].value # NULL
    BY <2>3, TableAssumption DEF Entry
  <2> QED
    BY <1>1, <2>2, <2>4
<1>2. CASE ~Has(c, k)
  BY <1>2 DEF Lookup
<1> QED
  BY <1>1, <1>2

LEMMA StoredIn ==
  ASSUME BucketsOK, Contents = InBuckets, NEW k \in Key
  PROVE  k \in StoredKeys <=> Has(buckets[hash_to_index(k)], k)
<1>1. Lookup(buckets[hash_to_index(k)], k) # NULL <=> Has(buckets[hash_to_index(k)], k)
  BY HashInBucket, LookupHas
<1> QED
  BY <1>1 DEF StoredKeys, InBuckets

(* Every entry of a chain is stored under its key. *)
LEMMA MemberStored ==
  ASSUME BucketsOK, Contents = InBuckets, NEW b \in Bucket, NEW p \in DOMAIN buckets[b]
  PROVE  /\ buckets[b][p].key \in StoredKeys
         /\ hash_to_index(buckets[b][p].key) = b
         /\ Place(buckets[b], buckets[b][p].key) = p
<1>1. buckets[b] \in Chain
  BY DEF BucketsOK
<1>2. buckets[b][p] \in Entry /\ buckets[b][p] \in Members(buckets[b])
  BY <1>1 DEF Chain, Members
<1>3. buckets[b][p].key \in Key /\ hash_to_index(buckets[b][p].key) = b
  BY <1>2 DEF Entry, BucketsOK
<1>4. Has(buckets[b], buckets[b][p].key) /\ Place(buckets[b], buckets[b][p].key) = p
  BY <1>1, PlaceIs
<1> QED
  BY <1>3, <1>4, StoredIn

LEMMA SameStored ==
  ASSUME Contents' = Contents
  PROVE  StoredKeys' = StoredKeys
BY DEF StoredKeys

LEMMA InsertCounts ==
  ASSUME TableInv, CountOK, Contents = InBuckets, NEW k \in Key, NEW v \in Value,
         Update(k, v) \/ Add(k, v), Contents' = [Contents EXCEPT ![k] = v]
  PROVE  CountOK' /\ StoredKeys \subseteq StoredKeys'
<1>1. v # NULL
  BY TableAssumption
<1>2. StoredKeys' = StoredKeys \cup {k}
  <2>1. DOMAIN Contents = Key
    BY DEF Contents
  <2> QED
    BY <1>1, <2>1 DEF StoredKeys
<1>3. k \in StoredKeys <=> Has(buckets[hash_to_index(k)], k)
  BY StoredIn DEF TableInv
<1>4. /\ IsFiniteSet(StoredKeys) /\ Cardinality(StoredKeys) <= size /\ size \in 0 .. MaxSize
      /\ Cardinality(StoredKeys) \in Nat /\ MaxSize \in Nat
  BY TableAssumption, FS_CardinalityType DEF CountOK
<1>5. /\ IsFiniteSet(StoredKeys')
      /\ Cardinality(StoredKeys') = IF k \in StoredKeys THEN Cardinality(StoredKeys)
                                    ELSE Cardinality(StoredKeys) + 1
  BY <1>2, <1>4, FS_AddElement
<1>6. size' \in 0 .. MaxSize /\ Cardinality(StoredKeys') <= size'
  <2>1. CASE Update(k, v)
    <3>1. size' = size /\ k \in StoredKeys
      BY <1>3, <2>1 DEF Update
    <3> QED
      BY <1>4, <1>5, <3>1
  <2>2. CASE Add(k, v)
    <3>1. size' = size + 1 /\ size < MaxSize /\ k \notin StoredKeys
      BY <1>3, <2>2 DEF Add
    <3> QED
      BY <1>4, <1>5, <3>1
  <2> QED
    BY <2>1, <2>2
<1> QED
  BY <1>2, <1>5, <1>6 DEF CountOK

LEMMA RemoveCounts ==
  ASSUME TableInv, CountOK, NEW k \in Key, Remove(k), Contents' = [Contents EXCEPT ![k] = NULL]
  PROVE  CountOK'
<1>1. StoredKeys' = StoredKeys \ {k}
  <2>1. DOMAIN Contents = Key
    BY DEF Contents
  <2> QED
    BY <2>1 DEF StoredKeys
<1>2. Contents = InBuckets
  BY ContentsIdle DEF Remove
<1>3. k \in StoredKeys
  BY <1>2, StoredIn DEF TableInv, Remove
<1>4. /\ IsFiniteSet(StoredKeys) /\ Cardinality(StoredKeys) <= size /\ size \in 0 .. MaxSize
      /\ Cardinality(StoredKeys) \in Nat /\ MaxSize \in Nat
  BY TableAssumption, FS_CardinalityType DEF CountOK
<1>5. /\ IsFiniteSet(StoredKeys')
      /\ Cardinality(StoredKeys') = Cardinality(StoredKeys) - 1
      /\ Cardinality(StoredKeys') \in Nat
  BY <1>1, <1>3, <1>4, FS_RemoveElement, FS_CardinalityType
<1>6. size' = size - 1
  BY DEF Remove
<1> QED
  BY <1>4, <1>5, <1>6 DEF CountOK

LEMMA ClearCounts ==
  ASSUME CountOK, Clear, Contents' = [k \in Key |-> NULL]
  PROVE  CountOK'
<1>1. StoredKeys' = {}
  BY DEF StoredKeys
<1>2. size' = size
  BY DEF Clear
<1> QED
  BY <1>1, <1>2, FS_EmptySet DEF CountOK

(* A resize gathers each key once, so no more entries than there are keys. *)
LEMMA EntriesFit ==
  ASSUME TableInv, CountOK
  PROVE  GatherFits
<1> SUFFICES ASSUME pc # "idle"
             PROVE  Len(entries) <= size
  BY DEF GatherFits
<1>1. entries \in Chain /\ pc \in {"gather", "redistribute"} /\ BucketsOK
  BY DEF TableInv, ResizeOK
<1>2. /\ entries \in Seq(Entry) /\ Len(entries) \in Nat /\ DOMAIN entries = 1 .. Len(entries)
      /\ Unique(entries)
  BY <1>1 DEF Chain
<1>3. \A p \in DOMAIN entries : entries[p].key \in StoredKeys
  <2> TAKE p \in DOMAIN entries
  <2>1. entries[p] \in Entry /\ entries[p] \in Members(entries)
    BY <1>2 DEF Members
  <2>2. entries[p].key \in Key /\ entries[p].value # NULL
    BY <2>1, TableAssumption DEF Entry
  <2>3. CASE pc = "gather"
    <3>1. PICK b \in Bucket : entries[p] \in Members(buckets[b])
      BY <2>1, <2>3 DEF TableInv, GatherOK
    <3>2. PICK q \in DOMAIN buckets[b] : buckets[b][q] = entries[p]
      BY <3>1 DEF Members
    <3> QED
      BY <1>1, <2>3, <3>2, ContentsIdle, MemberStored
  <2>4. CASE pc = "redistribute"
    <3>1. Lookup(entries, entries[p].key) = entries[p].value
      BY <1>1, <2>1, LookupFinds
    <3> QED
      BY <2>2, <2>4, <3>1 DEF StoredKeys, Contents
  <2> QED
    BY <1>1, <2>3, <2>4
<1> DEFINE f == [p \in 1 .. Len(entries) |-> entries[p].key]
<1>4. f \in Injection(1 .. Len(entries), StoredKeys)
  BY <1>2, <1>3 DEF Injection, IsInjective, Unique
<1>5. Cardinality(1 .. Len(entries)) <= Cardinality(StoredKeys)
  BY <1>4, FS_Injection DEF CountOK
<1>6. Cardinality(1 .. Len(entries)) = Len(entries)
  BY <1>2, FS_Interval
<1> QED
  BY <1>2, <1>5, <1>6, FS_CardinalityType DEF CountOK

-----------------------------------------------------------------------------
(* The order in which an iteration comes by. *)

Spot(k) == Place(buckets[hash_to_index(k)], k)

Before(j, k) ==
  \/ hash_to_index(j) < hash_to_index(k)
  \/ hash_to_index(j) = hash_to_index(k) /\ Spot(j) < Spot(k)

(* Until a resize moves the entries, all that are to be visited were seen  *)
(* or lie ahead, and what was seen does not.                               *)
VisitOK ==
  /\ pc = "redistribute" => moved
  /\ ~moved =>
       /\ \A p, q \in DOMAIN seen : seen[p] = seen[q] => p = q
       /\ iter.current = NULL => \A k \in todo : \E p \in DOMAIN seen : seen[p] = k
       /\ iter.current # NULL =>
            /\ ~iter.isEnd
            /\ iter.bucket = hash_to_index(iter.current)
            /\ todo \subseteq StoredKeys
            /\ \A p \in DOMAIN seen :
                 seen[p] \in StoredKeys /\ ~Before(iter.current, seen[p])
            /\ \A k \in todo : \/ \E p \in DOMAIN seen : seen[p] = k
                               \/ Before(iter.current, k)

LEMMA SpotIs ==
  ASSUME BucketsOK, Contents = InBuckets, NEW k \in StoredKeys
  PROVE  /\ k \in Key /\ hash_to_index(k) \in Bucket
         /\ Spot(k) \in DOMAIN buckets[hash_to_index(k)]
         /\ buckets[hash_to_index(k)][Spot(k)].key = k
<1>1. k \in Key
  BY DEF StoredKeys
<1>2. hash_to_index(k) \in Bucket /\ buckets[hash_to_index(k)] \in Chain
  BY <1>1, HashInBucket
<1>3. PICK p \in DOMAIN buckets[hash_to_index(k)] : buckets[hash_to_index(k)][p].key = k
  BY <1>1, StoredIn DEF Has
<1>4. Spot(k) = p
  BY <1>2, <1>3, PlaceIs DEF Spot
<1> QED
  BY <1>1, <1>2, <1>3, <1>4

(* Numbers of buckets and places. *)
LEMMA SpotNat ==
  ASSUME BucketsOK, Contents = InBuckets, NEW k \in StoredKeys
  PROVE  hash_to_index(k) \in Nat /\ Spot(k) \in Nat /\ Spot(k) >= 1
<1>1. hash_to_index(k) \in Bucket /\ Spot(k) \in DOMAIN buckets[hash_to_index(k)]
  BY SpotIs
<1>2. buckets[hash_to_index(k)] \in Seq(Entry)
  BY <1>1 DEF BucketsOK, Chain
<1> QED
  BY <1>1, <1>2 DEF Bucket

LEMMA SameSpot ==
  ASSUME BucketsOK, Contents = InBuckets, NEW j \in StoredKeys, NEW k \in StoredKeys,
         hash_to_index(j) = hash_to_index(k), Spot(j) = Spot(k)
  PROVE  j = k
BY SpotIs

LEMMA LeastBucket ==
  ASSUME NEW S, S \subseteq Nat, S # {}
  PROVE  \E b \in S : \A c \in S : b <= c
<1>1. PICK b \in S : \A c \in S : <<c, b>> \notin OpToRel(<, Nat)
  BY WFMin, NatLessThanWellFounded
<1>2. \A c \in S : ~(c < b)
  BY <1>1 DEF OpToRel
<1> QED
  BY <1>2

(* A chain in use has a first key. *)
LEMMA HeadIs ==
  ASSUME BucketsOK, Contents = InBuckets, NEW b \in Bucket
  PROVE  /\ buckets[b] = <<>> => HeadKey(buckets[b]) = NULL
         /\ buckets[b] # <<>> =>
              /\ HeadKey(buckets[b]) \in StoredKeys /\ HeadKey(buckets[b]) # NULL
              /\ hash_to_index(HeadKey(buckets[b])) = b
              /\ Spot(HeadKey(buckets[b])) = 1
<1>1. buckets[b] \in Seq(Entry)
  BY DEF BucketsOK, Chain
<1>2. ASSUME buckets[b] # <<>>
      PROVE  /\ HeadKey(buckets[b]) \in StoredKeys /\ HeadKey(buckets[b]) # NULL
             /\ hash_to_index(HeadKey(buckets[b])) = b
             /\ Spot(HeadKey(buckets[b])) = 1
  <2>1. 1 \in DOMAIN buckets[b] /\ HeadKey(buckets[b]) = buckets[b][1].key
    BY <1>1, <1>2 DEF HeadKey
  <2>2. /\ buckets[b][1].key \in StoredKeys
        /\ hash_to_index(buckets[b][1].key) = b
        /\ Place(buckets[b], buckets[b][1].key) = 1
    BY <2>1, MemberStored
  <2>3. buckets[b][1].key # NULL
    BY <2>2, TableAssumption DEF StoredKeys
  <2> QED
    BY <2>1, <2>2, <2>3 DEF Spot
<1> QED
  BY <1>2 DEF HeadKey

(* The step to the chain that comes behind bucket it.bucket. *)
Onward(it, r) ==
  \/ Behind(it) = {} /\ r = [it EXCEPT !.current = NULL, !.isEnd = TRUE]
  \/ \E b \in Behind(it) :
       /\ \A c \in Behind(it) : b <= c
       /\ r = [it EXCEPT !.current = HeadKey(buckets[b]), !.bucket = b]

LEMMA ProceedCases ==
  ASSUME BucketsOK, Contents = InBuckets, NEW it, ~it.isEnd, it.bucket \in Nat,
         it.current # NULL => it.current \in StoredKeys
  PROVE  \/ /\ it.current # NULL
            /\ LET chain == buckets[hash_to_index(it.current)]
               IN  /\ Spot(it.current) + 1 \in DOMAIN chain
                   /\ Proceeded(it) = [it EXCEPT !.current = chain[Spot(it.current) + 1].key]
         \/ /\ it.current # NULL =>
                 Spot(it.current) = Len(buckets[hash_to_index(it.current)])
            /\ Onward(it, Proceeded(it))
<1>1. ASSUME it.current # NULL
      PROVE  LET chain == buckets[hash_to_index(it.current)] IN
             /\ chain \in Seq(Entry) /\ Len(chain) \in Nat /\ Spot(it.current) \in 1 .. Len(chain)
             /\ \/ Spot(it.current) + 1 \in DOMAIN chain /\ Spot(it.current) < Len(chain)
                   /\ chain[Spot(it.current) + 1].key # NULL
                \/ Spot(it.current) = Len(chain) /\ ~(Spot(it.current) < Len(chain))
  <2> DEFINE chain == buckets[hash_to_index(it.current)]
  <2>1. hash_to_index(it.current) \in Bucket /\ Spot(it.current) \in DOMAIN chain
    BY <1>1, SpotIs
  <2>2. chain \in Seq(Entry) /\ Len(chain) \in Nat /\ Spot(it.current) \in 1 .. Len(chain)
    BY <2>1 DEF BucketsOK, Chain
  <2>3. CASE Spot(it.current) < Len(chain)
    <3>1. Spot(it.current) + 1 \in DOMAIN chain
      BY <2>2, <2>3
    <3>2. chain[Spot(it.current) + 1] \in Entry
      BY <2>2, <3>1
    <3>3. chain[Spot(it.current) + 1].key # NULL
      BY <3>2, TableAssumption DEF Entry
    <3> QED
      BY <2>2, <2>3, <3>1, <3>3
  <2>4. CASE ~(Spot(it.current) < Len(chain))
    <3>1. Spot(it.current) = Len(chain)
      BY <2>2, <2>4
    <3> QED
      BY <2>2, <2>4, <3>1
  <2> QED
    BY <2>3, <2>4
<1>2. it.current # NULL =>
        After(it.current) =
          IF Spot(it.current) < Len(buckets[hash_to_index(it.current)])
          THEN buckets[hash_to_index(it.current)][Spot(it.current) + 1].key ELSE NULL
  BY DEF After, Spot
<1>3. CASE it.current # NULL /\ After(it.current) # NULL
  <2>1. Proceeded(it) = [it EXCEPT !.current = After(it.current)]
    BY <1>3 DEF Proceeded
  <2> QED
    BY <1>1, <1>2, <1>3, <2>1
<1>4. CASE ~(it.current # NULL /\ After(it.current) # NULL)
  <2>1. it.current # NULL => Spot(it.current) = Len(buckets[hash_to_index(it.current)])
    BY <1>1, <1>2, <1>4
  <2>2. Onward(it, Proceeded(it))
    <3> DEFINE B == CHOOSE b \in Behind(it) : \A c \in Behind(it) : b <= c
    <3>1. Proceeded(it) =
            IF Behind(it) = {}
            THEN [it EXCEPT !.current = NULL, !.isEnd = TRUE]
            ELSE [it EXCEPT !.current = HeadKey(buckets[B]), !.bucket = B]
      BY <1>4 DEF Proceeded
    <3>2. CASE Behind(it) = {}
      BY <3>1, <3>2 DEF Onward
    <3>3. CASE Behind(it) # {}
      <4>1. Behind(it) \subseteq Nat
        BY DEF Behind, BucketsOK
      <4>2. \E b \in Behind(it) : \A c \in Behind(it) : b <= c
        BY <3>3, <4>1, LeastBucket
      <4>3. B \in Behind(it) /\ \A c \in Behind(it) : B <= c
        BY <4>2
      <4> HIDE DEF B
      <4>4. Proceeded(it) = [it EXCEPT !.current = HeadKey(buckets[B]), !.bucket = B]
        BY <3>1, <3>3
      <4> QED
        BY <4>3, <4>4 DEF Onward
    <3> QED
      BY <3>2, <3>3
  <2> QED
    BY <2>1, <2>2
<1> QED
  BY <1>3, <1>4

IterType == [bucket : Nat, current : Key \cup {NULL}, isEnd : BOOLEAN]

(* r stands at the first key of those that satisfy P, or at the end. *)
StandsAtFirst(r, S) ==
  /\ r \in IterType
  /\ r.current = NULL => S = {}
  /\ r.current # NULL =>
       /\ r.current \in S /\ r.bucket = hash_to_index(r.current)
       /\ \A k \in S : k = r.current \/ Before(r.current, k)

KeysBehind(b) == {k \in StoredKeys : hash_to_index(k) > b}

KeysAfter(j) == {k \in StoredKeys : Before(j, k)}

LEMMA OnwardIs ==
  ASSUME BucketsOK, Contents = InBuckets, NEW it \in IterType, NEW r, Onward(it, r)
  PROVE  /\ StandsAtFirst(r, KeysBehind(it.bucket))
         /\ r.current # NULL => r.isEnd = it.isEnd
<1>1. CASE Behind(it) = {} /\ r = [it EXCEPT !.current = NULL, !.isEnd = TRUE]
  <2>1. r \in IterType /\ r.current = NULL
    BY <1>1 DEF IterType
  <2>2. ASSUME NEW k \in KeysBehind(it.bucket)
        PROVE  FALSE
    <3>1. k \in StoredKeys /\ hash_to_index(k) > it.bucket
      BY <2>2 DEF KeysBehind
    <3>2. /\ hash_to_index(k) \in Bucket /\ Spot(k) \in DOMAIN buckets[hash_to_index(k)]
      BY <3>1, SpotIs
    <3>3. buckets[hash_to_index(k)] # <<>>
      BY <3>2
    <3>4. hash_to_index(k) \in it.bucket + 1 .. nBuckets - 1
      BY <3>1, <3>2 DEF Bucket, BucketsOK, IterType
    <3> QED
      BY <1>1, <3>3, <3>4 DEF Behind
  <2> QED
    BY <2>1, <2>2 DEF StandsAtFirst
<1>2. ASSUME NEW b \in Behind(it), \A c \in Behind(it) : b <= c,
             r = [it EXCEPT !.current = HeadKey(buckets[b]), !.bucket = b]
      PROVE  /\ StandsAtFirst(r, KeysBehind(it.bucket))
             /\ r.current # NULL => r.isEnd = it.isEnd
  <2>1. b \in Bucket /\ b \in Nat /\ b > it.bucket /\ buckets[b] # <<>>
    BY DEF Behind, Bucket, BucketsOK, IterType
  <2> DEFINE x == HeadKey(buckets[b])
  <2>2. x \in StoredKeys /\ x # NULL /\ hash_to_index(x) = b /\ Spot(x) = 1 /\ x \in Key
    BY <2>1, HeadIs DEF StoredKeys
  <2>3. r \in IterType /\ r.current = x /\ r.bucket = b /\ r.isEnd = it.isEnd
    BY <1>2, <2>1, <2>2 DEF IterType
  <2> HIDE DEF x
  <2>4. ASSUME NEW k \in KeysBehind(it.bucket)
        PROVE  k = x \/ Before(x, k)
    <3>1. k \in StoredKeys /\ hash_to_index(k) > it.bucket
      BY <2>4 DEF KeysBehind
    <3>2. hash_to_index(k) \in Bucket /\ Spot(k) \in DOMAIN buckets[hash_to_index(k)]
      BY <3>1, SpotIs
    <3>3. buckets[hash_to_index(k)] # <<>>
      BY <3>2
    <3>4. hash_to_index(k) \in it.bucket + 1 .. nBuckets - 1
      BY <3>1, <3>2 DEF Bucket, BucketsOK, IterType
    <3>5. b <= hash_to_index(k)
      BY <1>2, <3>3, <3>4 DEF Behind
    <3>6. hash_to_index(k) \in Nat /\ Spot(k) \in Nat /\ Spot(k) >= 1
      BY <3>1, SpotNat
    <3>7. CASE hash_to_index(k) = b /\ Spot(k) = 1
      BY <2>2, <3>1, <3>7, SameSpot
    <3>8. CASE ~(hash_to_index(k) = b /\ Spot(k) = 1)
      BY <2>1, <2>2, <3>5, <3>6, <3>8 DEF Before
    <3> QED
      BY <3>7, <3>8
  <2>5. x \in KeysBehind(it.bucket)
    BY <2>1, <2>2 DEF KeysBehind
  <2> QED
    BY <2>2, <2>3, <2>4, <2>5 DEF StandsAtFirst
<1> QED
  BY <1>1, <1>2 DEF Onward

LEMMA ProceedIs ==
  ASSUME BucketsOK, Contents = InBuckets, NEW it \in IterType, ~it.isEnd,
         it.current \in StoredKeys, it.current # NULL
  PROVE  /\ Proceeded(it) \in IterType
         /\ Proceeded(it).current # NULL => Proceeded(it).current \in StoredKeys /\ ~Proceeded(it).isEnd
         /\ it.bucket = hash_to_index(it.current) =>
              StandsAtFirst(Proceeded(it), KeysAfter(it.current))
<1> DEFINE j == it.current
           r == Proceeded(it)
           chain == buckets[hash_to_index(j)]
<1>0. /\ hash_to_index(j) \in Bucket /\ chain \in Seq(Entry) /\ Len(chain) \in Nat
      /\ hash_to_index(j) \in Nat /\ Spot(j) \in Nat /\ it.bucket \in Nat
  BY SpotIs, SpotNat DEF BucketsOK, Chain, IterType
<1>1. \/ /\ Spot(j) + 1 \in DOMAIN chain
         /\ r = [it EXCEPT !.current = chain[Spot(j) + 1].key]
      \/ /\ Spot(j) = Len(chain)
         /\ Onward(it, r)
  BY <1>0, ProceedCases
<1> HIDE DEF r
<1>2. CASE Spot(j) + 1 \in DOMAIN chain /\ r = [it EXCEPT !.current = chain[Spot(j) + 1].key]
  <2> DEFINE x == chain[Spot(j) + 1].key
  <2>1. /\ x \in StoredKeys /\ hash_to_index(x) = hash_to_index(j)
        /\ Spot(x) = Spot(j) + 1
    BY <1>0, <1>2, MemberStored DEF Spot
  <2>2. x \in Key /\ x # NULL
    BY <2>1, TableAssumption DEF StoredKeys
  <2> HIDE DEF x
  <2>3. r \in IterType /\ r.current = x /\ r.bucket = it.bucket /\ ~r.isEnd
    BY <1>2, <2>2 DEF IterType, x
  <2>4. x \in KeysAfter(j)
    BY <1>0, <2>1 DEF KeysAfter, Before
  <2>5. ASSUME NEW k \in KeysAfter(j)
        PROVE  k = x \/ Before(x, k)
    <3>1. k \in StoredKeys /\ Before(j, k)
      BY <2>5 DEF KeysAfter
    <3>2. hash_to_index(k) \in Nat /\ Spot(k) \in Nat
      BY <3>1, SpotNat
    <3>3. CASE hash_to_index(k) = hash_to_index(j) /\ Spot(k) = Spot(j) + 1
      BY <2>1, <3>1, <3>3, SameSpot
    <3>4. CASE ~(hash_to_index(k) = hash_to_index(j) /\ Spot(k) = Spot(j) + 1)
      BY <1>0, <2>1, <3>1, <3>2, <3>4 DEF Before
    <3> QED
      BY <3>3, <3>4
  <2>6. it.bucket = hash_to_index(j) => StandsAtFirst(r, KeysAfter(j))
    BY <2>1, <2>2, <2>3, <2>4, <2>5 DEF StandsAtFirst
  <2> QED
    BY <2>1, <2>3, <2>6 DEF r
<1>3. CASE Spot(j) = Len(chain) /\ Onward(it, r)
  <2>1. StandsAtFirst(r, KeysBehind(it.bucket)) /\ (r.current # NULL => r.isEnd = it.isEnd)
    BY <1>3, OnwardIs
  <2>2. r \in IterType /\ (r.current # NULL => r.current \in StoredKeys /\ ~r.isEnd)
    BY <2>1 DEF StandsAtFirst, KeysBehind
  <2>3. ASSUME it.bucket = hash_to_index(j)
        PROVE  KeysAfter(j) = KeysBehind(it.bucket)
    <3>1. ASSUME NEW k \in StoredKeys
          PROVE  Before(j, k) <=> hash_to_index(k) > it.bucket
      <4>1. hash_to_index(k) \in Nat /\ Spot(k) \in Nat
        BY SpotNat
      <4>2. hash_to_index(k) = hash_to_index(j) => ~(Spot(j) < Spot(k))
        <5>1. Spot(k) \in DOMAIN buckets[hash_to_index(k)]
          BY SpotIs
        <5> QED
          BY <1>0, <1>3, <4>1, <5>1
      <4> QED
        BY <1>0, <2>3, <4>1, <4>2 DEF Before
    <3> QED
      BY <3>1 DEF KeysAfter, KeysBehind
  <2> QED
    BY <2>1, <2>2, <2>3 DEF r
<1> QED
  BY <1>1, <1>2, <1>3

LEMMA StartIs ==
  ASSUME BucketsOK, Contents = InBuckets
  PROVE  /\ StandsAtFirst(Started(NewIter), StoredKeys)
         /\ Started(NewIter).current # NULL => ~Started(NewIter).isEnd
<1> DEFINE first == [NewIter EXCEPT !.bucket = 0, !.current = HeadKey(buckets[0])]
           r == Started(NewIter)
<1>1. 0 \in Bucket
  BY DEF Bucket, BucketsOK
<1>2. \A k \in StoredKeys : hash_to_index(k) \in Nat /\ Spot(k) \in Nat /\ Spot(k) >= 1
  BY SpotNat
<1>3. /\ first.bucket = 0 /\ first.current = HeadKey(buckets[0]) /\ ~first.isEnd
      /\ HeadKey(buckets[0]) \in Key \cup {NULL} => first \in IterType
  BY DEF NewIter, IterType
<1>4. CASE buckets[0] = <<>>
  <2>1. HeadKey(buckets[0]) = NULL
    BY <1>1, <1>4, HeadIs
  <2>2. first \in IterType /\ first.current = NULL /\ first.bucket = 0 /\ ~first.isEnd
    BY <1>3, <2>1
  <2>3. r = Proceeded(first)
    BY <2>1, <1>3 DEF Started
  <2> HIDE DEF first, r
  <2>4. Onward(first, r)
    BY <2>2, <2>3, ProceedCases
  <2>5. StandsAtFirst(r, KeysBehind(0)) /\ (r.current # NULL => r.isEnd = first.isEnd)
    BY <2>2, <2>4, OnwardIs
  <2>6. KeysBehind(0) = StoredKeys
    <3>1. ASSUME NEW k \in StoredKeys
          PROVE  hash_to_index(k) > 0
      <4>1. Spot(k) \in DOMAIN buckets[hash_to_index(k)]
        BY SpotIs
      <4>2. hash_to_index(k) # 0
        BY <1>4, <4>1
      <4> QED
        BY <1>2, <4>2
    <3> QED
      BY <3>1 DEF KeysBehind
  <2> QED
    BY <2>2, <2>5, <2>6 DEF r
<1>5. CASE buckets[0] # <<>>
  <2> DEFINE x == HeadKey(buckets[0])
  <2>1. x \in StoredKeys /\ x # NULL /\ hash_to_index(x) = 0 /\ Spot(x) = 1 /\ x \in Key
    BY <1>1, <1>5, HeadIs DEF StoredKeys
  <2>2. r = first
    BY <1>3, <2>1 DEF Started
  <2> HIDE DEF x
  <2>3. r \in IterType /\ r.current = x /\ r.bucket = 0 /\ ~r.isEnd
    BY <1>3, <2>1, <2>2 DEF x
  <2>4. ASSUME NEW k \in StoredKeys
        PROVE  k = x \/ Before(x, k)
    <3>1. CASE hash_to_index(k) = 0 /\ Spot(k) = 1
      BY <2>1, <3>1, SameSpot
    <3>2. CASE ~(hash_to_index(k) = 0 /\ Spot(k) = 1)
      BY <1>2, <2>1, <3>2 DEF Before
    <3> QED
      BY <3>1, <3>2
  <2> QED
    BY <2>1, <2>3, <2>4 DEF StandsAtFirst, r
<1> QED
  BY <1>4, <1>5

-----------------------------------------------------------------------------
(* Steps of others leave an iteration where it is. *)

LEMMA InsertSpots ==
  ASSUME BucketsOK, Contents = InBuckets, NEW k \in Key, NEW v \in Value,
         Update(k, v) \/ Add(k, v), NEW j \in StoredKeys
  PROVE  Spot(j)' = Spot(j) /\ hash_to_index(j)' = hash_to_index(j)
<1> DEFINE b == hash_to_index(k)
           c == buckets[b]
           s == Spot(j)
<1>1. b \in Bucket /\ c \in Chain
  BY HashInBucket
<1>2. /\ hash_to_index(j) \in Bucket /\ s \in DOMAIN buckets[hash_to_index(j)]
      /\ buckets[hash_to_index(j)][s].key = j
  BY SpotIs
<1>3. PICK d : IsStored(k, v, d)
  BY InsertStores
<1>4. nBuckets' = nBuckets
  BY InsertStores
<1>5. hash_to_index(j)' = hash_to_index(j)
  BY <1>4 DEF hash_to_index
<1>6. d \in Chain /\ buckets' = [buckets EXCEPT ![b] = d] /\ buckets'[b] = d
  BY <1>1, <1>3 DEF IsStored, BucketsOK
<1>7. Spot(j)' = Place(buckets'[hash_to_index(j)], j)
  BY <1>4 DEF Spot, hash_to_index
<1>8. CASE hash_to_index(j) # b
  <2>1. buckets'[hash_to_index(j)] = buckets[hash_to_index(j)]
    BY <1>1, <1>2, <1>6, <1>8 DEF BucketsOK
  <2> QED
    BY <1>5, <1>7, <2>1 DEF Spot
<1>9. CASE hash_to_index(j) = b
  <2>1. s \in DOMAIN c /\ c[s].key = j
    BY <1>2, <1>9
  <2>2. s \in DOMAIN d /\ d[s].key = j
    <3>1. CASE Update(k, v)
      <4>1. d = [c EXCEPT ![Place(c, k)].value = v] /\ Has(c, k)
        BY <1>1, <1>6, <3>1 DEF Update, BucketsOK
      <4>2. Place(c, k) \in DOMAIN c
        BY <1>1, <4>1, PlaceIs DEF Has
      <4>3. c[Place(c, k)] \in Entry
        BY <1>1, <4>2 DEF Chain
      <4>4. DOMAIN d = DOMAIN c
        BY <4>1
      <4>5. CASE s = Place(c, k)
        <5>1. d[s] = [c[s] EXCEPT !.value = v]
          BY <2>1, <4>1, <4>5
        <5>2. d[s].key = c[s].key
          BY <4>3, <4>5, <5>1 DEF Entry
        <5> QED
          BY <2>1, <4>4, <5>2
      <4>6. CASE s # Place(c, k)
        BY <2>1, <4>1, <4>4, <4>6
      <4> QED
        BY <4>5, <4>6
    <3>2. CASE Add(k, v)
      <4>1. d = Append(c, [key |-> k, value |-> v])
        BY <1>1, <1>6, <3>2 DEF Add, BucketsOK
      <4>2. c \in Seq(Entry) /\ Len(c) \in Nat /\ DOMAIN c = 1 .. Len(c) /\ [key |-> k, value |-> v] \in Entry
        BY <1>1 DEF Chain, Entry
      <4> DEFINE e == [key |-> k, value |-> v]
      <4> HIDE DEF e
      <4>3. d = Append(c, e) /\ e \in Entry
        BY <4>1, <4>2 DEF e
      <4>4. Len(d) = Len(c) + 1 /\ DOMAIN d = 1 .. Len(c) + 1 /\ \A p \in DOMAIN c : d[p] = c[p]
        BY <4>2, <4>3, AppendProperties
      <4> QED
        BY <2>1, <4>2, <4>4
    <3> QED
      BY <3>1, <3>2
  <2>3. Place(d, j) = s
    BY <1>6, <2>2, PlaceIs
  <2> QED
    BY <1>5, <1>6, <1>7, <1>9, <2>3
<1> QED
  BY <1>8, <1>9

LEMMA VisitKept ==
  ASSUME IterOK, VisitOK, UNCHANGED <<answer, iterating>>,
         pc' = "redistribute" => moved,
         iter.current # NULL => StoredKeys \subseteq StoredKeys',
         ~moved /\ iter.current # NULL =>
            \A j \in StoredKeys : Spot(j)' = Spot(j) /\ hash_to_index(j)' = hash_to_index(j)
  PROVE  IterOK' /\ VisitOK'
<1>1. /\ answer' = answer /\ iter' = iter /\ seen' = seen /\ todo' = todo /\ moved' = moved
  BY DEF iterating
<1>2. IterOK'
  BY <1>1 DEF IterOK
<1>3. CASE moved
  <2>1. moved'
    BY <1>1, <1>3 DEF IterOK
  <2> QED
    BY <1>2, <2>1 DEF VisitOK
<1>4. ASSUME ~moved
      PROVE  VisitOK'
  <2>1. pc' # "redistribute" /\ ~moved' /\ \A p, q \in DOMAIN seen : seen[p] = seen[q] => p = q
    BY <1>1, <1>4 DEF VisitOK
  <2>2. CASE iter.current = NULL
    <3>1. \A k \in todo : \E p \in DOMAIN seen : seen[p] = k
      BY <1>4, <2>2 DEF VisitOK
    <3> QED
      BY <1>1, <2>1, <2>2, <3>1 DEF VisitOK
  <2>3. CASE iter.current # NULL
    <3> DEFINE x == iter.current
    <3>1. /\ ~iter.isEnd /\ x \in StoredKeys
          /\ iter.bucket = hash_to_index(x)
          /\ todo \subseteq StoredKeys
          /\ \A p \in DOMAIN seen : seen[p] \in StoredKeys /\ ~Before(x, seen[p])
          /\ \A k \in todo : (\E p \in DOMAIN seen : seen[p] = k) \/ Before(x, k)
      BY <1>4, <2>3 DEF IterOK, VisitOK
    <3>2. StoredKeys \subseteq StoredKeys'
      BY <2>3
    <3>3. \A j \in StoredKeys : Spot(j)' = Spot(j) /\ hash_to_index(j)' = hash_to_index(j)
      BY <1>4, <2>3
    <3>4. ASSUME NEW j \in StoredKeys, NEW k \in StoredKeys
          PROVE  Before(j, k)' <=> Before(j, k)
      BY <3>3 DEF Before
    <3>5. PICK y, s, t : y = x /\ s = seen /\ t = todo
      OBVIOUS
    <3>6. /\ y = iter'.current /\ s = seen' /\ t = todo'
          /\ iter'.current # NULL /\ ~iter'.isEnd
      BY <1>1, <2>3, <3>1, <3>5
    <3>7. y \in StoredKeys /\ t \subseteq StoredKeys /\ \A p \in DOMAIN s : s[p] \in StoredKeys
      BY <3>1, <3>5
    <3>8. iter'.bucket = hash_to_index(y)'
      BY <1>1, <3>1, <3>3, <3>5, <3>7
    <3>9. t \subseteq StoredKeys' /\ \A p \in DOMAIN s : s[p] \in StoredKeys' /\ ~Before(y, s[p])'
      BY <3>1, <3>2, <3>4, <3>5, <3>7
    <3>10. \A k \in t : (\E p \in DOMAIN s : s[p] = k) \/ Before(y, k)'
      BY <3>1, <3>4, <3>5, <3>7
    <3>11. \A p, q \in DOMAIN s : s[p] = s[q] => p = q
      BY <2>1, <3>5
    <3> QED
      BY <2>1, <3>6, <3>8, <3>9, <3>10, <3>11 DEF VisitOK
  <2> QED
    BY <2>2, <2>3
<1> QED
  BY <1>2, <1>3, <1>4

LEMMA OrderSame ==
  ASSUME UNCHANGED <<nBuckets, buckets>>
  PROVE  /\ \A j : hash_to_index(j)' = hash_to_index(j)
         /\ \A j, k : Before(j, k)' <=> Before(j, k)
<1>1. \A j : hash_to_index(j)' = hash_to_index(j)
  BY DEF hash_to_index
<1>2. \A j : Spot(j)' = Spot(j)
  BY DEF Spot, hash_to_index
<1> QED
  BY <1>1, <1>2 DEF Before

LEMMA BeforeOrders ==
  ASSUME BucketsOK, Contents = InBuckets, NEW i \in StoredKeys, NEW j \in StoredKeys,
         NEW k \in StoredKeys
  PROVE  /\ ~Before(i, i)
         /\ Before(i, j) /\ Before(j, k) => Before(i, k)
<1>1. /\ hash_to_index(i) \in Nat /\ Spot(i) \in Nat
      /\ hash_to_index(j) \in Nat /\ Spot(j) \in Nat
      /\ hash_to_index(k) \in Nat /\ Spot(k) \in Nat
  BY SpotNat
<1> QED
  BY <1>1 DEF Before

LEMMA IterStartKeeps ==
  ASSUME TableInv, IterOK, IterStart(NewIter), Contents' = Contents
  PROVE  IterOK' /\ VisitOK'
<1>1. /\ BucketsOK /\ Contents = InBuckets /\ pc' = "idle" /\ answer' = answer
      /\ iter' = Started(NewIter) /\ seen' = Visited(iter') /\ todo' = Keys /\ moved' = FALSE
      /\ UNCHANGED <<nBuckets, buckets>>
  BY ContentsIdle DEF IterStart, TableInv, table, resizing
<1>2. StandsAtFirst(iter', StoredKeys) /\ (iter'.current # NULL => ~iter'.isEnd)
  BY <1>1, StartIs
<1>3. Keys = StoredKeys
  <2>1. ASSUME NEW k \in Key, NEW b \in Bucket, Has(buckets[b], k)
        PROVE  k \in StoredKeys
    <3>1. PICK p \in DOMAIN buckets[b] : buckets[b][p].key = k
      BY <2>1 DEF Has
    <3> QED
      BY <1>1, <3>1, MemberStored
  <2>2. ASSUME NEW k \in StoredKeys
        PROVE  k \in Keys
    <3>1. k \in Key /\ hash_to_index(k) \in Bucket /\ Has(buckets[hash_to_index(k)], k)
      BY <1>1, SpotIs DEF Has
    <3> QED
      BY <3>1 DEF Keys
  <2>3. Keys \subseteq StoredKeys
    BY <2>1 DEF Keys
  <2> QED
    BY <2>2, <2>3
<1>4. StoredKeys' = StoredKeys /\ StoredKeys \subseteq Key
  BY SameStored DEF StoredKeys
<1>5. PICK x : x = iter'.current
  OBVIOUS
<1>6. CASE x = NULL
  <2>1. StoredKeys = {} /\ seen' = <<>> /\ iter' \in IterType /\ iter'.current = NULL
    BY <1>1, <1>2, <1>5, <1>6 DEF StandsAtFirst, Visited
  <2>2. todo' = {} /\ seen' \in Seq(Key)
    BY <1>1, <1>3, <2>1, EmptySeq
  <2>3. IterOK'
    BY <1>1, <2>1, <2>2 DEF IterOK, IterType
  <2>4. VisitOK'
    BY <1>1, <2>1, <2>2 DEF VisitOK
  <2> QED
    BY <2>3, <2>4
<1>7. CASE x # NULL
  <2>1. /\ x \in StoredKeys /\ iter' \in IterType /\ iter'.bucket = hash_to_index(x)
        /\ ~iter'.isEnd /\ seen' = <<x>>
        /\ \A k \in StoredKeys : k = x \/ Before(x, k)
    BY <1>1, <1>2, <1>5, <1>7 DEF StandsAtFirst, Visited
  <2>2. seen' \in Seq(Key) /\ DOMAIN seen' = {1} /\ seen'[1] = x
    BY <1>4, <2>1
  <2>3. IterOK'
    BY <1>1, <1>3, <1>4, <1>5, <2>1, <2>2 DEF IterOK, IterType
  <2>4. /\ hash_to_index(x)' = hash_to_index(x)
        /\ \A k : Before(x, k)' <=> Before(x, k)
    BY <1>1, OrderSame
  <2>5. ~Before(x, x)'
    BY <1>1, <2>1, <2>4, BeforeOrders
  <2>6. PICK s, t : s = seen' /\ t = todo'
    OBVIOUS
  <2>7. /\ \A p, q \in DOMAIN s : s[p] = s[q] => p = q
        /\ t \subseteq StoredKeys'
        /\ \A p \in DOMAIN s : s[p] \in StoredKeys' /\ ~Before(x, s[p])'
        /\ \A k \in t : (\E p \in DOMAIN s : s[p] = k) \/ Before(x, k)'
    BY <1>1, <1>3, <1>4, <2>1, <2>2, <2>4, <2>5, <2>6
  <2>8. iter'.bucket = hash_to_index(x)'
    BY <2>1, <2>4
  <2>9. VisitOK'
    BY <1>1, <1>5, <1>7, <2>1, <2>6, <2>7, <2>8 DEF VisitOK
  <2> QED
    BY <2>3, <2>9
<1> QED
  BY <1>6, <1>7

LEMMA IterProceedKeeps ==
  ASSUME TableInv, IterOK, VisitOK, IterProceed, Contents' = Contents
  PROVE  IterOK' /\ VisitOK'
<1>1. /\ BucketsOK /\ Contents = InBuckets /\ pc = "idle" /\ pc' = "idle" /\ answer' = answer
      /\ ~iter.isEnd /\ iter.current # NULL /\ iter' = Proceeded(iter)
      /\ seen' = seen \o Visited(iter') /\ todo' = todo /\ moved' = moved
      /\ UNCHANGED <<nBuckets, buckets>>
  BY ContentsIdle DEF IterProceed, TableInv, table, resizing
<1>2. /\ iter.current \in StoredKeys /\ iter \in IterType /\ seen \in Seq(Key) /\ moved \in BOOLEAN
      /\ todo \subseteq Key /\ answer \in Value \cup {NULL}
  BY <1>1 DEF IterOK, IterType
<1>3. /\ iter' \in IterType
      /\ iter'.current # NULL => iter'.current \in StoredKeys /\ ~iter'.isEnd
      /\ iter.bucket = hash_to_index(iter.current) =>
           StandsAtFirst(iter', KeysAfter(iter.current))
  BY <1>1, <1>2, ProceedIs
<1>4. StoredKeys' = StoredKeys /\ StoredKeys \subseteq Key
  BY SameStored DEF StoredKeys
<1>5. IterOK'
  <2>1. Visited(iter') \in Seq(Key)
    BY <1>3, <1>4 DEF Visited
  <2>2. seen' \in Seq(Key)
    BY <1>1, <1>2, <2>1, ConcatProperties
  <2> QED
    BY <1>1, <1>2, <1>3, <1>4, <2>2 DEF IterOK, IterType
<1>6. CASE moved
  <2>1. moved'
    BY <1>1, <1>2, <1>6
  <2> QED
    BY <1>5, <2>1 DEF VisitOK
<1>7. ASSUME ~moved
      PROVE  VisitOK'
  <2>1. PICK y, x, s, t : y = iter.current /\ x = iter'.current /\ s = seen /\ t = todo
    OBVIOUS
  <2>2. /\ iter.bucket = hash_to_index(iter.current) /\ t \subseteq StoredKeys
        /\ y \in StoredKeys
        /\ \A p, q \in DOMAIN s : s[p] = s[q] => p = q
        /\ \A p \in DOMAIN s : s[p] \in StoredKeys /\ ~Before(y, s[p])
        /\ \A k \in t : (\E p \in DOMAIN s : s[p] = k) \/ Before(y, k)
    BY <1>1, <1>2, <1>7, <2>1 DEF VisitOK
  <2>3. StandsAtFirst(iter', KeysAfter(y))
    BY <1>3, <2>1, <2>2
  <2>4. CASE x = NULL
    <3>1. KeysAfter(y) = {}
      BY <2>1, <2>3, <2>4 DEF StandsAtFirst
    <3>2. \A k \in t : \E p \in DOMAIN s : s[p] = k
      BY <2>2, <3>1 DEF KeysAfter
    <3>3. seen' = s
      BY <1>1, <1>2, <2>1, <2>4, ConcatEmptySeq DEF Visited
    <3>4. todo' = t /\ iter'.current = NULL /\ ~moved' /\ pc' # "redistribute"
      BY <1>1, <1>7, <2>1, <2>4
    <3> QED
      BY <2>2, <3>2, <3>3, <3>4 DEF VisitOK
  <2>5. CASE x # NULL
    <3>1. /\ x \in StoredKeys /\ Before(y, x) /\ iter'.bucket = hash_to_index(x) /\ ~iter'.isEnd
          /\ \A k \in StoredKeys : Before(y, k) => k = x \/ Before(x, k)
      BY <1>3, <2>1, <2>3, <2>5 DEF StandsAtFirst, KeysAfter
    <3>2. PICK u : u = seen'
      OBVIOUS
    <3>3. /\ DOMAIN u = 1 .. Len(s) + 1 /\ DOMAIN s = 1 .. Len(s) /\ Len(s) \in Nat
          /\ \A p \in DOMAIN s : u[p] = s[p]
          /\ u[Len(s) + 1] = x
      <4>1. u = s \o <<x>> /\ s \in Seq(Key) /\ <<x>> \in Seq(Key) /\ Len(<<x>>) = 1 /\ <<x>>[1] = x
        BY <1>1, <1>2, <1>4, <2>1, <2>5, <3>1, <3>2 DEF Visited
      <4>2. /\ u \in Seq(Key) /\ Len(u) = Len(s) + 1
            /\ \A p \in 1 .. Len(s) + 1 : u[p] = IF p <= Len(s) THEN s[p] ELSE <<x>>[p - Len(s)]
        BY <4>1, ConcatProperties
      <4>3. Len(s) \in Nat /\ DOMAIN s = 1 .. Len(s) /\ DOMAIN u = 1 .. Len(s) + 1
        BY <4>1, <4>2
      <4>4. u[Len(s) + 1] = x
        <5>1. Len(s) + 1 \in 1 .. Len(s) + 1 /\ ~(Len(s) + 1 <= Len(s)) /\ (Len(s) + 1) - Len(s) = 1
          BY <4>3
        <5> QED
          BY <4>1, <4>2, <5>1
      <4>5. \A p \in DOMAIN s : u[p] = s[p]
        BY <4>2, <4>3
      <4> QED
        BY <4>3, <4>4, <4>5
    <3>4. \A p \in DOMAIN u : \/ p \in DOMAIN s /\ u[p] = s[p]
                              \/ p = Len(s) + 1 /\ u[p] = x
      <4> TAKE p \in DOMAIN u
      <4>1. p \in DOMAIN s \/ p = Len(s) + 1
        BY <3>3
      <4> QED
        BY <3>3, <4>1
    <3>5. \A p \in DOMAIN s : s[p] # x /\ ~Before(x, s[p])
      BY <1>1, <2>2, <3>1, BeforeOrders
    <3>6. ~Before(x, x)
      BY <1>1, <3>1, BeforeOrders
    <3>7. /\ \A p, q \in DOMAIN u : u[p] = u[q] => p = q
          /\ \A p \in DOMAIN u : u[p] \in StoredKeys /\ ~Before(x, u[p])
      <4>1. \A p, q \in DOMAIN u : u[p] = u[q] => p = q
        BY <2>2, <3>4, <3>5
      <4>2. \A p \in DOMAIN u : u[p] \in StoredKeys /\ ~Before(x, u[p])
        <5> TAKE p \in DOMAIN u
        <5>1. CASE p \in DOMAIN s /\ u[p] = s[p]
          BY <2>2, <3>5, <5>1
        <5>2. CASE u[p] = x
          BY <3>1, <3>6, <5>2
        <5> QED
          BY <3>4, <5>1, <5>2
      <4> QED
        BY <4>1, <4>2
    <3>8. \A k \in t : (\E p \in DOMAIN u : u[p] = k) \/ Before(x, k)
      <4> TAKE k \in t
      <4>1. CASE \E p \in DOMAIN s : s[p] = k
        <5>1. PICK p \in DOMAIN s : s[p] = k
          BY <4>1
        <5>2. p \in DOMAIN u /\ u[p] = k
          BY <3>3, <5>1
        <5> QED
          BY <5>2
      <4>2. CASE Before(y, k)
        <5>1. Len(s) + 1 \in DOMAIN u
          BY <3>3
        <5> QED
          BY <2>2, <3>1, <3>3, <4>2, <5>1
      <4> QED
        BY <2>2, <4>1, <4>2
    <3>9. hash_to_index(x)' = hash_to_index(x) /\ \A k : Before(x, k)' <=> Before(x, k)
      BY <1>1, OrderSame
    <3>10. /\ \A p \in DOMAIN u : u[p] \in StoredKeys' /\ ~Before(x, u[p])'
           /\ \A k \in t : (\E p \in DOMAIN u : u[p] = k) \/ Before(x, k)'
           /\ t \subseteq StoredKeys' /\ iter'.bucket = hash_to_index(x)'
      BY <1>4, <2>2, <3>1, <3>7, <3>8, <3>9
    <3>11. todo' = t /\ iter'.current = x /\ iter'.current # NULL /\ ~moved' /\ pc' # "redistribute"
      BY <1>1, <1>7, <2>1, <2>5
    <3> QED
      BY <3>1, <3>2, <3>7, <3>10, <3>11 DEF VisitOK
  <2> QED
    BY <2>4, <2>5
<1> QED
  BY <1>5, <1>6, <1>7

-----------------------------------------------------------------------------
(* Every step keeps the count and the iteration. *)

FullInv == TableInv /\ CountOK /\ IterOK /\ VisitOK

LEMMA InitFull == TableInit => FullInv
<1> SUFFICES ASSUME TableInit
             PROVE  FullInv
  OBVIOUS
<1>1. TableInv
  BY TableInitHolds
<1>2. /\ size = 0 /\ answer = NULL /\ pc = "idle" /\ iter = NewIter
      /\ seen = <<>> /\ todo = {} /\ moved = FALSE
      /\ Contents = [k \in Key |-> NULL]
  BY TableInitHolds DEF TableInit, Map!Init
<1>3. StoredKeys = {}
  BY <1>2 DEF StoredKeys
<1>4. CountOK
  BY <1>2, <1>3, TableAssumption, FS_EmptySet DEF CountOK
<1>5. iter.current = NULL /\ iter \in IterType /\ seen \in Seq(Key)
  BY <1>2, EmptySeq DEF NewIter, IterType
<1>6. IterOK
  BY <1>2, <1>5 DEF IterOK, IterType
<1>7. VisitOK
  BY <1>2, <1>5 DEF VisitOK
<1> QED
  BY <1>1, <1>4, <1>6, <1>7 DEF FullInv

(* The chains and the contents stay. *)
LEMMA SameVisits ==
  ASSUME FullInv, UNCHANGED <<nBuckets, buckets, answer, iterating>>,
         Contents' = Contents, pc' # "redistribute"
  PROVE  IterOK' /\ VisitOK'
<1>1. StoredKeys' = StoredKeys
  BY SameStored
<1>2. \A j : Spot(j)' = Spot(j) /\ hash_to_index(j)' = hash_to_index(j)
  BY DEF Spot, hash_to_index
<1> QED
  BY <1>1, <1>2, VisitKept DEF FullInv

LEMMA SameCount ==
  ASSUME CountOK, Contents' = Contents, size' = size
  PROVE  CountOK'
BY SameStored DEF CountOK

LEMMA InsertFull ==
  ASSUME FullInv, NEW k \in Key, NEW v \in Value, Contents = InBuckets,
         Update(k, v) \/ Add(k, v), UNCHANGED <<answer, iterating>>
  PROVE  CountOK' /\ IterOK' /\ VisitOK'
<1>1. TableInv' /\ Contents' = [Contents EXCEPT ![k] = v]
  BY InsertKeeps DEF FullInv
<1>2. CountOK' /\ StoredKeys \subseteq StoredKeys'
  BY <1>1, InsertCounts DEF FullInv
<1>3. pc' # "redistribute"
  BY InsertStores DEF FullInv, TableInv
<1>4. \A j \in StoredKeys : Spot(j)' = Spot(j) /\ hash_to_index(j)' = hash_to_index(j)
  BY InsertSpots DEF FullInv, TableInv
<1>5. IterOK' /\ VisitOK'
  BY <1>2, <1>3, <1>4, VisitKept DEF FullInv
<1> QED
  BY <1>2, <1>5

LEMMA StepFull == FullInv /\ [TableNext]_tableVars => FullInv'
<1> SUFFICES ASSUME FullInv, [TableNext]_tableVars
             PROVE  CountOK' /\ IterOK' /\ VisitOK'
  BY TableStep DEF FullInv
<1>0. TableInv /\ CountOK /\ IterOK /\ VisitOK
  BY DEF FullInv
<1>1. ASSUME NEW k \in Key, NEW v \in Value, Insert(k, v)
      PROVE  CountOK' /\ IterOK' /\ VisitOK'
  <2>1. Contents = InBuckets
    BY <1>1, ContentsIdle DEF Insert
  <2> QED
    BY <1>1, <2>1, InsertFull DEF Insert
<1>2. CASE Gather
  <2>1. Contents' = Contents
    BY <1>0, <1>2, GatherKeeps
  <2>2. /\ UNCHANGED <<nBuckets, buckets, answer, iterating>>
        /\ pc' = "gather" /\ size' = size
    BY <1>2 DEF Gather, table
  <2> QED
    BY <1>0, <2>1, <2>2, SameVisits, SameCount
<1>3. CASE Rebuild
  <2>1. Contents' = Contents
    BY <1>0, <1>3, RebuildKeeps
  <2>2. /\ answer' = answer /\ iter' = iter /\ seen' = seen /\ todo' = todo
        /\ moved' = TRUE /\ size' = size
    BY <1>3 DEF Rebuild
  <2>3. StoredKeys' = StoredKeys
    BY <2>1, SameStored
  <2>4. IterOK'
    BY <1>0, <2>2, <2>3 DEF IterOK
  <2>5. VisitOK'
    BY <2>2 DEF VisitOK
  <2> QED
    BY <1>0, <2>1, <2>2, <2>4, <2>5, SameCount
<1>4. CASE Redistribute
  <2>1. Contents' = Contents
    BY <1>0, <1>4, RedistributeKeeps
  <2>2. /\ UNCHANGED <<answer, iterating>>
        /\ pc = "redistribute" /\ size' = size
    BY <1>4 DEF Redistribute
  <2>3. moved
    BY <1>0, <2>2 DEF VisitOK
  <2>4. StoredKeys' = StoredKeys
    BY <2>1, SameStored
  <2>5. IterOK' /\ VisitOK'
    BY <1>0, <2>2, <2>3, <2>4, VisitKept
  <2> QED
    BY <1>0, <2>1, <2>2, <2>5, SameCount
<1>5. CASE InsertAgain
  <2>1. Contents = InBuckets
    BY <1>0, <1>5, ContentsRebuilt DEF InsertAgain
  <2>2. again[1] \in Key /\ again[2] \in Value
    BY <1>0, <1>5 DEF InsertAgain, TableInv, ResizeOK
  <2> QED
    BY <1>5, <2>1, <2>2, InsertFull DEF InsertAgain
<1>6. ASSUME NEW k \in Key, Find(k)
      PROVE  CountOK' /\ IterOK' /\ VisitOK'
  <2>1. /\ pc = "idle" /\ pc' = "idle" /\ UNCHANGED <<nBuckets, buckets, resizing>>
        /\ UNCHANGED iterating
        /\ answer' = Lookup(buckets[hash_to_index(k)], k) /\ size' = size
    BY <1>6 DEF Find, table, resizing
  <2>2. Contents' = Contents
    BY <1>0, <2>1, SameKeeps
  <2>3. answer' \in Value \cup {NULL}
    BY <1>0, <2>1, HashInBucket, LookupHas DEF TableInv
  <2>4. StoredKeys' = StoredKeys /\ \A j, i : Before(j, i)' <=> Before(j, i)
    BY <2>1, <2>2, SameStored, OrderSame
  <2>5. /\ iter' = iter /\ seen' = seen /\ todo' = todo /\ moved' = moved
        /\ \A j : hash_to_index(j)' = hash_to_index(j)
    BY <2>1, OrderSame DEF iterating
  <2>6. IterOK'
    BY <1>0, <2>3, <2>4, <2>5 DEF IterOK
  <2>7. VisitOK'
    <3>1. PICK y, s, t : y = iter.current /\ s = seen /\ t = todo
      OBVIOUS
    <3>2. /\ y = iter'.current /\ s = seen' /\ t = todo' /\ pc' # "redistribute"
          /\ StoredKeys' = StoredKeys /\ \A j, i : Before(j, i)' <=> Before(j, i)
          /\ hash_to_index(y)' = hash_to_index(y)
      BY <2>1, <2>4, <2>5, <3>1
    <3>3. ~moved =>
       /\ \A p, q \in DOMAIN s : s[p] = s[q] => p = q
       /\ y = NULL => \A j \in t : \E p \in DOMAIN s : s[p] = j
       /\ y # NULL =>
            /\ ~iter.isEnd
            /\ iter.bucket = hash_to_index(y)
            /\ t \subseteq StoredKeys
            /\ \A p \in DOMAIN s : s[p] \in StoredKeys /\ ~Before(y, s[p])
            /\ \A j \in t : (\E p \in DOMAIN s : s[p] = j) \/ Before(y, j)
      BY <1>0, <3>1 DEF VisitOK
    <3>4. ~moved' =>
       /\ \A p, q \in DOMAIN s : s[p] = s[q] => p = q
       /\ y = NULL => \A j \in t : \E p \in DOMAIN s : s[p] = j
       /\ y # NULL =>
            /\ ~iter'.isEnd
            /\ iter'.bucket = hash_to_index(y)'
            /\ t \subseteq StoredKeys'
            /\ \A p \in DOMAIN s : s[p] \in StoredKeys' /\ ~Before(y, s[p])'
            /\ \A j \in t : (\E p \in DOMAIN s : s[p] = j) \/ Before(y, j)'
      BY <2>5, <3>2, <3>3
    <3> QED
      BY <3>2, <3>4 DEF VisitOK
  <2> QED
    BY <1>0, <2>1, <2>2, <2>6, <2>7, SameCount
<1>7. ASSUME NEW k \in Key, Remove(k)
      PROVE  CountOK' /\ IterOK' /\ VisitOK'
  <2>1. Contents' = [Contents EXCEPT ![k] = NULL]
    BY <1>0, <1>7, RemoveKeeps
  <2>2. CountOK'
    BY <1>0, <1>7, <2>1, RemoveCounts
  <2>3. iter.current = NULL /\ UNCHANGED <<answer, iterating>> /\ pc' = "idle"
    BY <1>7 DEF Remove, resizing
  <2> QED
    BY <1>0, <2>2, <2>3, VisitKept
<1>8. CASE Clear
  <2>1. Contents' = [k \in Key |-> NULL]
    BY <1>0, <1>8, ClearKeeps
  <2>2. CountOK'
    BY <1>0, <1>8, <2>1, ClearCounts
  <2>3. iter.current = NULL /\ UNCHANGED <<answer, iterating>> /\ pc' = "idle"
    BY <1>8 DEF Clear, resizing
  <2> QED
    BY <1>0, <2>2, <2>3, VisitKept
<1>9. CASE IterStart(NewIter) \/ IterProceed
  <2>1. UNCHANGED <<nBuckets, buckets, resizing>> /\ size' = size
    BY <1>9 DEF IterStart, IterProceed, table
  <2>2. Contents' = Contents
    BY <1>0, <2>1, SameKeeps
  <2> QED
    BY <1>0, <1>9, <2>1, <2>2, SameCount, IterStartKeeps, IterProceedKeeps
<1>10. CASE UNCHANGED tableVars
  <2>1. UNCHANGED <<nBuckets, buckets, resizing>> /\ size' = size
        /\ UNCHANGED <<answer, iterating>> /\ pc' = pc
    BY <1>10 DEF tableVars, table, resizing
  <2>2. Contents' = Contents
    BY <1>0, <2>1, SameKeeps
  <2>3. StoredKeys' = StoredKeys
    BY <2>2, SameStored
  <2>4. pc' = "redistribute" => moved
    BY <1>0, <2>1 DEF VisitOK
  <2>5. \A j : Spot(j)' = Spot(j) /\ hash_to_index(j)' = hash_to_index(j)
    BY <2>1 DEF Spot, hash_to_index
  <2> QED
    BY <1>0, <2>1, <2>2, <2>3, <2>4, <2>5, SameCount, VisitKept
<1> QED
  BY <1>1, <1>2, <1>3, <1>4, <1>5, <1>6, <1>7, <1>8, <1>9, <1>10 DEF TableNext, Resize

(* With the places of the entries, the count covers them and an iteration  *)
(* has met, or has ahead of it, all that it has to.                        *)
THEOREM FullInvariant == TableSpec => []FullInv
BY InitFull, StepFull, PTL DEF TableSpec

(* A resize never gathers more entries than the count by which it          *)
(* allocated its array, whatever was inserted, removed or cleared before.  *)
THEOREM GatheredFits == TableSpec => []GatherFits
<1>1. FullInv => GatherFits
  BY EntriesFit DEF FullInv
<1> QED
  BY <1>1, FullInvariant, PTL

(* An iteration that no resize disturbs stands at each entry that was      *)
(* there when it began, and at none twice, whatever is inserted meanwhile. *)
THEOREM IterationComplete == TableSpec => []IterVisitsAll
<1>1. ASSUME FullInv
      PROVE  IterVisitsAll
  BY <1>1 DEF FullInv, VisitOK, IterVisitsAll
<1> QED
  BY <1>1, FullInvariant, PTL

(* Every variable keeps its type: the count of the entries stays in range  *)
(* and the iterator's entry is one of the table's keys.                    *)
THEOREM TableTypeCorrect == TableSpec => []TableTypeOK
<1> DEFINE AgainOK == again \in {<<>>} \cup (Key \X Value)
<1>1. TableInit => AgainOK
  BY DEF TableInit
<1>2. TableInv /\ AgainOK /\ [TableNext]_tableVars => AgainOK'
  <2> SUFFICES ASSUME TableInv, AgainOK, [TableNext]_tableVars
               PROVE  AgainOK'
    OBVIOUS
  <2>1. ASSUME NEW k \in Key, NEW v \in Value, Update(k, v) \/ Add(k, v)
        PROVE  AgainOK'
    <3>1. again' = <<>> \/ again' = <<k, v>>
      BY <2>1 DEF Update, Add
    <3> QED
      BY <3>1
  <2>2. CASE \E k \in Key, v \in Value : Insert(k, v)
    BY <2>1, <2>2 DEF Insert
  <2>3. CASE InsertAgain
    <3>1. again[1] \in Key /\ again[2] \in Value
      BY <2>3 DEF InsertAgain, TableInv, ResizeOK
    <3> QED
      BY <2>1, <2>3, <3>1 DEF InsertAgain
  <2>4. CASE UNCHANGED again
    BY <2>4
  <2> QED
    BY <2>2, <2>3, <2>4 DEF TableNext, Resize, Gather, Rebuild, Redistribute, Find, Remove,
       Clear, IterStart, IterProceed, tableVars, resizing
<1>3. FullInv /\ AgainOK => TableTypeOK
  <2> SUFFICES ASSUME FullInv, AgainOK
               PROVE  TableTypeOK
    OBVIOUS
  <2>1. nBuckets \in Nat \ {0} /\ buckets \in [Bucket -> Seq(Entry)]
    BY DEF FullInv, TableInv, BucketsOK, Chain
  <2>2. pc \in {"idle", "gather", "redistribute"} /\ entries \in Seq(Entry) /\ n \in Nat
    BY DEF FullInv, TableInv, ResizeOK, Chain
  <2>3. /\ size \in 0 .. MaxSize /\ answer \in Value \cup {NULL}
        /\ iter \in [bucket : Nat, current : Key \cup {NULL}, isEnd : BOOLEAN]
        /\ seen \in Seq(Key) /\ todo \subseteq Key /\ moved \in BOOLEAN
    BY DEF FullInv, CountOK, IterOK
  <2> QED
    BY <2>1, <2>2, <2>3 DEF TableTypeOK
<1> HIDE DEF AgainOK
<1> QED
  BY <1>1, <1>2, <1>3, FullInvariant, PTL DEF TableSpec, FullInv
=============================================================================
