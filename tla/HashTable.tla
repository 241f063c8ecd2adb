------------------------------- MODULE HashTable -------------------------------
(***************************************************************************)
(* The hash table (src/table.c) that keeps the gates of a context, the     *)
(* commands, the prefabs and the contexts: buckets of chained entries, a   *)
(* resize when a chain gets long, and an iterator.                         *)
(*                                                                         *)
(* A chain is the sequence of its entries, the first one that of the       *)
(* bucket.  The loops of a resize are steps, during which nobody else uses *)
(* the table.  An iterator may be under way between two insertions: the    *)
(* audio thread's loop over the gates runs against gate-add.  Nothing      *)
(* removes an entry while an iterator is under way.                        *)
(*                                                                         *)
(* Abstracted: the kinds of key, which differ in how they are hashed,      *)
(* compared and copied; an entry's copy of its hash.                       *)
(***************************************************************************)
EXTENDS Naturals, Sequences

CONSTANTS
  Key,
  Value,
  Hash,           \* the hash of each key
  HashMod,        \* 2^32: a hash is a uint32_t
  StartBuckets,   \* table_bucket_start_size
  MaxChain,       \* table_bucket_max_size
  MaxBuckets,     \* bound: the buckets a table may grow to
  MaxSize,        \* bound: what size may count up to
  NULL

ASSUME TableAssumption ==
  /\ HashMod \in Nat \ {0}
  /\ Hash \in [Key -> 0 .. HashMod - 1]
  /\ StartBuckets \in Nat \ {0}
  /\ MaxChain \in Nat
  /\ MaxBuckets \in Nat
  /\ MaxSize \in Nat
  /\ NULL \notin Key \cup Value

VARIABLES
  nBuckets,
  buckets,   \* buckets[b]: the chain of bucket b
  size,
  answer,    \* what gensyn_table_find last returned
  pc,        \* "idle", or the loop of gensyn_table_resize that is running
  entries,   \* the entries the resize has gathered
  n,         \* the index of that loop
  again,     \* the insertion that caused the resize
  iter,      \* an iterator
  seen,      \* the keys it has stood at since it was started,
  todo,      \* those that were in the table then,
  moved      \* and whether the table was resized since

table     == <<nBuckets, buckets, size>>
resizing  == <<pc, entries, n, again>>
iterating == <<iter, seen, todo, moved>>
tableVars == <<table, answer, resizing, iterating>>

Entry == [key : Key, value : Value]
Bucket == 0 .. nBuckets - 1
NewIter == [bucket |-> 0, current |-> NULL, isEnd |-> FALSE]

TableInit ==
  /\ nBuckets = StartBuckets
  /\ buckets = [b \in Bucket |-> <<>>]
  /\ size = 0
  /\ answer = NULL
  /\ pc = "idle" /\ entries = <<>> /\ n = 0 /\ again = <<>>
  /\ iter = NewIter /\ seen = <<>> /\ todo = {} /\ moved = FALSE

-----------------------------------------------------------------------------
(* The walk along a chain that insert, find and remove share. *)

Index(k, m) == ((Hash[k] * 11) % HashMod) % m
hash_to_index(k) == Index(k, nBuckets)

Has(chain, k) == \E p \in DOMAIN chain : chain[p].key = k

Place(chain, k) ==
  CHOOSE p \in DOMAIN chain :
    chain[p].key = k /\ \A q \in DOMAIN chain : chain[q].key = k => p <= q

Lookup(chain, k) == IF Has(chain, k) THEN chain[Place(chain, k)].value ELSE NULL

Keys == {k \in Key : \E b \in Bucket : Has(buckets[b], k)}

-----------------------------------------------------------------------------
(* gensyn_table_insert.  It tests the length of the chain before the new   *)
(* entry; after the resize it starts over, and finds the entry it added.   *)

(* A mistake that InsertEnds rejects: the chain's length is tested again.  *)
UpdateLong(k, v) ==
  LET b == hash_to_index(k)
      long == Len(buckets[b]) > MaxChain /\ pc # "idle"
  IN
  /\ Has(buckets[b], k)
  /\ long => 2 * nBuckets <= MaxBuckets
  /\ buckets' = [buckets EXCEPT ![b][Place(buckets[b], k)].value = v]
  /\ pc' = IF long THEN "gather" ELSE "idle"
  /\ again' = IF long THEN again ELSE <<>>
  /\ entries' = <<>> /\ n' = 0
  /\ UNCHANGED <<nBuckets, size>>

Update(k, v) ==
  LET b == hash_to_index(k) IN
  /\ Has(buckets[b], k)
  /\ buckets' = [buckets EXCEPT ![b][Place(buckets[b], k)].value = v]
  /\ pc' = "idle" /\ entries' = <<>> /\ n' = 0 /\ again' = <<>>
  /\ UNCHANGED <<nBuckets, size>>

(* A mistake that GatherFits rejects: only the first entry of a chain is    *)
(* counted.                                                                *)
AddUncounted(k, v) ==
  LET b == hash_to_index(k)
      long == Len(buckets[b]) > MaxChain
  IN
  /\ ~Has(buckets[b], k)
  /\ long => 2 * nBuckets <= MaxBuckets
  /\ buckets' = [buckets EXCEPT ![b] = Append(@, [key |-> k, value |-> v])]
  /\ size' = IF buckets[b] = <<>> THEN size + 1 ELSE size
  /\ pc' = IF long THEN "gather" ELSE "idle"
  /\ again' = IF long THEN <<k, v>> ELSE <<>>
  /\ entries' = <<>> /\ n' = 0
  /\ UNCHANGED nBuckets

Add(k, v) ==
  LET b == hash_to_index(k)
      long == Len(buckets[b]) > MaxChain
  IN
  /\ ~Has(buckets[b], k)
  /\ size < MaxSize
  /\ long => 2 * nBuckets <= MaxBuckets
  /\ buckets' = [buckets EXCEPT ![b] = Append(@, [key |-> k, value |-> v])]
  /\ size' = size + 1
  /\ pc' = IF long THEN "gather" ELSE "idle"
  /\ again' = IF long THEN <<k, v>> ELSE <<>>
  /\ entries' = <<>> /\ n' = 0
  /\ UNCHANGED nBuckets

Insert(k, v) ==
  /\ pc = "idle"
  /\ Update(k, v) \/ Add(k, v)
  /\ UNCHANGED <<answer, iterating>>

(* gensyn_table_resize gathers the entries bucket by bucket, ... *)
Gather ==
  /\ pc = "gather"
  /\ n < nBuckets
  /\ entries' = entries \o buckets[n]
  /\ n' = n + 1
  /\ UNCHANGED <<table, answer, pc, again, iterating>>

(* ... doubles the buckets, ... *)
Rebuild ==
  /\ pc = "gather"
  /\ n = nBuckets
  /\ nBuckets' = 2 * nBuckets
  /\ buckets' = [b \in 0 .. 2 * nBuckets - 1 |-> <<>>]
  /\ pc' = "redistribute"
  /\ n' = 1
  /\ moved' = TRUE
  /\ UNCHANGED <<size, answer, entries, again, iter, seen, todo>>

(* ... and appends each entry to its new chain. *)
Redistribute ==
  /\ pc = "redistribute"
  /\ n <= Len(entries)
  /\ buckets' = [buckets EXCEPT ![hash_to_index(entries[n].key)] =
                   Append(@, entries[n])]
  /\ n' = n + 1
  /\ UNCHANGED <<nBuckets, size, answer, pc, entries, again, iterating>>

InsertAgain ==
  /\ pc = "redistribute"
  /\ n > Len(entries)
  /\ Update(again[1], again[2]) \/ Add(again[1], again[2])
  /\ UNCHANGED <<answer, iterating>>

-----------------------------------------------------------------------------

Find(k) ==
  /\ pc = "idle"
  /\ answer' = Lookup(buckets[hash_to_index(k)], k)
  /\ UNCHANGED <<table, resizing, iterating>>

(* A mistake that IsMap rejects: the rest of the chain is dropped. *)
UnlinkedRest(chain, p) == SubSeq(chain, 1, p - 1)

(* Every entry of the chain but the one at p. *)
Unlinked(chain, p) == SubSeq(chain, 1, p - 1) \o SubSeq(chain, p + 1, Len(chain))

(* A mistake that TableTypeOK rejects: a key that is not there is counted. *)
RemoveAny(k) ==
  LET b == hash_to_index(k) IN
  /\ pc = "idle"
  /\ iter.current = NULL
  /\ buckets' = [buckets EXCEPT ![b] = IF Has(@, k) THEN Unlinked(@, Place(@, k)) ELSE @]
  /\ size' = size - 1
  /\ UNCHANGED <<nBuckets, answer, resizing, iterating>>

(* Removing a key that is not there changes nothing. *)
Remove(k) ==
  LET b == hash_to_index(k) IN
  /\ pc = "idle"
  /\ iter.current = NULL
  /\ Has(buckets[b], k)
  /\ buckets' = [buckets EXCEPT ![b] = Unlinked(@, Place(@, k))]
  /\ size' = size - 1
  /\ UNCHANGED <<nBuckets, answer, resizing, iterating>>

(* The entries are freed; size stays. *)
Clear ==
  /\ pc = "idle"
  /\ iter.current = NULL
  /\ buckets' = [b \in Bucket |-> <<>>]
  /\ UNCHANGED <<nBuckets, size, answer, resizing, iterating>>

-----------------------------------------------------------------------------
(* The iterator.  Its current entry is known by its key, and followed by   *)
(* the next one in the chain that the entry is in by now.                  *)

HeadKey(chain) == IF chain = <<>> THEN NULL ELSE chain[1].key

After(k) ==
  LET chain == buckets[hash_to_index(k)]
      p == Place(chain, k)
  IN  IF p < Len(chain) THEN chain[p + 1].key ELSE NULL

(* The buckets in use behind the one the iterator counts as its own. *)
Behind(it) == {b \in it.bucket + 1 .. nBuckets - 1 : buckets[b] # <<>>}

(* A mistake that IterVisitsAll rejects: the bucket is not moved along. *)
ProceededInPlace(it) ==
  CASE it.isEnd -> it
    [] ~it.isEnd /\ it.current # NULL /\ After(it.current) # NULL ->
         [it EXCEPT !.current = After(it.current)]
    [] OTHER ->
         IF Behind(it) = {}
         THEN [it EXCEPT !.current = NULL, !.isEnd = TRUE]
         ELSE LET b == CHOOSE b \in Behind(it) : \A c \in Behind(it) : b <= c
              IN  [it EXCEPT !.current = HeadKey(buckets[b])]

Proceeded(it) ==
  CASE it.isEnd -> it
    [] ~it.isEnd /\ it.current # NULL /\ After(it.current) # NULL ->
         [it EXCEPT !.current = After(it.current)]
    [] OTHER ->
         IF Behind(it) = {}
         THEN [it EXCEPT !.current = NULL, !.isEnd = TRUE]
         ELSE LET b == CHOOSE b \in Behind(it) : \A c \in Behind(it) : b <= c
              IN  [it EXCEPT !.current = HeadKey(buckets[b]), !.bucket = b]

(* isEnd stays what it was. *)
Started(it) ==
  LET first == [it EXCEPT !.bucket = 0, !.current = HeadKey(buckets[0])]
  IN  IF first.current = NULL THEN Proceeded(first) ELSE first

Visited(it) == IF it.current = NULL THEN <<>> ELSE <<it.current>>

(* A new iterator, as gate-list and a resize use, or one that is used again. *)
IterStart(it) ==
  /\ pc = "idle"
  /\ iter' = Started(it)
  /\ seen' = Visited(iter')
  /\ todo' = Keys
  /\ moved' = FALSE
  /\ UNCHANGED <<table, answer, resizing>>

IterProceed ==
  /\ pc = "idle"
  /\ ~iter.isEnd
  /\ iter.current # NULL
  /\ iter' = Proceeded(iter)
  /\ seen' = seen \o Visited(iter')
  /\ UNCHANGED <<table, answer, resizing, todo, moved>>

-----------------------------------------------------------------------------

Resize == Gather \/ Rebuild \/ Redistribute \/ InsertAgain

TableNext ==
  \/ \E k \in Key, v \in Value : Insert(k, v)
  \/ Resize
  \/ \E k \in Key : Find(k) \/ Remove(k)
  \/ Clear
  \/ IterStart(NewIter)
  \/ IterProceed

(* An insertion runs to its end. *)
TableSpec == TableInit /\ [][TableNext]_tableVars /\ WF_tableVars(Resize)

-----------------------------------------------------------------------------
(* Properties. *)

TableTypeOK ==
  /\ nBuckets \in Nat \ {0}
  /\ buckets \in [Bucket -> Seq(Entry)]
  /\ size \in 0 .. MaxSize
  /\ answer \in Value \cup {NULL}
  /\ pc \in {"idle", "gather", "redistribute"}
  /\ entries \in Seq(Entry)
  /\ n \in Nat
  /\ again \in {<<>>} \cup (Key \X Value)
  /\ iter \in [bucket : Nat, current : Key \cup {NULL}, isEnd : BOOLEAN]
  /\ seen \in Seq(Key)
  /\ todo \subseteq Key
  /\ moved \in BOOLEAN

(* What the table holds at any time: what a lookup would find, or, while   *)
(* the chains are being rebuilt, what the resize has gathered.             *)
Contents ==
  [k \in Key |-> IF pc = "redistribute" THEN Lookup(entries, k)
                 ELSE Lookup(buckets[hash_to_index(k)], k)]

(* The table is the map it promises to be, through collisions, updates,    *)
(* removals from the middle of a chain, and resizes.                       *)
Map == INSTANCE Dictionary WITH contents <- Contents
IsMap == Map!Spec

(* gensyn_table_resize takes the array it gathers into by the count: the   *)
(* count never falls behind the entries it stands for.  (Line 197 makes    *)
(* each place as large as an entry, where a pointer to one is stored, so   *)
(* that the code would not miss a few.)                                    *)
GatherFits == pc # "idle" => Len(entries) <= size

(* Unless a resize comes in between, an iteration stands at every entry    *)
(* that was there when it began, and at none twice, whatever is inserted   *)
(* meanwhile.                                                              *)
IterVisitsAll ==
  ~moved =>
    /\ \A p, q \in DOMAIN seen : seen[p] = seen[q] => p = q
    /\ iter.isEnd => \A k \in todo : \E p \in DOMAIN seen : seen[p] = k

(* An insertion ends: it does not resize over and over. *)
InsertEnds == pc # "idle" ~> pc = "idle"
=============================================================================
