---------------------------- MODULE InputLoopProofs ----------------------------
(***************************************************************************)
(* Proofs about InputLoop: with one thread that sends, no index leaves the *)
(* queue's array, and no pop finds the queue empty, whatever the queue is  *)
(* created for, however large a batch and however much is sent.            *)
(***************************************************************************)
EXTENDS InputLoop, SequenceTheorems, TLAPS

-----------------------------------------------------------------------------
(* The inductive invariant. *)

Kept == Event \cup {JUNK}

QueueOK ==
  /\ ptr \in Nat /\ alloc \in Nat /\ alloc >= 3
  /\ q \in [0 .. alloc - 1 -> Kept]

(* The numbers the two threads have loaded are in the array, and so is     *)
(* what they are going to store; what was tested or made room for before   *)
(* ptr is loaded stays true until it is.                                   *)
IndicesOK ==
  /\ ptr < alloc
  /\ a \in Nat
  /\ pc \in {"decrement", "read"} => a \in 1 .. alloc - 1
  /\ pc = "pop" => ptr # 0
  /\ \A s \in Sender :
       /\ spc[s] = "load" => ptr + 1 < alloc
       /\ spc[s] \in {"store", "write"} => sa[s] + 1 < alloc

SenderOK ==
  /\ spc \in [Sender -> {"idle", "load", "store", "write"}]
  /\ sa \in [Sender -> Nat]
  /\ sev \in [Sender -> Kept]
  /\ sends \in 0 .. MaxSends

BatchOK ==
  /\ pc \in {"top", "again", "test", "pop", "decrement", "read", "return"}
  /\ batch \in Seq(Kept) /\ Len(batch) <= MaxEvents
  /\ pc \in {"pop", "decrement", "read"} => Len(batch) < MaxEvents
  /\ processed \in Seq(Kept)

QueueInv == QueueOK /\ IndicesOK /\ SenderOK /\ BatchOK

-----------------------------------------------------------------------------

LEMMA InputConstants ==
  /\ StartAlloc \in Nat /\ StartAlloc >= 3
  /\ MaxEvents \in Nat /\ MaxEvents >= 1 /\ MaxSends \in Nat
  /\ JUNK \notin Event /\ EMPTY \notin Event /\ JUNK # EMPTY
BY InputAssumption

(* A full array of at least three entries gets at least one more. *)
LEMMA GrownGrows ==
  ASSUME NEW n \in Nat, n >= 3
  PROVE  Grown(n) \in Nat /\ Grown(n) > n
BY DEF Grown

(* One step of the thread that sends. *)
LEMMA SendKeeps ==
  ASSUME QueueInv, NEW t, Sender = {t}, Send(t)
  PROVE  QueueInv'
<1> USE DEF QueueInv, QueueOK, SenderOK, BatchOK
<1>1. ASSUME NEW e \in Event, Push(t, e)
      PROVE  QueueInv'
  <2>1. /\ spc' = [spc EXCEPT ![t] = "load"] /\ sev' = [sev EXCEPT ![t] = e]
        /\ sends' = sends + 1 /\ sends < MaxSends
        /\ UNCHANGED <<ptr, sa, pc, a, batch, processed>>
    BY <1>1 DEF Push, input
  <2>2. alloc' \in Nat /\ alloc' >= alloc /\ ptr + 1 < alloc' /\ q' \in [0 .. alloc' - 1 -> Kept]
    <3>1. CASE Full
      <4>1. /\ alloc' = Grown(alloc)
            /\ q' = [k \in 0 .. Grown(alloc) - 1 |-> IF k < alloc THEN q[k] ELSE JUNK]
        BY <1>1, <3>1 DEF Push
      <4>2. Grown(alloc) \in Nat /\ Grown(alloc) > alloc
        BY GrownGrows
      <4>3. \A k \in 0 .. Grown(alloc) - 1 : (IF k < alloc THEN q[k] ELSE JUNK) \in Kept
        BY <4>2 DEF Kept
      <4> QED
        BY <4>1, <4>2, <4>3 DEF IndicesOK
    <3>2. CASE ~Full
      <4>1. UNCHANGED <<alloc, q>>
        BY <1>1, <3>2 DEF Push
      <4> QED
        BY <3>2, <4>1 DEF Full
    <3> QED
      BY <3>1, <3>2
  <2>3. SenderOK'
    BY <2>1, InputConstants DEF Kept
  <2>4. IndicesOK'
    <3>1. ptr' = ptr /\ a' = a /\ pc' = pc /\ ptr + 1 < alloc' /\ alloc' \in Nat
      BY <2>1, <2>2
    <3>2. pc' \in {"decrement", "read"} => a' \in 1 .. alloc' - 1
      <4> SUFFICES ASSUME pc \in {"decrement", "read"}
                   PROVE  a \in 1 .. alloc' - 1
        BY <3>1
      <4>1. a \in 1 .. alloc - 1
        BY DEF IndicesOK
      <4>2. alloc' >= alloc /\ alloc' \in Nat
        BY <2>2
      <4>3. \A n \in Nat : n >= alloc => a \in 1 .. n - 1
        BY <4>1
      <4> QED
        BY <4>2, <4>3
    <3>3. \A s \in Sender : spc'[s] = "load"
      BY <2>1
    <3>4. a' \in Nat /\ (pc' = "pop" => ptr' # 0)
      BY <3>1 DEF IndicesOK
    <3>5. ptr' < alloc' /\ ptr' + 1 < alloc'
      BY <3>1
    <3> QED
      BY <3>2, <3>3, <3>4, <3>5 DEF IndicesOK
  <2>5. QueueOK'
    <3>1. alloc' \in Nat /\ alloc' >= 3 /\ ptr' = ptr
      BY <2>1, <2>2
    <3> QED
      BY <2>2, <3>1
  <2>6. BatchOK'
    BY <2>1
  <2> QED
    BY <2>3, <2>4, <2>5, <2>6
<1>2. CASE LoadPtr(t)
  <2>1. /\ spc' = [spc EXCEPT ![t] = "store"] /\ sa' = [sa EXCEPT ![t] = ptr]
        /\ spc[t] = "load"
        /\ UNCHANGED <<ptr, alloc, q, sev, sends, pc, a, batch, processed>>
    BY <1>2 DEF LoadPtr, queue, input
  <2> QED
    BY <2>1 DEF IndicesOK
<1>3. CASE StorePtr(t)
  <2>1. /\ spc' = [spc EXCEPT ![t] = "write"] /\ ptr' = sa[t] + 1
        /\ spc[t] = "store"
        /\ UNCHANGED <<alloc, q, sa, sev, sends, pc, a, batch, processed>>
    BY <1>3 DEF StorePtr, input
  <2> QED
    BY <2>1 DEF IndicesOK
<1>4. CASE WriteEvent(t)
  <2>1. /\ spc' = [spc EXCEPT ![t] = "idle"] /\ q' = [q EXCEPT ![sa[t]] = sev[t]]
        /\ UNCHANGED <<ptr, alloc, sa, sev, sends, pc, a, batch, processed>>
    BY <1>4 DEF WriteEvent, input
  <2> QED
    BY <2>1 DEF IndicesOK
<1> QED
  BY <1>1, <1>2, <1>3, <1>4 DEF Send

(* One step of the input thread. *)
LEMMA InputKeeps ==
  ASSUME QueueInv, Input
  PROVE  QueueInv'
<1> USE DEF QueueInv, QueueOK, SenderOK, BatchOK
<1>1. CASE GetEvents
  <2>1. /\ batch' = <<>> /\ pc' = "test"
        /\ UNCHANGED <<ptr, alloc, q, spc, sa, sev, sends, a, processed>>
    BY <1>1 DEF GetEvents, queue, senders
  <2>2. batch' \in Seq(Kept) /\ Len(batch') = 0
    BY <2>1
  <2> QED
    BY <2>1, <2>2, InputConstants DEF IndicesOK
<1>2. CASE TestEmpty
  <2>1. /\ pc' = IF Len(batch) < MaxEvents /\ ptr # 0 THEN "pop" ELSE "return"
        /\ UNCHANGED <<ptr, alloc, q, spc, sa, sev, sends, a, batch, processed>>
    BY <1>2 DEF TestEmpty, queue, senders
  <2> QED
    BY <2>1 DEF IndicesOK
<1>3. CASE Pop
  <2>1. /\ a' = ptr /\ pc' = "decrement" /\ ptr # 0
        /\ UNCHANGED <<ptr, alloc, q, spc, sa, sev, sends, batch, processed>>
        /\ pc = "pop"
    BY <1>3 DEF Pop, queue, senders, IndicesOK
  <2> QED
    BY <2>1 DEF IndicesOK
<1>4. CASE Decrement
  <2>1. /\ ptr' = a - 1 /\ pc' = "read" /\ pc = "decrement"
        /\ UNCHANGED <<alloc, q, spc, sa, sev, sends, a, batch, processed>>
    BY <1>4 DEF Decrement, senders
  <2>2. a \in 1 .. alloc - 1
    BY <2>1 DEF IndicesOK
  <2>3. ptr' \in Nat /\ ptr' + 1 < alloc
    BY <2>1, <2>2
  <2> QED
    BY <2>1, <2>2, <2>3 DEF IndicesOK
<1>5. CASE Read
  <2>1. /\ batch' = Append(batch, q[a]) /\ pc' = "test" /\ pc = "read"
        /\ UNCHANGED <<ptr, alloc, q, spc, sa, sev, sends, a, processed>>
    BY <1>5 DEF Read, queue, senders
  <2>2. q[a] \in Kept
    BY <2>1 DEF IndicesOK
  <2>3. batch' \in Seq(Kept) /\ Len(batch') = Len(batch) + 1 /\ Len(batch) \in Nat
    BY <2>1, <2>2
  <2>4. Len(batch') <= MaxEvents
    BY <2>1, <2>3, InputConstants
  <2> QED
    BY <2>1, <2>3, <2>4 DEF IndicesOK
<1>6. CASE Return
  <2>1. /\ processed' \in {batch, <<>>} /\ pc' \in {"again", "top"}
        /\ UNCHANGED <<ptr, alloc, q, spc, sa, sev, sends, a, batch>>
    BY <1>6 DEF Return, queue, senders
  <2>2. processed' \in Seq(Kept)
    <3>1. <<>> \in Seq(Kept) /\ batch \in Seq(Kept)
      OBVIOUS
    <3> QED
      BY <2>1, <3>1
  <2> QED
    BY <2>1, <2>2 DEF IndicesOK
<1> QED
  BY <1>1, <1>2, <1>3, <1>4, <1>5, <1>6 DEF Input

LEMMA InputInitHolds == InputInit => QueueInv
<1> SUFFICES ASSUME InputInit
             PROVE  QueueInv
  OBVIOUS
<1>1. <<>> \in Seq(Kept) /\ Len(<<>>) = 0
  OBVIOUS
<1> QED
  BY <1>1, InputConstants
  DEF InputInit, QueueInv, QueueOK, IndicesOK, SenderOK, BatchOK, Kept

LEMMA InputNextKeeps ==
  ASSUME NEW t, Sender = {t}
  PROVE  QueueInv /\ [InputNext]_inputVars => QueueInv'
<1> SUFFICES ASSUME QueueInv, [InputNext]_inputVars
             PROVE  QueueInv'
  OBVIOUS
<1>1. CASE UNCHANGED inputVars
  BY <1>1 DEF inputVars, queue, senders, input,
              QueueInv, QueueOK, IndicesOK, SenderOK, BatchOK
<1> QED
  BY <1>1, SendKeeps, InputKeeps DEF InputNext

(* With one sender, every interleaving of the two threads keeps the whole  *)
(* invariant.                                                              *)
THEOREM QueueInvariant ==
  ASSUME NEW CONSTANT t, Sender = {t}
  PROVE  InputSpec => []QueueInv
<1>1. QueueInv /\ [InputNext]_inputVars => QueueInv'
  BY InputNextKeeps
<1> QED
  BY <1>1, InputInitHolds, PTL DEF InputSpec

(* A batch never gets more events than the caller's array holds, and the   *)
(* queue's array, the indices and the events keep their types.             *)
THEOREM InputTypeCorrect ==
  ASSUME NEW CONSTANT t, Sender = {t}
  PROVE  InputSpec => []InputTypeOK
<1>1. QueueInv => InputTypeOK
  <2> SUFFICES ASSUME QueueInv
               PROVE  InputTypeOK
    OBVIOUS
  <2>1. Kept \subseteq Entry
    BY DEF Kept, Entry
  <2>2. batch \in Seq(Entry) /\ processed \in Seq(Entry)
    BY <2>1, SeqMonotonic DEF QueueInv, BatchOK
  <2> QED
    BY <2>1, <2>2 DEF InputTypeOK, QueueInv, QueueOK, IndicesOK, SenderOK, BatchOK
<1> QED
  BY <1>1, QueueInvariant, PTL

(* Nothing that one sender and the input thread do to each other's ptr     *)
(* makes a push or a pop leave the array.                                  *)
THEOREM QueueInBounds ==
  ASSUME NEW CONSTANT t, Sender = {t}
  PROVE  InputSpec => []InBounds
<1>1. QueueInv => InBounds
  <2> SUFFICES ASSUME QueueInv
               PROVE  InBounds
    OBVIOUS
  <2>1. \A k \in DOMAIN batch : batch[k] \in Kept
    BY DEF QueueInv, BatchOK
  <2>2. EMPTY \notin Kept
    BY InputConstants DEF Kept
  <2> QED
    BY <2>1, <2>2 DEF InBounds, QueueInv, IndicesOK
<1> QED
  BY <1>1, QueueInvariant, PTL
=============================================================================
