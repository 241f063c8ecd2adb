------------------------------- MODULE InputLoop -------------------------------
(***************************************************************************)
(* The event queue of the system (src/system/system_linux.c) between the   *)
(* threads that send events to it (gensyn_system_input_send_event) and the *)
(* input thread, which takes them out in batches (the loop of              *)
(* src/gensyn.c).  There is no lock: a push and a pop are taken apart into *)
(* their loads and stores of the queue's fields, in the order in which the *)
(* unoptimised build executes them.                                        *)
(*                                                                         *)
(* The input thread's other sources never give it anything: nothing pushes *)
(* to its two rings, and without a MIDI device there is nothing to update  *)
(* (with one, the update does not return).                                 *)
(*                                                                         *)
(* Abstracted: the contents of an event; the growth of the array is one    *)
(* step.                                                                   *)
(***************************************************************************)
EXTENDS Naturals, Sequences

CONSTANTS
  Sender,       \* the threads that send events
  Event,        \* what they send
  StartAlloc,   \* 256: the events a queue is created for
  MaxEvents,    \* MAX_EVENTS_PER_ITER
  MaxSends,     \* bound: the events sent in all
  EMPTY,        \* the zeroed event a pop of an empty queue returns
  JUNK          \* memory that was never written

ASSUME InputAssumption ==
  /\ StartAlloc \in Nat
  /\ StartAlloc >= 3
  /\ MaxEvents \in Nat \ {0}
  /\ MaxSends \in Nat
  /\ JUNK \notin Event /\ EMPTY \notin Event /\ JUNK # EMPTY

VARIABLES
  ptr, alloc,
  q,          \* q[k]: entry k of the queue's array
  spc, sa,    \* where a sender is in ev_queue_push; the ptr it has loaded
  sev,        \* the event it is sending
  pc,         \* where the input thread is
  a,          \* the ptr it has loaded
  batch,      \* the events gensyn_system_input_get_events has taken
  processed,  \* the events the loop's body passed on in its last turn
  sends       \* the number of events sent

queue     == <<ptr, alloc, q>>
senders   == <<spc, sa, sev, sends>>
input     == <<pc, a, batch, processed>>
inputVars == <<queue, senders, input>>

InputInit ==
  /\ ptr = 0
  /\ alloc = StartAlloc
  /\ q = [k \in 0 .. StartAlloc - 1 |-> JUNK]
  /\ spc = [s \in Sender |-> "idle"]
  /\ sa = [s \in Sender |-> 0]
  /\ sev = [s \in Sender |-> JUNK]
  /\ pc = "top" /\ a = 0 /\ batch = <<>> /\ processed = <<>>
  /\ sends = 0

-----------------------------------------------------------------------------
(* gensyn_system_input_send_event: ev_queue_push. *)

(* Mistake: the last entry is used before the array grows. *)
FullLate == ptr >= alloc

Full == ptr + 1 >= alloc

Grown(n) == (14 * n) \div 10

(* The test for space, and what it finds, come before ptr is loaded. *)
Push(s, e) ==
  /\ spc[s] = "idle"
  /\ sends < MaxSends
  /\ sends' = sends + 1
  /\ sev' = [sev EXCEPT ![s] = e]
  /\ IF Full
     THEN /\ alloc' = Grown(alloc)
          /\ q' = [k \in 0 .. Grown(alloc) - 1 |-> IF k < alloc THEN q[k] ELSE JUNK]
     ELSE UNCHANGED <<alloc, q>>
  /\ spc' = [spc EXCEPT ![s] = "load"]
  /\ UNCHANGED <<ptr, sa, input>>

LoadPtr(s) ==
  /\ spc[s] = "load"
  /\ sa' = [sa EXCEPT ![s] = ptr]
  /\ spc' = [spc EXCEPT ![s] = "store"]
  /\ UNCHANGED <<queue, sev, sends, input>>

StorePtr(s) ==
  /\ spc[s] = "store"
  /\ ptr' = sa[s] + 1
  /\ spc' = [spc EXCEPT ![s] = "write"]
  /\ UNCHANGED <<alloc, q, sa, sev, sends, input>>

WriteEvent(s) ==
  /\ spc[s] = "write"
  /\ q' = [q EXCEPT ![sa[s]] = sev[s]]
  /\ spc' = [spc EXCEPT ![s] = "idle"]
  /\ UNCHANGED <<ptr, alloc, sa, sev, sends, input>>

Send(s) ==
  \/ \E e \in Event : Push(s, e)
  \/ LoadPtr(s) \/ StorePtr(s) \/ WriteEvent(s)

-----------------------------------------------------------------------------
(* gensyn_input_loop_thread__main and gensyn_system_input_get_events. *)

GetEvents ==
  /\ pc \in {"top", "again"}
  /\ batch' = <<>>
  /\ pc' = "test"
  /\ UNCHANGED <<queue, senders, a, processed>>

(* Mistake: one event more than the caller's array holds. *)
TestEmptyOver ==
  /\ pc = "test"
  /\ pc' = IF Len(batch) <= MaxEvents /\ ptr # 0 THEN "pop" ELSE "return"
  /\ UNCHANGED <<queue, senders, a, batch, processed>>

TestEmpty ==
  /\ pc = "test"
  /\ pc' = IF Len(batch) < MaxEvents /\ ptr # 0 THEN "pop" ELSE "return"
  /\ UNCHANGED <<queue, senders, a, batch, processed>>

(* ev_queue_pop tests ptr again, and loads it. *)
Pop ==
  /\ pc = "pop"
  /\ IF ptr = 0
     THEN /\ batch' = Append(batch, EMPTY)
          /\ pc' = "test"
          /\ UNCHANGED a
     ELSE /\ a' = ptr
          /\ pc' = "decrement"
          /\ UNCHANGED batch
  /\ UNCHANGED <<queue, senders, processed>>

(* Mistake: the pop leaves the event in the queue. *)
DecrementNot ==
  /\ pc = "decrement"
  /\ pc' = "read"
  /\ UNCHANGED <<queue, senders, a, batch, processed>>

Decrement ==
  /\ pc = "decrement"
  /\ ptr' = a - 1
  /\ pc' = "read"
  /\ UNCHANGED <<alloc, q, senders, a, batch, processed>>

(* The entry read is that of the loaded ptr, not the one below. *)
Read ==
  /\ pc = "read"
  /\ batch' = Append(batch, q[a])
  /\ pc' = "test"
  /\ UNCHANGED <<queue, senders, a, processed>>

(* The answer is whether the queue still has events; the loop has a body   *)
(* only if it does.                                                        *)
Return ==
  /\ pc = "return"
  /\ IF ptr # 0
     THEN processed' = batch /\ pc' = "again"
     ELSE processed' = <<>> /\ pc' = "top"
  /\ UNCHANGED <<queue, senders, a, batch>>

Input == GetEvents \/ TestEmpty \/ Pop \/ Decrement \/ Read \/ Return

-----------------------------------------------------------------------------

InputNext == Input \/ \E s \in Sender : Send(s)

(* The input thread runs on; so does a thread that has begun to send. *)
InputSpec ==
  /\ InputInit
  /\ [][InputNext]_inputVars
  /\ WF_inputVars(Input)
  /\ \A s \in Sender : WF_inputVars(spc[s] # "idle" /\ Send(s))

-----------------------------------------------------------------------------
(* Properties. *)

Entry == Event \cup {EMPTY, JUNK}

InputTypeOK ==
  /\ ptr \in Nat /\ alloc \in Nat
  /\ q \in [0 .. alloc - 1 -> Entry]
  /\ spc \in [Sender -> {"idle", "load", "store", "write"}]
  /\ sa \in [Sender -> Nat]
  /\ sev \in [Sender -> Entry]
  /\ pc \in {"top", "again", "test", "pop", "decrement", "read", "return"}
  /\ a \in Nat
  /\ batch \in Seq(Entry) /\ Len(batch) <= MaxEvents
  /\ processed \in Seq(Entry)
  /\ sends \in 0 .. MaxSends

(* Whatever the sender and the input thread do to each other's ptr, no     *)
(* push or pop (lines 506 to 526) leaves the array, although a pop reads   *)
(* one entry above its event, and a pop never finds the queue empty that   *)
(* was tested before it.  Only for one sender: between the test for space  *)
(* and the load of ptr a second one can use the space up.                  *)
InBounds ==
  /\ ptr < alloc
  /\ pc \in {"decrement", "read"} => a \in 1 .. alloc - 1
  /\ EMPTY \notin {batch[k] : k \in DOMAIN batch}
  /\ \A s \in Sender : spc[s] \in {"store", "write"} => sa[s] + 1 < alloc

(* Once the senders pause, the loop of gensyn_input_loop_thread__main gets *)
(* back to its top, where it would update the devices again, even if its   *)
(* decrements were overwritten by theirs.                                  *)
ComesAround == pc = "test" ~> pc = "top"

(* gate.h:74: onInput is called when the system receives an input event.   *)
(* So each batch that was taken out of the queue is passed on.             *)
NoneDropped == [][pc = "return" => processed' = batch]_inputVars
=============================================================================
