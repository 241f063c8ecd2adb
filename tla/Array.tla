--------------------------------- MODULE Array ---------------------------------
(***************************************************************************)
(* The growable array (src/array.c) that keeps the gates of the input      *)
(* thread, its devices, and the names of a gate type's INs and parameters. *)
(* An array is its memory, of alloc elements, of which the first size are  *)
(* in use.  A call begins with its arguments and ends with the change that *)
(* it makes; the loops that make room and that search take one turn a      *)
(* step in between.                                                        *)
(*                                                                         *)
(* Only single elements are pushed, as gensyn_array_push does: the count   *)
(* of gensyn_array_push_n raises size by one whatever it is.               *)
(*                                                                         *)
(* Abstracted: the bytes of an element.                                    *)
(***************************************************************************)
EXTENDS Naturals, Sequences

CONSTANTS
  Elem,      \* what is kept, ordered as the caller's comparison does
  Presize,   \* array_presize_amt
  MaxSize,   \* bound: the elements of an array
  UNSET      \* memory that was never written

ASSUME ArrayAssumption ==
  /\ Elem \subseteq Nat
  /\ Presize \in Nat \ {0}
  /\ MaxSize \in Nat
  /\ UNSET \notin Nat

VARIABLES
  alloc, size,
  data,     \* data[j], for j below alloc
  call      \* the operation under way, with its arguments and locals

memory    == <<alloc, size, data>>
arrayVars == <<memory, call>>

Returned == [op |-> "none"]

ArrayInit ==
  /\ alloc = Presize
  /\ size = 0
  /\ data = [j \in 0 .. Presize - 1 |-> UNSET]
  /\ call = Returned

Idle == call = Returned

(* A call of the operation o, at i, of the elements s, that is to leave n. *)
Begin(o, i, s, n) ==
  /\ Idle
  /\ call' = [op |-> o, at |-> i, eles |-> s, want |-> n]
  /\ UNCHANGED memory

Push(e)      == Begin("push", size, <<e>>, size + 1)
Insert(i, s) == Begin("insert", i, s, size + Len(s))
SetSize(n)   == Begin("set_size", 0, <<>>, n)
Remove(i)    == i < size /\ Begin("remove", i, <<>>, size - 1)
Clear        == Begin("clear", 0, <<>>, 0)

(* These three begin with the same loop, until there is enough memory.     *)
Fills == call.op \in {"push", "insert", "set_size"}

(* Mistake: the growth of array_resize_amt, 1.4, rounded down: what is     *)
(* small stays small.                                                      *)
GrowthFactor(n) == (4 * n) \div 10

(* The loop adds the amount times what there is: an array without memory   *)
(* stays without.                                                          *)
Growth(n) == Presize * n

Grow ==
  /\ Fills
  /\ call.want > alloc
  /\ alloc' = alloc + Growth(alloc)
  /\ data' = [j \in 0 .. alloc + Growth(alloc) - 1 |-> IF j < alloc THEN data[j] ELSE UNSET]
  /\ UNCHANGED <<size, call>>

(* Mistake: the elements from i on are overwritten. *)
MovedNot(i, n) == data

(* memmove in gensyn_array_insert_n: everything from i on moves up by n,   *)
(* counted up to the size that was already raised, n elements too many.    *)
Moved(i, n) ==
  [j \in 0 .. alloc - 1 |-> IF j \in i + n .. call.want + n - 1 THEN data[j - n] ELSE data[j]]

(* So it may reach past the memory, ...                                    *)
Overruns == call.op = "insert" /\ call.want + Len(call.eles) > alloc

(* memcpy. *)
Written(mem, i, s) ==
  [j \in 0 .. alloc - 1 |-> IF j \in i .. i + Len(s) - 1 THEN s[j - i + 1] ELSE mem[j]]

(* Mistake: room for one element less is room enough. *)
StoreEarly ==
  /\ Fills
  /\ call.want <= alloc + 1
  /\ size' = call.want
  /\ data' = Written(data, call.at, call.eles)
  /\ call' = Returned
  /\ UNCHANGED alloc

Store ==
  /\ Fills
  /\ call.want <= alloc
  /\ ~Overruns
  /\ size' = call.want
  /\ data' = IF call.op = "insert"
             THEN Written(Moved(call.at, Len(call.eles)), call.at, call.eles)
             ELSE Written(data, call.at, call.eles)
  /\ call' = Returned
  /\ UNCHANGED alloc

(* ... where the address sanitizer of the build ends the program.          *)
Overrun ==
  /\ Fills
  /\ call.want <= alloc
  /\ Overruns
  /\ call' = [call EXCEPT !.op = "overrun"]
  /\ UNCHANGED memory

(* The end of gensyn_array_remove and of gensyn_array_clear.               *)
CloseGap ==
  /\ call.op = "remove"
  /\ data' = [j \in 0 .. alloc - 1 |->
                IF j \in call.at .. size - 2 THEN data[j + 1] ELSE data[j]]
  /\ size' = size - 1
  /\ call' = Returned
  /\ UNCHANGED alloc

Empty ==
  /\ call.op = "clear"
  /\ size' = 0
  /\ call' = Returned
  /\ UNCHANGED <<alloc, data>>

(* The caller goes on with a clone, which has no more memory than it uses. *)
Clone ==
  /\ Idle
  /\ alloc' = size
  /\ data' = [j \in 0 .. size - 1 |-> data[j]]
  /\ UNCHANGED <<size, call>>

-----------------------------------------------------------------------------
(* gensyn_array_lower_bound, of an array that is sorted. *)

Sorted ==
  /\ \A j \in 0 .. size - 1 : data[j] # UNSET
  /\ \A i, j \in 0 .. size - 1 : i <= j => data[i] <= data[j]

LowerBound(e) ==
  /\ Idle
  /\ Sorted
  /\ call' = [op |-> "search", eles |-> <<e>>, lo |-> 0, hi |-> size]
  /\ UNCHANGED memory

(* Mistake: the comparison is turned round. *)
HalveTurned ==
  /\ call.op = "search"
  /\ call.lo < call.hi
  /\ LET mid == call.lo + (call.hi - call.lo) \div 2
     IN  call' = IF data[mid] < call.eles[1] THEN [call EXCEPT !.hi = mid]
                                             ELSE [call EXCEPT !.lo = mid + 1]
  /\ UNCHANGED memory

Halve ==
  /\ call.op = "search"
  /\ call.lo < call.hi
  /\ LET mid == call.lo + (call.hi - call.lo) \div 2
     IN  call' = IF call.eles[1] < data[mid] THEN [call EXCEPT !.hi = mid]
                                             ELSE [call EXCEPT !.lo = mid + 1]
  /\ UNCHANGED memory

Found ==
  /\ call.op = "search"
  /\ call.lo >= call.hi
  /\ call' = Returned
  /\ UNCHANGED memory

-----------------------------------------------------------------------------

Proceed == Grow \/ Store \/ Overrun \/ CloseGap \/ Empty \/ Halve \/ Found

ArrayNext ==
  \/ \E e \in Elem : size < MaxSize /\ Push(e)
  \/ \E i \in 0 .. size, e \in Elem : size < MaxSize /\ Insert(i, <<e>>)
  \/ \E i \in 0 .. size, d, e \in Elem : size + 1 < MaxSize /\ Insert(i, <<d, e>>)
  \/ \E n \in 0 .. size + 1 : n <= MaxSize /\ SetSize(n)
  \/ \E i \in 0 .. size - 1 : Remove(i)
  \/ Clear
  \/ Clone
  \/ \E e \in Elem : LowerBound(e)
  \/ Proceed

ArraySpec == ArrayInit /\ [][ArrayNext]_arrayVars /\ WF_arrayVars(Proceed)

-----------------------------------------------------------------------------
(* Properties. *)

(* What is in use is inside the memory (lines 44-49), and so is the place  *)
(* that a call or a search is at; nothing is said of how far the memmove   *)
(* of an insertion reaches.                                                *)
ArrayTypeOK ==
  /\ alloc \in Nat /\ size \in 0 .. alloc
  /\ data \in [0 .. alloc - 1 -> Elem \cup {UNSET}]
  /\ call.op \in {"none", "push", "insert", "set_size", "remove", "clear", "search", "overrun"}
  /\ call.op \notin {"none", "search"} => call.at \in 0 .. size /\ call.want \in 0 .. MaxSize
  /\ call.op = "search" => {call.lo, call.hi} \subseteq 0 .. size

(* The call of the list that is under way: a search is none, and an        *)
(* insertion that ended the program never returns.                         *)
Asked == IF call.op \in {"none", "search"} THEN [op |-> "none"]
         ELSE IF call.op = "overrun" THEN [call EXCEPT !.op = "insert"]
         ELSE call

(* Every call that returns did to the list what array.h says of just that  *)
(* operation with just these arguments, whatever was grown, moved up or    *)
(* down, or left behind the used part (lines 103-192), and nothing else,   *)
(* a clone least of all, changes it.                                       *)
Contents == INSTANCE List WITH items <- [j \in 1 .. size |-> data[j - 1]], asked <- Asked
ArrayIsList == Contents!Spec

(* gensyn_array_lower_bound (lines 86-101) never loses the place it looks  *)
(* for: what is below lo may stand before the element, what is from hi on  *)
(* must stand behind it.  When the two meet they are the place.            *)
PlaceIsBetween ==
  call.op = "search" =>
    /\ call.lo <= call.hi
    /\ \A j \in 0 .. call.lo - 1 : data[j] <= call.eles[1]
    /\ \A j \in call.hi .. size - 1 : call.eles[1] < data[j]

(* Every call returns: the loops of lines 90, 138 and 187 end, but for an  *)
(* array that has no memory at all, which the clone of an empty one is,    *)
(* and only an insertion ends the program instead (line 106).              *)
OperationsEnd == ~Idle /\ alloc > 0 ~> Idle \/ call.op = "overrun"
=============================================================================
