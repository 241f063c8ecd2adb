---------------------------------- MODULE List ---------------------------------
(***************************************************************************)
(* What src/include/gensyn/array.h promises: a list of elements.  It is    *)
(* asked for an operation and then carries out that one; an insertion need *)
(* never return.                                                           *)
(***************************************************************************)
EXTENDS Naturals, Sequences

CONSTANTS Elem, UNSET

VARIABLES
  items,
  asked   \* the operation, its place, its elements, and how many it leaves

NoCall == [op |-> "none"]

Init == items = <<>> /\ asked = NoCall

-----------------------------------------------------------------------------
(* What it may be asked for. *)

Ask(o, i, s, n) ==
  /\ asked = NoCall
  /\ asked' = [op |-> o, at |-> i, eles |-> s, want |-> n]
  /\ UNCHANGED items

AskPush(e)      == Ask("push", Len(items), <<e>>, Len(items) + 1)
AskInsert(i, s) == Ask("insert", i, s, Len(items) + Len(s))
AskRemove(i)    == Ask("remove", i, <<>>, Len(items) - 1)
AskClear        == Ask("clear", 0, <<>>, 0)
AskSetSize(n)   == Ask("set_size", 0, <<>>, n)

AskAny ==
  \/ \E e \in Elem : AskPush(e)
  \/ \E i \in 0 .. Len(items), e \in Elem : AskInsert(i, <<e>>)
  \/ \E i \in 0 .. Len(items), d, e \in Elem : AskInsert(i, <<d, e>>)
  \/ \E i \in 0 .. Len(items) - 1 : AskRemove(i)
  \/ AskClear
  \/ \E n \in 0 .. Len(items) + 1 : AskSetSize(n)

-----------------------------------------------------------------------------
(* What it then does. *)

Push == asked.op = "push" /\ items' = Append(items, asked.eles[1])

Insert ==
  /\ asked.op = "insert"
  /\ items' = SubSeq(items, 1, asked.at) \o asked.eles \o SubSeq(items, asked.at + 1, Len(items))

Remove ==
  /\ asked.op = "remove"
  /\ items' = SubSeq(items, 1, asked.at) \o SubSeq(items, asked.at + 2, Len(items))

Clear == asked.op = "clear" /\ items' = <<>>

(* A list that is made longer is filled with whatever there is. *)
SetSize ==
  /\ asked.op = "set_size"
  /\ items' \in {s \in [1 .. asked.want -> Elem \cup {UNSET}] :
                    \A k \in DOMAIN s \cap DOMAIN items : s[k] = items[k]}

Return == (Push \/ Insert \/ Remove \/ Clear \/ SetSize) /\ asked' = NoCall

-----------------------------------------------------------------------------

Next == AskAny \/ Return

Spec == Init /\ [][Next]_<<items, asked>>
=============================================================================
