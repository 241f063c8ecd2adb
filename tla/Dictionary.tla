------------------------------- MODULE Dictionary -----------------------------
(***************************************************************************)
(* What a table promises its callers (src/include/gensyn/table.h): a map   *)
(* from keys to values in which a lookup finds the value last inserted.    *)
(***************************************************************************)
CONSTANTS Key, Value, NULL

VARIABLES
  contents,   \* contents[k]: the value of k, or NULL
  answer      \* what the last lookup returned

Init ==
  /\ contents = [k \in Key |-> NULL]
  /\ answer = NULL

Insert(k, v) == contents' = [contents EXCEPT ![k] = v] /\ UNCHANGED answer
Remove(k)    == contents' = [contents EXCEPT ![k] = NULL] /\ UNCHANGED answer
Clear        == contents' = [k \in Key |-> NULL] /\ UNCHANGED answer
Find(k)      == answer' = contents[k] /\ UNCHANGED contents

Next ==
  \/ \E k \in Key, v \in Value : Insert(k, v)
  \/ \E k \in Key : Remove(k) \/ Find(k)
  \/ Clear

Spec == Init /\ [][Next]_<<contents, answer>>
=============================================================================
