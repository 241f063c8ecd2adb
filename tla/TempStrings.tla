------------------------------ MODULE TempStrings ------------------------------
(***************************************************************************)
(* The temporary strings (GENSYN_STR_CAST, src/string.c): one pool, whose  *)
(* strings are given out in turn.  Almost every call of the program that   *)
(* takes a string is given a temporary: the main thread's for the words of *)
(* a command, the audio thread's for the names of parameters and INs in    *)
(* every cycle, the input thread's when it lists devices.  There is no     *)
(* lock, so the call is taken apart at its loads and stores of tempIter.   *)
(*                                                                         *)
(* The pool is created by the first call, which gensyn_create makes before *)
(* any other thread runs.  Abstracted: the characters of a string, and the *)
(* growth of its memory.                                                   *)
(***************************************************************************)
EXTENDS Naturals, Sequences

CONSTANTS
  Thread,
  Text,      \* what temporaries are made of
  Calls,     \* gensyn_string_temp_max_calls
  Nothing    \* the text of a string that was just created

ASSUME TempAssumption ==
  /\ Calls \in Nat \ {0}
  /\ Nothing \notin Text

VARIABLES
  tempVals, tempIter,
  tpc,      \* where a thread is in its call
  slot,     \* the entry it has taken
  given,    \* the text it gave
  held      \* the entries and texts of its last calls, of as many as there are in the pool

tempVars == <<tempVals, tempIter, tpc, slot, given, held>>

TempInit ==
  /\ tempVals = [i \in 0 .. Calls - 1 |-> Nothing]
  /\ tempIter = 0
  /\ tpc = [t \in Thread |-> "out"]
  /\ slot = [t \in Thread |-> 0]
  /\ given = [t \in Thread |-> Nothing]
  /\ held = [t \in Thread |-> <<>>]

Cast(t, s) ==
  /\ tpc[t] = "out"
  /\ given' = [given EXCEPT ![t] = s]
  /\ tpc' = [tpc EXCEPT ![t] = "wrap"]
  /\ UNCHANGED <<tempVals, tempIter, slot, held>>

(* Mistake: the last string of the pool is never used. *)
WrapEarly(t) ==
  /\ tpc[t] = "wrap"
  /\ tempIter' = IF tempIter >= Calls - 1 THEN 0 ELSE tempIter
  /\ tpc' = [tpc EXCEPT ![t] = "load"]
  /\ UNCHANGED <<tempVals, slot, given, held>>

Wrap(t) ==
  /\ tpc[t] = "wrap"
  /\ tempIter' = IF tempIter >= Calls THEN 0 ELSE tempIter
  /\ tpc' = [tpc EXCEPT ![t] = "load"]
  /\ UNCHANGED <<tempVals, slot, given, held>>

(* tempIter++ loads, and stores. *)
LoadIter(t) ==
  /\ tpc[t] = "load"
  /\ slot' = [slot EXCEPT ![t] = tempIter]
  /\ tpc' = [tpc EXCEPT ![t] = "store"]
  /\ UNCHANGED <<tempVals, tempIter, given, held>>

StoreIter(t) ==
  /\ tpc[t] = "store"
  /\ tempIter' = slot[t] + 1
  /\ tpc' = [tpc EXCEPT ![t] = "fill"]
  /\ UNCHANGED <<tempVals, slot, given, held>>

(* An entry past the pool is whatever lies there. *)
SetText(t) ==
  /\ tpc[t] = "fill"
  /\ IF slot[t] < Calls
     THEN /\ tempVals' = [tempVals EXCEPT ![slot[t]] = given[t]]
          /\ tpc' = [tpc EXCEPT ![t] = "use"]
     ELSE /\ tpc' = [tpc EXCEPT ![t] = "fault"]
          /\ UNCHANGED tempVals
  /\ UNCHANGED <<tempIter, slot, given, held>>

(* The caller's quick operation is over, but it may still hold the string. *)
Use(t) ==
  /\ tpc[t] = "use"
  /\ LET all == Append(held[t], [at |-> slot[t], text |-> given[t]])
     IN  held' = [held EXCEPT ![t] = IF Len(all) > Calls THEN Tail(all) ELSE all]
  /\ tpc' = [tpc EXCEPT ![t] = "out"]
  /\ UNCHANGED <<tempVals, tempIter, slot, given>>

TempStep(t) ==
  \/ \E s \in Text : Cast(t, s)
  \/ Wrap(t) \/ LoadIter(t) \/ StoreIter(t) \/ SetText(t) \/ Use(t)

TempNext == \E t \in Thread : TempStep(t)

TempSpec == TempInit /\ [][TempNext]_tempVars

-----------------------------------------------------------------------------
(* Properties. *)

TempTypeOK ==
  /\ tempVals \in [0 .. Calls - 1 -> Text \cup {Nothing}]
  /\ tempIter \in 0 .. Calls
  /\ tpc \in [Thread -> {"out", "wrap", "load", "store", "fill", "use", "fault"}]
  /\ slot \in [Thread -> 0 .. Calls]
  /\ given \in [Thread -> Text \cup {Nothing}]

(* string.h:72: a temporary fizzles after subsequent calls.  On one thread *)
(* these are as many as there are in the pool (line 331): the words of a   *)
(* command, all of them temporaries, are all still there while it runs.    *)
HeldKeepText ==
  \A t \in Thread :
    /\ tpc[t] # "fault"
    /\ tpc[t] = "out" =>
         \A k \in DOMAIN held[t] : tempVals[held[t][k].at] = held[t][k].text

(* string.h:68: a temporary is built from the given string, and is that    *)
(* when the operation uses it, whichever thread asks for one.              *)
GivenIsUsed == \A t \in Thread : tpc[t] = "use" => tempVals[slot[t]] = given[t]
=============================================================================
