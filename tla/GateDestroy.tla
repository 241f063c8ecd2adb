------------------------------ MODULE GateDestroy ------------------------------
(***************************************************************************)
(* The gate graph with gensyn_destroy_named_gate, which no command reaches *)
(* but the C interface does (src/gensyn.c, src/gate.c): a gate's memory is *)
(* given back, and may become another gate's, while other gates are        *)
(* connected to it.                                                        *)
(***************************************************************************)
EXTENDS GateGraph

VARIABLE
  aborted   \* a freed gate was dereferenced

destroyVars == <<graphVars, aborted>>

(* Both loops of gensyn_gate_destroy over a neighbour's list have n for    *)
(* their index and look, each time round, at entry i: the entry of the     *)
(* other gate at the place the connection has in the destroyed gate.       *)

(* The OUT lists once the gates that feed g are done. *)
OutsWithout(g) ==
  [h \in Gate |-> [i \in Slot |->
     IF /\ i < nins(g) /\ inrefs[g][i] = h
        /\ nouts[h] > 0 /\ outrefs[h][i] = g
     THEN NULL
     ELSE outrefs[h][i]]]

(* The INs once the gates that g feeds are done too. *)
InsWithout(g) ==
  [h \in Gate |-> [i \in Slot |->
     IF /\ i < nouts[g] /\ OutsWithout(g)[g][i] = h
        /\ nouts[h] > 0 /\ inrefs[h][i] = g
     THEN NULL
     ELSE inrefs[h][i]]]

(* The gates whose memory is read on the way. *)
Neighbours(g) ==
  ({inrefs[g][i] : i \in 0 .. nins(g) - 1}
     \cup {OutsWithout(g)[g][i] : i \in 0 .. nouts[g] - 1}) \ {NULL}

(* gensyn_destroy_named_gate. *)
DestroyNamedGate(n) ==
  /\ gates[n] # NULL
  /\ LET g == gates[n] IN
       /\ gates' = [gates EXCEPT ![n] = NULL]
       /\ IF Neighbours(g) \subseteq live
          THEN /\ outrefs' = OutsWithout(g)
               /\ inrefs'  = InsWithout(g)
               /\ live'    = live \ {g}
               /\ aborted' = FALSE
          ELSE /\ aborted' = TRUE
               /\ UNCHANGED <<outrefs, inrefs, live>>
  /\ UNCHANGED <<type, nouts, output, result>>

(* gensyn_gate_connect, unless it returns for the limit of from or for a   *)
(* name that is no IN's, reads the OUT list of the gate in the slot.       *)
OldIsFreed(from, i, b) ==
  /\ from # NULL => nouts[from] < MaxCx
  /\ i < nins(gates[b])
  /\ inrefs[gates[b]][i] \notin live \cup {NULL}

ConnectLeft(a, i, b) ==
  /\ gates[a] # NULL
  /\ gates[b] # NULL
  /\ IF OldIsFreed(gates[a], i, b)
     THEN aborted' = TRUE /\ UNCHANGED graphVars
     ELSE aborted' = FALSE /\ GateConnect(a, i, b)

DisconnectLeft(a, i, b) ==
  /\ gates[a] # NULL
  /\ gates[b] # NULL
  /\ IF OldIsFreed(NULL, i, b)
     THEN aborted' = TRUE /\ UNCHANGED graphVars
     ELSE aborted' = FALSE /\ GateDisconnect(a, i, b)

DestroyNext ==
  /\ ~aborted
  /\ \/ \E n \in Name : DestroyNamedGate(n)
     \/ \E a, b \in Name, i \in 0 .. MaxCx : ConnectLeft(a, i, b) \/ DisconnectLeft(a, i, b)
     \/ \E t \in Type, n \in Name : GateAdd(t, n) /\ aborted' = FALSE

DestroySpec == GraphInit /\ aborted = FALSE /\ [][DestroyNext]_destroyVars

=============================================================================
