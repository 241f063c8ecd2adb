------------------------------ MODULE MCGateGraph ------------------------------
(* GateGraph on three heap cells and two OUT entries per gate: a source     *)
(* without INs, a mixer with two, and the output gate's type.              *)
EXTENDS GateGraph, TLC

CONSTANTS source, mixer, sink, unregistered

MCNins == [t \in {source, mixer, sink} |->
             CASE t = source -> 0 [] t = mixer -> 2 [] t = sink -> 1]

(* Gates are addresses: the allocator's choice among free ones is free. *)
Symmetry == Permutations(Gate)
=============================================================================
