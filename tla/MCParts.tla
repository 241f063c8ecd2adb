-------------------------------- MODULE MCParts --------------------------------
(* The parts that the rest of the program is built from, and that do not   *)
(* share any state: a behaviour is one of one of them.                     *)
EXTENDS Array, StringChain, TempStrings, GateParams

VARIABLE part

vars == <<part, arrayVars, chainVars, tempVars, paramVars>>

Init ==
  /\ part \in {"array", "chain", "temporaries", "parameters"}
  /\ ArrayInit /\ ChainInit /\ TempInit /\ ParamInit
  /\ part # "chain" => text = <<>>

ArrayPart ==
  part = "array" /\ ArrayNext /\ UNCHANGED <<chainVars, tempVars, paramVars>>

ChainPart ==
  part = "chain" /\ ChainNext /\ UNCHANGED <<arrayVars, tempVars, paramVars>>

TempPart ==
  part = "temporaries" /\ TempNext /\ UNCHANGED <<arrayVars, chainVars, paramVars>>

ParamPart ==
  part = "parameters" /\ ParamNext /\ UNCHANGED <<arrayVars, chainVars, tempVars>>

Next == (ArrayPart \/ ChainPart \/ TempPart \/ ParamPart) /\ UNCHANGED part

(* A call of an array operation runs to its end. *)
Spec == Init /\ [][Next]_vars /\ WF_arrayVars(ArrayPart /\ Proceed)

PartsTypeOK == ArrayTypeOK /\ ChainTypeOK /\ TempTypeOK /\ ParamTypeOK
=============================================================================
