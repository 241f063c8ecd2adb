------------------------------- MODULE MCGateRun -------------------------------
(* GateRun on a context whose gates were all added, and connected in some  *)
(* way, before the first cycle.                                            *)
EXTENDS GateRun, TLC

CONSTANTS
  outputType, inputType, adderType, gliderType, sineType,
  Typings,                           \* the types the gates may have
  gOut, gA, gB, gC,                  \* the gates
  nOut, nA, nB, nC                   \* and their names

MCNins == [t \in Type |-> CASE t = outputType -> 1
                             [] t = inputType  -> 0
                             [] t = adderType  -> 2
                             [] t = gliderType -> 1
                             [] t = sineType   -> 3]

MCKind == [t \in Type |-> CASE t = outputType -> "through"
                             [] t = inputType  -> "source"
                             [] t = adderType  -> "mixer"
                             [] t = gliderType -> "glider"
                             [] t = sineType   -> "wave"]

Typing(a, b, c) == [g \in Gate |-> CASE g = gOut -> outputType
                                     [] g = gA   -> a
                                     [] g = gB   -> b
                                     [] g = gC   -> c]

(* Two adders, with every way of sharing and of feedback between them, or  *)
(* a sine wave with any of its three INs connected or not, and a glider    *)
(* before it, behind it or beside it.                                      *)
SeqTypings == {Typing(adderType, adderType, inputType),
               Typing(sineType, gliderType, inputType)}

(* With three gates only: gC is not used. *)
ConcTypings == {Typing(adderType, adderType, inputType),
                Typing(adderType, inputType, inputType)}

MCNameOf == (nOut :> gOut) @@ (nA :> gA) @@ (nB :> gB) @@ (nC :> gC)

InSlot == {s \in Gate \X Slot : s[2] < nins(s[1])}

(* An OUT list for a that agrees with the INs. *)
OutsFor(a) ==
  CHOOSE o \in [Slot -> Gate \cup {NULL}] :
    /\ \A b \in Gate : Cardinality({k \in Slot : o[k] = b}) = Cardinality(InEdges(a, b))
    /\ \A k \in Slot : o[k] = NULL => \A j \in k .. MaxCx - 1 : o[j] = NULL

UsesOf(a) == {s \in InSlot : inrefs[s[1]][s[2]] = a}

Wired ==
  /\ live = Gate
  /\ type \in Typings
  /\ \E w \in [InSlot -> Gate \cup {NULL}] :
       inrefs = [g \in Gate |-> [i \in Slot |-> IF <<g, i>> \in InSlot THEN w[<<g, i>>] ELSE NULL]]
  /\ \A a \in Gate : Cardinality(UsesOf(a)) <= MaxCx
  /\ nouts = [a \in Gate |-> Cardinality(UsesOf(a))]
  /\ outrefs = [a \in Gate |-> OutsFor(a)]
  /\ gates = [n \in Name |-> MCNameOf[n]]
  /\ output = gates[OutputName]
  /\ result = ""

MCInit == Wired /\ RunVarsInit

MCSeqSpec  == MCInit /\ [][SeqNext]_vars /\ WF_vars(CycleStep)
MCConcSpec == MCInit /\ [][ConcNext]_vars /\ WF_vars(CycleStep)
=============================================================================
