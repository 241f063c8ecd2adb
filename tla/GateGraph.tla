------------------------------- MODULE GateGraph -------------------------------
(***************************************************************************)
(* The gate graph of one gensyn_t context: the gates on the heap, the      *)
(* references a connection stores at both of its ends (src/gate.c), the    *)
(* table that names the gates, and the commands of the command processor   *)
(* that change them (src/gensyn.c).                                        *)
(*                                                                         *)
(* A connection is stored twice: the IN slot of the consumer holds the     *)
(* producer (inrefs), and the producer's list of OUTs holds the consumer   *)
(* (outrefs, whose first nouts entries are in use).  Running the graph     *)
(* follows inrefs only; fan-out limits, gate types and the removal of an   *)
(* old connection rest on outrefs.  What must be right is that the two     *)
(* always describe the same connections.                                   *)
(*                                                                         *)
(* Abstracted: an IN slot's registered name is its index in innamesArr (an *)
(* index of nins or above is a name the gate does not have); parameters,   *)
(* position and texture of a gate; a command with too few arguments, which *)
(* is answered like one that names no gate.                                *)
(***************************************************************************)
EXTENDS Naturals, FiniteSets

CONSTANTS
  Gate,         \* the addresses a gate can be allocated at: bounds the heap
  Name,         \* the names scripts give to gates
  Type,         \* the gate types scripts ask for
  Nins,         \* the registered types (its domain), and the INs of each
  OutputType,   \* "GenSyn_Output"
  OutputName,   \* "output"
  MaxCx,        \* MAX_CX: the most INs and the most OUTs a gate can have
  NULL

ASSUME GraphAssumption ==
  /\ MaxCx \in Nat \ {0}
  /\ IsFiniteSet(Gate)
  /\ DOMAIN Nins \subseteq Type
  /\ Nins \in [DOMAIN Nins -> 0 .. MaxCx]
  /\ OutputType \in DOMAIN Nins
  /\ OutputName \in Name
  /\ NULL \notin Gate
  /\ NULL \notin Type

VARIABLES
  live,      \* the gates that are allocated
  type,      \* type[g]: the registered type g was cloned from
  inrefs,    \* inrefs[g][i]: the gate feeding IN slot i of g
  outrefs,   \* outrefs[g]: the gates g feeds, the first nouts[g] in use
  nouts,
  gates,     \* the context's table: gates[n] is the gate named n
  output,    \* the context's output gate
  result     \* what the last command answered: "" or "error"

refs      == <<inrefs, outrefs, nouts>>
graphVars == <<live, type, inrefs, outrefs, nouts, gates, output, result>>

Slot == 0 .. MaxCx - 1
NoRefs == [i \in Slot |-> NULL]
nins(g) == Nins[type[g]]

-----------------------------------------------------------------------------
(* gensyn_create: the context starts with the output gate, by its name. *)

GraphInit ==
  \E g \in Gate :
    /\ live    = {g}
    /\ type    = [h \in Gate |-> IF h = g THEN OutputType ELSE NULL]
    /\ inrefs  = [h \in Gate |-> NoRefs]
    /\ outrefs = [h \in Gate |-> NoRefs]
    /\ nouts   = [h \in Gate |-> 0]
    /\ gates   = [n \in Name |-> IF n = OutputName THEN g ELSE NULL]
    /\ output  = g
    /\ result  = ""

-----------------------------------------------------------------------------
(* A mistake that OneName rejects: a name that is taken is given again. *)
GateAddAgain(t, n) ==
  /\ t \in DOMAIN Nins
  /\ \E g \in Gate \ live :
       /\ live'    = live \cup {g}
       /\ type'    = [type EXCEPT ![g] = t]
       /\ gates'   = [gates EXCEPT ![n] = g]
  /\ result' = ""
  /\ UNCHANGED <<refs, output>>

(* gensyn_create_named_gate, through the command gate-add.  A clone of a   *)
(* prefab has no connection and the prefab's IN names.                     *)

GateAdd(t, n) ==
  /\ gates[n] = NULL
  /\ t \in DOMAIN Nins
  /\ \E g \in Gate \ live :
       /\ live'    = live \cup {g}
       /\ type'    = [type EXCEPT ![g] = t]
       /\ inrefs'  = [inrefs EXCEPT ![g] = NoRefs]
       /\ outrefs' = [outrefs EXCEPT ![g] = NoRefs]
       /\ nouts'   = [nouts EXCEPT ![g] = 0]
       /\ gates'   = [gates EXCEPT ![n] = g]
  /\ result' = ""
  /\ UNCHANGED output

(* The name is taken, or no such type is registered. *)
GateAddRefused(t, n) ==
  /\ gates[n] # NULL \/ t \notin DOMAIN Nins
  /\ result' = "error"
  /\ UNCHANGED <<live, type, refs, gates, output>>

-----------------------------------------------------------------------------
(* gensyn_gate_connect. *)

(* The first of the n used entries of outs that is g. *)
FirstOut(outs, n, g) ==
  CHOOSE k \in 0 .. n - 1 : outs[k] = g /\ \A j \in 0 .. k - 1 : outs[j] # g

(* A mistake that NoDangling rejects: the gap is not filled. *)
WithoutOutGap(outs, n, k) == [outs EXCEPT ![k] = NULL]

(* outs once entry k of its n used ones is removed: the entries above it   *)
(* move down by one.  The last one keeps its old content, unless it is the *)
(* removed one.                                                            *)
WithoutOut(outs, n, k) ==
  [j \in Slot |-> CASE j \in k .. n - 2 -> outs[j + 1]
                    [] j = k /\ k = n - 1 -> NULL
                    [] OTHER -> outs[j]]

(* A mistake that GraphTypeOK rejects: one connection too many. *)
RefusesLate(from, i, to) ==
  \/ from # NULL /\ nouts[from] > MaxCx
  \/ i >= nins(to)

(* The two early exits that leave the graph alone: the producer feeds      *)
(* MaxCx slots already, whichever slot it is asked for, or the consumer    *)
(* has no such IN.                                                         *)
Refuses(from, i, to) ==
  \/ from # NULL /\ nouts[from] >= MaxCx
  \/ i >= nins(to)

(* The gate feeding slot i of `to` lists `to` as an OUT. *)
Listed(to, i) ==
  /\ inrefs[to][i] # NULL
  /\ \E k \in 0 .. nouts[inrefs[to][i]] - 1 : outrefs[inrefs[to][i]][k] = to

(* outrefs and nouts after the old connection of slot i of `to` is removed *)
(* from the gate that fed it.                                              *)
OutsLeft(to, i) ==
  LET old == inrefs[to][i] IN
  IF Listed(to, i)
  THEN [outrefs EXCEPT ![old] =
          WithoutOut(@, nouts[old], FirstOut(@, nouts[old], to))]
  ELSE outrefs

(* A mistake that Mirror rejects: the count is not taken down. *)
NoutsKept(to, i) == nouts

NoutsLeft(to, i) ==
  IF Listed(to, i) THEN [nouts EXCEPT ![inrefs[to][i]] = @ - 1] ELSE nouts

(* A mistake that Bystanders rejects: the loop over the INs goes on after  *)
(* the one it looked for.                                                  *)
RelinkOn(from, i, to) ==
  /\ inrefs' = [inrefs EXCEPT ![to] =
                 [j \in Slot |-> IF j \in i .. nins(to) - 1 THEN from ELSE @[j]]]
  /\ outrefs' = outrefs
  /\ nouts'   = nouts

(* The store to the slot comes last; it is the only one of the three that  *)
(* a running cycle can see.                                                *)
Relink(from, i, to) ==
  /\ inrefs' = [inrefs EXCEPT ![to] = [@ EXCEPT ![i] = from]]
  /\ IF from = NULL
     THEN /\ outrefs' = OutsLeft(to, i)
          /\ nouts'   = NoutsLeft(to, i)
     ELSE /\ outrefs' = [OutsLeft(to, i) EXCEPT
                           ![from] = [@ EXCEPT ![NoutsLeft(to, i)[from]] = to]]
          /\ nouts'   = [NoutsLeft(to, i) EXCEPT ![from] = @ + 1]

(* The commands gate-connect and gate-disconnect answer "" whatever        *)
(* gensyn_gate_connect did with the request.                               *)
Connects(from, i, to) ==
  /\ ~Refuses(from, i, to)
  /\ Relink(from, i, to)
  /\ result' = ""
  /\ UNCHANGED <<live, type, gates, output>>

Ignored(from, i, to) ==
  /\ Refuses(from, i, to)
  /\ result' = ""
  /\ UNCHANGED <<live, type, refs, gates, output>>

GateConnect(a, i, b) ==
  /\ gates[a] # NULL
  /\ gates[b] # NULL
  /\ Connects(gates[a], i, gates[b]) \/ Ignored(gates[a], i, gates[b])

(* gensyn_gate_disconnect connects the slot to nothing: of the gate named  *)
(* a only the name is looked up.                                           *)
GateDisconnect(a, i, b) ==
  /\ gates[a] # NULL
  /\ gates[b] # NULL
  /\ Connects(NULL, i, gates[b]) \/ Ignored(NULL, i, gates[b])

(* gate-connect and gate-disconnect with a name no gate has. *)
NoSuchGate(a, b) ==
  /\ gates[a] = NULL \/ gates[b] = NULL
  /\ result' = "error"
  /\ UNCHANGED <<live, type, refs, gates, output>>

-----------------------------------------------------------------------------

(* Slot MaxCx stands for a name no gate has an IN by. *)
GraphNext ==
  \/ \E t \in Type, n \in Name : GateAdd(t, n) \/ GateAddRefused(t, n)
  \/ \E a, b \in Name, i \in 0 .. MaxCx : GateConnect(a, i, b)
  \/ \E a, b \in Name, i \in 0 .. MaxCx : GateDisconnect(a, i, b)
  \/ \E a, b \in Name : NoSuchGate(a, b)

GraphSpec == GraphInit /\ [][GraphNext]_graphVars

-----------------------------------------------------------------------------
(* Properties. *)

GraphTypeOK ==
  /\ live \subseteq Gate
  /\ type \in [Gate -> DOMAIN Nins \cup {NULL}]
  /\ \A g \in live : type[g] \in DOMAIN Nins
  /\ inrefs  \in [Gate -> [Slot -> Gate \cup {NULL}]]
  /\ outrefs \in [Gate -> [Slot -> Gate \cup {NULL}]]
  /\ nouts   \in [Gate -> 0 .. MaxCx]
  /\ gates   \in [Name -> Gate \cup {NULL}]
  /\ output  \in Gate
  /\ result  \in {"", "error"}

(* How often a lists b among its OUTs, and how many INs of b hold a. *)
OutEdges(a, b) == {k \in 0 .. nouts[a] - 1 : outrefs[a][k] = b}
InEdges(a, b)  == {i \in Slot : inrefs[b][i] = a}

(* The two ends of the connections agree, with multiplicity: a gate lists  *)
(* another among its OUTs exactly as often as the other holds it in an IN  *)
(* (gensyn_gate_connect updates the two ends separately, and takes one of  *)
(* several equal entries out of the list when a slot is taken over).       *)
Mirror ==
  \A a, b \in live : Cardinality(OutEdges(a, b)) = Cardinality(InEdges(a, b))

(* No reference a gate uses is empty or leads to memory that is not a      *)
(* gate: every used OUT entry (the gap is filled when one is removed) and  *)
(* every connected IN.                                                     *)
NoDangling ==
  \A g \in live :
    /\ \A k \in 0 .. nouts[g] - 1 : outrefs[g][k] \in live
    /\ \A i \in Slot : inrefs[g][i] \in live \cup {NULL}

(* Every gate on the heap is reachable by exactly one name, so no command  *)
(* loses a gate or gives one two names, and the output gate keeps its own. *)
OneName ==
  /\ \A g \in live : \E n \in Name : gates[n] = g
  /\ \A m, n \in Name : gates[m] = gates[n] /\ gates[m] # NULL => m = n
  /\ \A n \in Name : gates[n] \in live \cup {NULL}
  /\ gates[OutputName] = output

(* A slot changes hands without the others noticing: a step changes at     *)
(* most one IN of one gate, and a gate that neither lost nor won that slot *)
(* keeps its OUT list, order included.                                     *)
Bystanders ==
  [][\A g, h \in live, i, j \in Slot :
        /\ inrefs[g][i] # inrefs'[g][i]
        /\ inrefs[h][j] # inrefs'[h][j]
        => g = h /\ i = j /\
           \A p \in live \ {inrefs[g][i], inrefs'[g][i]} :
              outrefs'[p] = outrefs[p] /\ nouts'[p] = nouts[p]]_graphVars
=============================================================================
