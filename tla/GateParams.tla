------------------------------- MODULE GateParams ------------------------------
(***************************************************************************)
(* The parameters of gates: the registration of a gate type with its INs   *)
(* and parameters (gensyn_gate_register of src/gate.c, a loop over its     *)
(* variable arguments, one a step), the gates that are made of it, and the *)
(* commands and the script objects (src/gensyn.c) that read and write      *)
(* parameters by name.                                                     *)
(*                                                                         *)
(* All of it runs on the main thread, inside the script engine, so a       *)
(* command is one step.  Nothing destroys a gate: object.remove asks for   *)
(* gate-remove, which is not among the commands of gensyn_create, and      *)
(* drops the answer.                                                       *)
(*                                                                         *)
(* Abstracted: connections (GateGraph), the conversion of values to text   *)
(* and back, for the values that survive it.                               *)
(***************************************************************************)
EXTENDS Naturals, Sequences

CONSTANTS
  GateType,
  GateName,
  Word,       \* the names of INs and parameters
  Value,
  MaxIns,     \* MAX_CX
  MaxParam    \* MAX_PARAM

ASSUME ParamAssumption ==
  /\ MaxIns \in Nat /\ MaxParam \in Nat
  /\ 0 \in Value

VARIABLES
  prefabs,      \* the registered types
  registering,  \* whether a registration is under way
  reg,          \* the prefab it is filling
  gates,        \* the gates, by name
  objects,      \* the names that gate objects of scripts refer to
  faulted,      \* who called a command that dereferenced NULL
  lastSet       \* the last values set by a command, of a gate's parameter

paramVars == <<prefabs, registering, reg, gates, objects, faulted, lastSet>>

Fresh(t) == [type |-> t, ins |-> <<>>, params |-> <<>>, defaults |-> <<>>, nouts |-> 0]

EmptyFunction == [x \in {} |-> 0]

ParamInit ==
  /\ prefabs = EmptyFunction
  /\ registering = FALSE
  /\ reg \in {Fresh(t) : t \in GateType}
  /\ gates = EmptyFunction
  /\ objects = {}
  /\ faulted = "no"
  /\ lastSet = EmptyFunction

Running == faulted = "no"

With(fn, x, v) == [y \in DOMAIN fn \cup {x} |-> IF y = x THEN v ELSE fn[y]]

-----------------------------------------------------------------------------
(* gensyn_gate_register. *)

Register(t) ==
  /\ Running /\ ~registering
  /\ t \notin DOMAIN prefabs
  /\ registering' = TRUE
  /\ reg' = Fresh(t)
  /\ UNCHANGED <<prefabs, gates, objects, faulted, lastSet>>

(* One of the first n names is this one already. *)
Repeats(names, n, w) == \E k \in 1 .. n : names[k] = w

(* Mistake: as many names are compared as there are OUTs. *)
InRefusedOuts(w) == Len(reg.ins) >= MaxIns \/ Repeats(reg.ins, reg.nouts, w)

InRefused(w) == Len(reg.ins) >= MaxIns \/ Repeats(reg.ins, Len(reg.ins), w)

(* Of the parameters' names as many are compared as the prefab has OUTs:   *)
(* it never has any.                                                       *)
ParamRefused(w) == Len(reg.params) >= MaxParam \/ Repeats(reg.params, reg.nouts, w)

PropertyConnection(w) ==
  /\ registering
  /\ IF InRefused(w)
     THEN registering' = FALSE /\ UNCHANGED reg
     ELSE reg' = [reg EXCEPT !.ins = Append(@, w)] /\ UNCHANGED registering
  /\ UNCHANGED <<prefabs, gates, objects, faulted, lastSet>>

PropertyParam(w, default) ==
  /\ registering
  /\ IF ParamRefused(w)
     THEN registering' = FALSE /\ UNCHANGED reg
     ELSE /\ reg' = [reg EXCEPT !.params = Append(@, w), !.defaults = Append(@, default)]
          /\ UNCHANGED registering
  /\ UNCHANGED <<prefabs, gates, objects, faulted, lastSet>>

PropertyEnd ==
  /\ registering
  /\ prefabs' = With(prefabs, reg.type, reg)
  /\ registering' = FALSE
  /\ UNCHANGED <<reg, gates, objects, faulted, lastSet>>

-----------------------------------------------------------------------------
(* The commands. *)

(* gensyn_gate_create: the clone has its own parameters, not its own names. *)
CreateNamedGate(t, n) ==
  /\ n \notin DOMAIN gates
  /\ t \in DOMAIN prefabs
  /\ gates' = With(gates, n, [type |-> t, values |-> prefabs[t].defaults])
  /\ lastSet' = With(lastSet, n, EmptyFunction)

(* Mistake: only the last parameter of the name is set. *)
AssignedLast(g, w, v) ==
  LET params == prefabs[g.type].params
      named  == {k \in DOMAIN params : params[k] = w}
  IN  [k \in DOMAIN g.values |->
         IF k \in named /\ \A j \in named : j <= k THEN v ELSE g.values[k]]

(* gensyn_gate_set_parameter sets every parameter of the name. *)
Assigned(g, w, v) ==
  [k \in DOMAIN g.values |-> IF prefabs[g.type].params[k] = w THEN v ELSE g.values[k]]

(* gensyn_gate_get_parameter reads the first. *)
Parameter(g, w) ==
  LET named == {k \in DOMAIN g.values : prefabs[g.type].params[k] = w}
  IN  IF named = {} THEN 0 ELSE g.values[CHOOSE k \in named : \A j \in named : k <= j]

GateAddCommand(t, n) ==
  /\ Running /\ ~registering
  /\ CreateNamedGate(t, n)
  /\ UNCHANGED <<prefabs, registering, reg, objects, faulted>>

(* gate-set-param does not ask whether there is a gate of the name. *)
SetParamOf(who, n, w, v) ==
  /\ Running /\ ~registering
  /\ IF n \in DOMAIN gates
     THEN /\ gates' = [gates EXCEPT ![n].values = Assigned(gates[n], w, v)]
          /\ lastSet' = [lastSet EXCEPT ![n] = With(@, w, v)]
          /\ UNCHANGED faulted
     ELSE /\ faulted' = who
          /\ UNCHANGED <<gates, lastSet>>
  /\ UNCHANGED <<prefabs, registering, reg, objects>>

(* Nor does gate-get-param. *)
GetParamOf(who, n) ==
  /\ Running /\ ~registering
  /\ faulted' = IF n \in DOMAIN gates THEN faulted ELSE who
  /\ UNCHANGED <<prefabs, registering, reg, gates, objects, lastSet>>

-----------------------------------------------------------------------------
(* The gate library of the scripts. *)

(* gate.add throws what gate-add answers, and else gets the new gate. *)
ScriptAdd(t, n) ==
  /\ Running /\ ~registering
  /\ CreateNamedGate(t, n)
  /\ objects' = objects \cup {n}
  /\ UNCHANGED <<prefabs, registering, reg, faulted>>

(* Mistake: the answer of gate-check is not looked at. *)
ScriptGetAny(n) ==
  /\ Running /\ ~registering
  /\ objects' = objects \cup {n}
  /\ UNCHANGED <<prefabs, registering, reg, gates, faulted, lastSet>>

(* gate.get throws unless gate-check answers that there is one. *)
ScriptGet(n) ==
  /\ Running /\ ~registering
  /\ n \in DOMAIN gates
  /\ objects' = objects \cup {n}
  /\ UNCHANGED <<prefabs, registering, reg, gates, faulted, lastSet>>

(* object.setParam and object.getParam; a script may also call the native  *)
(* function itself.                                                        *)
ParamCalls ==
  \/ \E n \in objects :
       GetParamOf("object", n) \/ \E w \in Word, v \in Value : SetParamOf("object", n, w, v)
  \/ \E n \in GateName :
       GetParamOf("native", n) \/ \E w \in Word, v \in Value : SetParamOf("native", n, w, v)

ParamNext ==
  \/ \E t \in GateType : Register(t)
  \/ \E w \in Word : PropertyConnection(w) \/ \E v \in Value : PropertyParam(w, v)
  \/ PropertyEnd
  \/ \E t \in GateType, n \in GateName : GateAddCommand(t, n) \/ ScriptAdd(t, n)
  \/ \E n \in GateName : ScriptGet(n)
  \/ ParamCalls

ParamSpec == ParamInit /\ [][ParamNext]_paramVars

-----------------------------------------------------------------------------
(* Properties. *)

ParamTypeOK ==
  /\ DOMAIN prefabs \subseteq GateType
  /\ registering \in BOOLEAN /\ reg.type \in GateType
  /\ DOMAIN gates \subseteq GateName
  /\ \A n \in DOMAIN gates : gates[n].type \in DOMAIN prefabs
  /\ objects \subseteq GateName
  /\ faulted \in {"no", "native", "object"}
  /\ DOMAIN lastSet = DOMAIN gates

(* gate.c:103-143: a type has no more INs and parameters than a gate has   *)
(* room for, its INs can be told apart, and each of its gates keeps one    *)
(* value for each parameter: connecting and setting go by name only.       *)
RegistrationSound ==
  /\ \A t \in DOMAIN prefabs :
       LET p == prefabs[t] IN
       /\ Len(p.ins) <= MaxIns /\ Len(p.params) <= MaxParam
       /\ \A j, k \in DOMAIN p.ins : p.ins[j] = p.ins[k] => j = k
  /\ \A n \in DOMAIN gates :
       Len(gates[n].values) = Len(prefabs[gates[n].type].params)

(* gate.h: a parameter is what it was last set to, on this gate and not on *)
(* another of its type that shares the names (line 456), and until then    *)
(* its default; even if it was registered twice, which line 134 lets pass. *)
ReadsBack ==
  \A n \in DOMAIN gates : \A w \in Word :
    LET p        == prefabs[gates[n].type]
        declared == {k \in DOMAIN p.params : p.params[k] = w}
        first    == CHOOSE k \in declared : \A j \in declared : k <= j
    IN  Parameter(gates[n], w) =
          CASE declared = {} -> 0
            [] declared # {} /\ w \in DOMAIN lastSet[n] -> lastSet[n][w]
            [] OTHER -> p.defaults[first]

(* gensyn.c:70-71: an object of the script library refers to a real gate,  *)
(* so none of its calls dereferences NULL, as a native call can (lines     *)
(* 825 and 850 do not test what they looked up).                           *)
ObjectsAreGates ==
  /\ objects \subseteq DOMAIN gates
  /\ faulted # "object"
=============================================================================
