---------------------------- MODULE GateParamsProofs ---------------------------
(***************************************************************************)
(* Proofs about GateParams, for any limits, names and values: what is      *)
(* registered fits a gate and its INs can be told apart, every parameter   *)
(* is what it was last set to, and a script object refers to a gate.       *)
(***************************************************************************)
EXTENDS GateParams, WellFoundedInduction, TLAPS

-----------------------------------------------------------------------------
(* The inductive invariant. *)

Prefab == [type : GateType, ins : Seq(Word), params : Seq(Word),
           defaults : Seq(Value), nouts : {0}]

(* A prefab, finished or not: a type, but one that is not yet there while  *)
(* it is registered.                                                       *)
Valid(p) ==
  /\ p \in Prefab
  /\ Len(p.ins) <= MaxIns /\ Len(p.params) <= MaxParam
  /\ Len(p.defaults) = Len(p.params)
  /\ \A j, k \in 1 .. Len(p.ins) : p.ins[j] = p.ins[k] => j = k

PrefabsValid ==
  /\ prefabs \in [DOMAIN prefabs -> Prefab]
  /\ \A t \in DOMAIN prefabs : Valid(prefabs[t])
  /\ Valid(reg)
  /\ registering => reg.type \notin DOMAIN prefabs

(* Each value is the last one given to its name, on this gate. *)
ValuesLast ==
  \A n \in DOMAIN gates :
    LET p == prefabs[gates[n].type] IN
    /\ gates[n] \in [type : GateType, values : Seq(Value)]
    /\ Len(gates[n].values) = Len(p.params)
    /\ \A k \in 1 .. Len(p.params) :
         gates[n].values[k] = IF p.params[k] \in DOMAIN lastSet[n]
                              THEN lastSet[n][p.params[k]] ELSE p.defaults[k]

ParamInv == ParamTypeOK /\ PrefabsValid /\ ValuesLast /\ ObjectsAreGates

-----------------------------------------------------------------------------
(* Lemmas about registration and values. *)

LEMMA LimitsNat == MaxIns \in Nat /\ MaxParam \in Nat
BY ParamAssumption

LEMMA FreshValid ==
  ASSUME NEW t \in GateType
  PROVE  Valid(Fresh(t))
<1>1. <<>> \in Seq(Word) /\ <<>> \in Seq(Value) /\ Len(<<>>) = 0
  OBVIOUS
<1> QED
  BY <1>1, LimitsNat DEF Valid, Fresh, Prefab

(* A name that passes InRefused keeps the INs apart and within MAX_CX. *)
LEMMA InKeepsValid ==
  ASSUME NEW p, Valid(p), NEW w \in Word,
         Len(p.ins) < MaxIns, ~Repeats(p.ins, Len(p.ins), w)
  PROVE  Valid([p EXCEPT !.ins = Append(@, w)])
<1> DEFINE r == [p EXCEPT !.ins = Append(@, w)]
<1>1. p \in Prefab /\ p.ins \in Seq(Word) /\ Len(p.ins) \in Nat
  BY DEF Valid, Prefab
<1>2. /\ r.ins = Append(p.ins, w) /\ r.params = p.params
      /\ r.defaults = p.defaults /\ r \in Prefab
  <2>1. Append(p.ins, w) \in Seq(Word)
    BY <1>1
  <2>2. r \in Prefab
    BY <1>1, <2>1 DEF Prefab
  <2>3. r.ins = Append(p.ins, w) /\ r.params = p.params /\ r.defaults = p.defaults
    BY <1>1 DEF Prefab
  <2> QED
    BY <2>2, <2>3
<1>3. /\ Len(r.ins) = Len(p.ins) + 1
      /\ r.ins[Len(p.ins) + 1] = w
      /\ \A k \in 1 .. Len(p.ins) : r.ins[k] = p.ins[k] /\ p.ins[k] # w
  BY <1>1, <1>2 DEF Repeats
<1> HIDE DEF r
<1>4. \A j, k \in 1 .. Len(r.ins) : r.ins[j] = r.ins[k] => j = k
  <2> SUFFICES ASSUME NEW j \in 1 .. Len(r.ins), NEW k \in 1 .. Len(r.ins), r.ins[j] = r.ins[k]
               PROVE  j = k
    OBVIOUS
  <2>1. \A i, m \in 1 .. Len(p.ins) : p.ins[i] = p.ins[m] => i = m
    BY DEF Valid
  <2>2. /\ j \in 1 .. Len(p.ins) \/ j = Len(p.ins) + 1
        /\ k \in 1 .. Len(p.ins) \/ k = Len(p.ins) + 1
    BY <1>1, <1>3
  <2> QED
    BY <1>3, <2>1, <2>2
<1>5. /\ Len(p.params) <= MaxParam /\ Len(p.defaults) = Len(p.params)
      /\ Len(r.ins) <= MaxIns
  BY <1>1, <1>3, LimitsNat DEF Valid
<1>6. Valid(r)
  BY <1>2, <1>4, <1>5 DEF Valid
<1> QED
  BY <1>6 DEF r

LEMMA ParamKeepsValid ==
  ASSUME NEW p, Valid(p), NEW w \in Word, NEW v \in Value,
         Len(p.params) < MaxParam
  PROVE  Valid([p EXCEPT !.params = Append(@, w), !.defaults = Append(@, v)])
<1> DEFINE r == [p EXCEPT !.params = Append(@, w), !.defaults = Append(@, v)]
<1>1. /\ p \in Prefab /\ p.params \in Seq(Word) /\ p.defaults \in Seq(Value)
      /\ Len(p.params) \in Nat /\ Len(p.defaults) = Len(p.params)
  BY DEF Valid, Prefab
<1>2. /\ r.ins = p.ins /\ r.params = Append(p.params, w)
      /\ r.defaults = Append(p.defaults, v) /\ r \in Prefab
  <2>1. Append(p.params, w) \in Seq(Word) /\ Append(p.defaults, v) \in Seq(Value)
    BY <1>1
  <2>2. r \in Prefab
    BY <1>1, <2>1 DEF Prefab
  <2>3. /\ r.ins = p.ins /\ r.params = Append(p.params, w)
        /\ r.defaults = Append(p.defaults, v)
    BY <1>1 DEF Prefab
  <2> QED
    BY <2>2, <2>3
<1>3. Len(r.params) = Len(p.params) + 1 /\ Len(r.defaults) = Len(p.params) + 1
  BY <1>1, <1>2
<1> QED
  BY <1>1, <1>2, <1>3, LimitsNat DEF Valid

(* A set of positions has a first one. *)
LEMMA FirstOne ==
  ASSUME NEW S, S \subseteq Nat, S # {}
  PROVE  \E k \in S : \A j \in S : k <= j
<1>1. PICK k \in S : \A j \in S : <<j, k>> \notin OpToRel(<, Nat)
  BY WFMin, NatLessThanWellFounded
<1>2. \A j \in S : ~(j < k)
  BY <1>1 DEF OpToRel
<1> QED
  BY <1>2

-----------------------------------------------------------------------------
(* Registration keeps the invariant. *)

LEMMA RegistrationKeeps ==
  ASSUME ParamInv,
         \/ \E t \in GateType : Register(t)
         \/ \E w \in Word : PropertyConnection(w) \/ \E v \in Value : PropertyParam(w, v)
         \/ PropertyEnd
  PROVE  ParamInv'
<1> USE DEF ParamInv
<1>1. ASSUME NEW t \in GateType, Register(t)
      PROVE  ParamInv'
  <2>1. Valid(Fresh(t)) /\ Fresh(t).type = t
    BY FreshValid DEF Fresh
  <2>2. PrefabsValid'
    BY <1>1, <2>1 DEF Register, PrefabsValid, Valid, Prefab
  <2>3. ParamTypeOK'
    BY <1>1, <2>1 DEF Register, ParamTypeOK
  <2> QED
    BY <1>1, <2>2, <2>3 DEF Register, ValuesLast, ObjectsAreGates
<1>2. ASSUME registering, UNCHANGED <<prefabs, gates, objects, faulted, lastSet>>,
             registering' \in BOOLEAN, Valid(reg'), reg'.type = reg.type
      PROVE  ParamInv'
  <2>1. ParamTypeOK'
    BY <1>2 DEF ParamTypeOK
  <2>2. PrefabsValid'
    BY <1>2 DEF PrefabsValid, Valid, Prefab
  <2> QED
    BY <1>2, <2>1, <2>2 DEF ValuesLast, ObjectsAreGates
<1>3. Valid(reg) /\ reg \in Prefab
  BY DEF PrefabsValid, Valid
<1>4. ASSUME NEW w \in Word, PropertyConnection(w)
      PROVE  ParamInv'
  <2>1. CASE InRefused(w)
    BY <1>2, <1>3, <1>4, <2>1 DEF PropertyConnection
  <2>2. CASE ~InRefused(w)
    <3>1. Len(reg.ins) < MaxIns /\ ~Repeats(reg.ins, Len(reg.ins), w)
      BY <2>2, <1>3, LimitsNat DEF InRefused, Prefab
    <3>2. reg' = [reg EXCEPT !.ins = Append(@, w)] /\ registering' = registering
      BY <1>4, <2>2 DEF PropertyConnection
    <3>3. Valid(reg')
      BY <1>3, <3>1, <3>2, InKeepsValid
    <3>4. reg'.type = reg.type
      BY <1>3, <3>2 DEF Prefab
    <3> QED
      BY <1>2, <1>4, <3>2, <3>3, <3>4 DEF PropertyConnection
  <2> QED
    BY <2>1, <2>2
<1>5. ASSUME NEW w \in Word, NEW v \in Value, PropertyParam(w, v)
      PROVE  ParamInv'
  <2>1. CASE ParamRefused(w)
    BY <1>2, <1>3, <1>5, <2>1 DEF PropertyParam
  <2>2. CASE ~ParamRefused(w)
    <3>1. Len(reg.params) < MaxParam
      BY <2>2, <1>3, LimitsNat DEF ParamRefused, Prefab
    <3>2. /\ reg' = [reg EXCEPT !.params = Append(@, w), !.defaults = Append(@, v)]
          /\ registering' = registering
      BY <1>5, <2>2 DEF PropertyParam
    <3>3. Valid(reg')
      BY <1>3, <3>1, <3>2, ParamKeepsValid
    <3>4. reg'.type = reg.type
      BY <1>3, <3>2 DEF Prefab
    <3> QED
      BY <1>2, <1>5, <3>2, <3>3, <3>4 DEF PropertyParam
  <2> QED
    BY <2>1, <2>2
<1>6. ASSUME PropertyEnd
      PROVE  ParamInv'
  <2>1. /\ prefabs' = With(prefabs, reg.type, reg) /\ registering' = FALSE
        /\ UNCHANGED <<reg, gates, objects, faulted, lastSet>>
        /\ reg.type \notin DOMAIN prefabs /\ reg.type \in GateType
    BY <1>3, <1>6 DEF PropertyEnd, PrefabsValid, Prefab
  <2>2. /\ DOMAIN prefabs' = DOMAIN prefabs \cup {reg.type}
        /\ prefabs'[reg.type] = reg
        /\ \A t \in DOMAIN prefabs : prefabs'[t] = prefabs[t]
        /\ prefabs' \in [DOMAIN prefabs' -> Prefab]
    BY <1>3, <2>1 DEF With, PrefabsValid
  <2>3. PrefabsValid'
    BY <1>3, <2>1, <2>2 DEF PrefabsValid, Valid
  <2>4. ParamTypeOK'
    BY <2>1, <2>2 DEF ParamTypeOK
  <2>5. ValuesLast'
    BY <2>1, <2>2 DEF ValuesLast, ParamTypeOK
  <2> QED
    BY <2>1, <2>3, <2>4, <2>5 DEF ObjectsAreGates
<1> QED
  BY <1>1, <1>4, <1>5, <1>6

-----------------------------------------------------------------------------
(* The commands and the script objects keep it. *)

(* A step of the part that only reads, or that hands out a gate. *)
LEMMA GatesKept ==
  ASSUME ParamInv, UNCHANGED <<prefabs, registering, reg, gates, lastSet>>,
         objects' \subseteq DOMAIN gates, faulted' \in {"no", "native"}
  PROVE  ParamInv'
<1> USE DEF ParamInv
<1>1. ParamTypeOK'
  BY DEF ParamTypeOK
<1>2. PrefabsValid'
  BY DEF PrefabsValid, Valid
<1> QED
  BY <1>1, <1>2 DEF ValuesLast, ObjectsAreGates

LEMMA CreateKeeps ==
  ASSUME ParamInv, NEW t \in GateType, NEW n \in GateName, CreateNamedGate(t, n),
         UNCHANGED <<prefabs, registering, reg, faulted>>,
         objects' \in {objects, objects \cup {n}}
  PROVE  ParamInv'
<1> USE DEF ParamInv
<1>1. /\ prefabs[t] \in Prefab /\ prefabs[t].defaults \in Seq(Value)
      /\ Len(prefabs[t].defaults) = Len(prefabs[t].params)
      /\ Len(prefabs[t].params) \in Nat
  BY DEF CreateNamedGate, PrefabsValid, Valid, Prefab
<1>2. /\ n \notin DOMAIN gates /\ DOMAIN gates' = DOMAIN gates \cup {n}
      /\ gates'[n] = [type |-> t, values |-> prefabs[t].defaults]
      /\ \A m \in DOMAIN gates : gates'[m] = gates[m]
  BY DEF CreateNamedGate, With
<1>3. /\ DOMAIN lastSet' = DOMAIN gates'
      /\ lastSet'[n] = EmptyFunction
      /\ \A m \in DOMAIN gates : lastSet'[m] = lastSet[m]
  BY <1>2 DEF CreateNamedGate, With, ParamTypeOK
<1>4. ParamTypeOK'
  BY <1>2, <1>3 DEF ParamTypeOK, CreateNamedGate, ObjectsAreGates
<1>5. PrefabsValid'
  BY DEF PrefabsValid, Valid
<1>6. ValuesLast'
  <2>1. gates'[n].type = t /\ gates'[n].values = prefabs[t].defaults
        /\ gates'[n] \in [type : GateType, values : Seq(Value)]
    BY <1>1, <1>2
  <2>2. DOMAIN lastSet'[n] = {}
    BY <1>3 DEF EmptyFunction
  <2>3. prefabs' = prefabs
    OBVIOUS
  <2>4. prefabs'[gates'[n].type] = prefabs[t]
    BY <2>1, <2>3
  <2>5. Len(gates'[n].values) = Len(prefabs[t].params)
    BY <1>1, <2>1
  <2>6. ASSUME NEW m \in DOMAIN gates'
        PROVE  LET q == prefabs'[gates'[m].type] IN
               /\ gates'[m] \in [type : GateType, values : Seq(Value)]
               /\ Len(gates'[m].values) = Len(q.params)
               /\ \A k \in 1 .. Len(q.params) :
                    gates'[m].values[k] = IF q.params[k] \in DOMAIN lastSet'[m]
                                          THEN lastSet'[m][q.params[k]] ELSE q.defaults[k]
    <3>1. CASE m = n
      BY <2>1, <2>2, <2>4, <2>5, <3>1
    <3>2. CASE m # n
      <4>1. m \in DOMAIN gates /\ gates'[m] = gates[m] /\ lastSet'[m] = lastSet[m]
        BY <1>2, <1>3, <3>2
      <4> QED
        BY <2>3, <4>1 DEF ValuesLast
    <3> QED
      BY <3>1, <3>2
  <2> QED
    BY <2>6 DEF ValuesLast
<1> QED
  BY <1>2, <1>4, <1>5, <1>6 DEF ObjectsAreGates

LEMMA SetParamKeeps ==
  ASSUME ParamInv, NEW who \in {"object", "native"}, NEW n, NEW w \in Word, NEW v \in Value,
         SetParamOf(who, n, w, v), who = "object" => n \in objects
  PROVE  ParamInv'
<1> USE DEF ParamInv
<1>1. CASE n \notin DOMAIN gates
  <2>1. who = "native"
    BY <1>1 DEF ObjectsAreGates
  <2> QED
    BY <1>1, <2>1, GatesKept DEF SetParamOf, ObjectsAreGates
<1>2. CASE n \in DOMAIN gates
  <2> DEFINE p == prefabs[gates[n].type]
  <2>1. /\ gates[n] \in [type : GateType, values : Seq(Value)]
        /\ gates[n].type \in DOMAIN prefabs
        /\ Len(gates[n].values) = Len(p.params) /\ p \in Prefab
        /\ DOMAIN gates[n].values = 1 .. Len(p.params) /\ Len(p.params) \in Nat
    BY <1>2 DEF ValuesLast, ParamTypeOK, PrefabsValid, Prefab
  <2>2. /\ gates' = [gates EXCEPT ![n].values = Assigned(gates[n], w, v)]
        /\ lastSet' = [lastSet EXCEPT ![n] = With(@, w, v)]
        /\ UNCHANGED <<prefabs, registering, reg, objects, faulted>>
    BY <1>2 DEF SetParamOf
  <2>3. Assigned(gates[n], w, v) \in Seq(Value)
        /\ Len(Assigned(gates[n], w, v)) = Len(p.params)
        /\ \A k \in 1 .. Len(p.params) :
             Assigned(gates[n], w, v)[k] = IF p.params[k] = w THEN v ELSE gates[n].values[k]
    <3> DEFINE s == [k \in 1 .. Len(p.params) |->
                       IF p.params[k] = w THEN v ELSE gates[n].values[k]]
    <3>1. Assigned(gates[n], w, v) = s
      BY <2>1 DEF Assigned
    <3>2. \A k \in 1 .. Len(p.params) : gates[n].values[k] \in Value
      BY <2>1
    <3>3. s \in [1 .. Len(p.params) -> Value]
      BY <3>2
    <3>4. s \in Seq(Value) /\ Len(s) = Len(p.params)
      BY <2>1, <3>3
    <3> QED
      BY <3>1, <3>4
  <2>4. /\ DOMAIN gates' = DOMAIN gates /\ DOMAIN lastSet' = DOMAIN gates
        /\ gates'[n] = [gates[n] EXCEPT !.values = Assigned(gates[n], w, v)]
        /\ \A m \in DOMAIN gates : m # n => gates'[m] = gates[m] /\ lastSet'[m] = lastSet[m]
    BY <1>2, <2>2 DEF ParamTypeOK
  <2>5. /\ DOMAIN lastSet'[n] = DOMAIN lastSet[n] \cup {w} /\ lastSet'[n][w] = v
        /\ \A x \in DOMAIN lastSet[n] : x # w => lastSet'[n][x] = lastSet[n][x]
    BY <1>2, <2>2 DEF ParamTypeOK, With
  <2>6. /\ gates'[n].type = gates[n].type
        /\ gates'[n].values = Assigned(gates[n], w, v)
        /\ gates'[n] \in [type : GateType, values : Seq(Value)]
    BY <2>1, <2>3, <2>4
  <2>7. ParamTypeOK'
    BY <2>2, <2>4, <2>6 DEF ParamTypeOK
  <2>8. PrefabsValid'
    BY <2>2 DEF PrefabsValid, Valid
  <2>9. ValuesLast'
    <3>1. ASSUME NEW m \in DOMAIN gates, m # n
          PROVE  gates'[m] = gates[m] /\ lastSet'[m] = lastSet[m]
      BY <2>4, <3>1
    <3>2. \A k \in 1 .. Len(p.params) :
            gates'[n].values[k] = IF p.params[k] \in DOMAIN lastSet'[n]
                                  THEN lastSet'[n][p.params[k]] ELSE p.defaults[k]
      BY <1>2, <2>3, <2>5, <2>6 DEF ValuesLast
    <3>3. prefabs' = prefabs /\ DOMAIN gates' = DOMAIN gates
      BY <2>2, <2>4
    <3>4. prefabs'[gates'[n].type] = p
      BY <2>6, <3>3
    <3>5. Len(gates'[n].values) = Len(p.params)
      BY <2>3, <2>6
    <3>6. ASSUME NEW m \in DOMAIN gates
          PROVE  LET q == prefabs'[gates'[m].type] IN
                 /\ gates'[m] \in [type : GateType, values : Seq(Value)]
                 /\ Len(gates'[m].values) = Len(q.params)
                 /\ \A k \in 1 .. Len(q.params) :
                      gates'[m].values[k] = IF q.params[k] \in DOMAIN lastSet'[m]
                                            THEN lastSet'[m][q.params[k]] ELSE q.defaults[k]
      <4>1. CASE m = n
        <5> HIDE DEF p
        <5> QED
          BY <2>6, <3>2, <3>4, <3>5, <4>1
      <4>2. CASE m # n
        BY <3>1, <3>3, <4>2 DEF ValuesLast
      <4> QED
        BY <4>1, <4>2
    <3> QED
      BY <3>3, <3>6 DEF ValuesLast
  <2> QED
    BY <2>2, <2>4, <2>7, <2>8, <2>9 DEF ObjectsAreGates
<1> QED
  BY <1>1, <1>2

LEMMA GetParamKeeps ==
  ASSUME ParamInv, NEW who \in {"object", "native"}, NEW n,
         GetParamOf(who, n), who = "object" => n \in objects
  PROVE  ParamInv'
<1>1. faulted' \in {"no", "native"}
  BY DEF ParamInv, GetParamOf, ObjectsAreGates, Running
<1> QED
  BY <1>1, GatesKept DEF ParamInv, GetParamOf, ObjectsAreGates

-----------------------------------------------------------------------------

LEMMA ParamInitHolds == ParamInit => ParamInv
<1> SUFFICES ASSUME ParamInit
             PROVE  ParamInv
  OBVIOUS
<1>1. PICK t \in GateType : reg = Fresh(t)
  BY DEF ParamInit
<1>2. Valid(reg) /\ reg.type = t
  BY <1>1, FreshValid DEF Fresh
<1>3. DOMAIN EmptyFunction = {} /\ EmptyFunction \in [{} -> Prefab]
  BY DEF EmptyFunction
<1> QED
  BY <1>2, <1>3 DEF ParamInit, ParamInv, ParamTypeOK, PrefabsValid, ValuesLast, ObjectsAreGates

LEMMA ParamNextKeeps == ParamInv /\ [ParamNext]_paramVars => ParamInv'
<1> SUFFICES ASSUME ParamInv, [ParamNext]_paramVars
             PROVE  ParamInv'
  OBVIOUS
<1>1. ASSUME NEW t \in GateType, NEW n \in GateName, GateAddCommand(t, n)
      PROVE  ParamInv'
  BY <1>1, CreateKeeps DEF GateAddCommand
<1>2. ASSUME NEW t \in GateType, NEW n \in GateName, ScriptAdd(t, n)
      PROVE  ParamInv'
  BY <1>2, CreateKeeps DEF ScriptAdd
<1>3. ASSUME NEW n \in GateName, ScriptGet(n)
      PROVE  ParamInv'
  BY <1>3, GatesKept DEF ScriptGet, ParamInv, ObjectsAreGates, Running
<1>4. CASE ParamCalls
  BY <1>4, SetParamKeeps, GetParamKeeps DEF ParamCalls
<1>5. CASE UNCHANGED paramVars
  BY <1>5, GatesKept DEF paramVars, ParamInv, ParamTypeOK, ObjectsAreGates
<1> QED
  BY <1>1, <1>2, <1>3, <1>4, <1>5, RegistrationKeeps DEF ParamNext

(* Every sequence of registrations, commands and calls keeps the whole     *)
(* invariant.                                                              *)
THEOREM ParamInvariant == ParamSpec => []ParamInv
<1> QED
  BY ParamInitHolds, ParamNextKeeps, PTL DEF ParamSpec

(* A gate is of a registered type and a parameter was last set on a gate.  *)
THEOREM ParamTypeCorrect == ParamSpec => []ParamTypeOK
<1>1. ParamInv => ParamTypeOK
  BY DEF ParamInv
<1> QED
  BY <1>1, ParamInvariant, PTL

(* Whatever is declared of a type, in whatever order and however often: it *)
(* is refused, or fits a gate and has INs that can be told apart, and each *)
(* gate made of it has a value for each of its parameters.                 *)
THEOREM RegisteredSound == ParamSpec => []RegistrationSound
<1>1. ParamInv => RegistrationSound
  <2> SUFFICES ASSUME ParamInv
               PROVE  RegistrationSound
    OBVIOUS
  <2>1. ASSUME NEW t \in DOMAIN prefabs
        PROVE  /\ Len(prefabs[t].ins) <= MaxIns /\ Len(prefabs[t].params) <= MaxParam
               /\ \A j, k \in DOMAIN prefabs[t].ins :
                    prefabs[t].ins[j] = prefabs[t].ins[k] => j = k
    <3>1. Valid(prefabs[t])
      BY DEF ParamInv, PrefabsValid
    <3>2. prefabs[t].ins \in Seq(Word)
      BY <3>1 DEF Valid, Prefab
    <3>3. DOMAIN prefabs[t].ins = 1 .. Len(prefabs[t].ins)
      BY <3>2
    <3> QED
      BY <3>1, <3>3 DEF Valid
  <2> QED
    BY <2>1 DEF RegistrationSound, ParamInv, ValuesLast
<1> QED
  BY <1>1, ParamInvariant, PTL

(* A parameter reads as the last value set on its gate under its name, and *)
(* before that as the default it was first registered with, for any number *)
(* of parameters, gates that share a type, and repeated names.             *)
THEOREM ParametersReadBack == ParamSpec => []ReadsBack
<1>1. ParamInv => ReadsBack
  <2> SUFFICES ASSUME ParamInv, NEW n \in DOMAIN gates, NEW w \in Word
               PROVE  LET p        == prefabs[gates[n].type]
                          declared == {k \in DOMAIN p.params : p.params[k] = w}
                          first    == CHOOSE k \in declared : \A j \in declared : k <= j
                      IN  Parameter(gates[n], w) =
                            CASE declared = {} -> 0
                              [] declared # {} /\ w \in DOMAIN lastSet[n] -> lastSet[n][w]
                              [] OTHER -> p.defaults[first]
    BY DEF ReadsBack
  <2> DEFINE p        == prefabs[gates[n].type]
             declared == {k \in DOMAIN p.params : p.params[k] = w}
             First(S) == CHOOSE k \in S : \A j \in S : k <= j
             first    == First(declared)
             value    == gates[n].values
  <2>1. /\ DOMAIN p.params = 1 .. Len(p.params) /\ Len(p.params) \in Nat
        /\ DOMAIN value = 1 .. Len(p.params)
    <3>1. p \in Prefab
      BY DEF ParamInv, ParamTypeOK, PrefabsValid
    <3>2. p.params \in Seq(Word)
      BY <3>1 DEF Prefab
    <3>3. gates[n] \in [type : GateType, values : Seq(Value)] /\ Len(value) = Len(p.params)
      BY DEF ParamInv, ValuesLast
    <3>4. value \in Seq(Value)
      BY <3>3
    <3> QED
      BY <3>2, <3>3, <3>4
  <2>2. Parameter(gates[n], w) = IF declared = {} THEN 0 ELSE value[first]
    <3> DEFINE named == {k \in DOMAIN value : p.params[k] = w}
    <3>1. named = declared
      BY <2>1
    <3>2. Parameter(gates[n], w) = IF named = {} THEN 0 ELSE value[First(named)]
      BY DEF Parameter
    <3> HIDE DEF named, declared, First
    <3> QED
      BY <3>1, <3>2
  <2>3. ASSUME declared # {}
        PROVE  /\ first \in 1 .. Len(p.params) /\ p.params[first] = w
    <3>1. declared \subseteq Nat
      BY <2>1
    <3>2. \E k \in declared : \A j \in declared : k <= j
      BY <2>3, <3>1, FirstOne
    <3>3. first \in declared
      BY <3>2
    <3> QED
      BY <2>1, <3>3
  <2>4. ASSUME declared # {}
        PROVE  value[first] = IF w \in DOMAIN lastSet[n] THEN lastSet[n][w]
                              ELSE p.defaults[first]
    <3>1. first \in 1 .. Len(p.params) /\ p.params[first] = w
      BY <2>3, <2>4
    <3>2. \A k \in 1 .. Len(p.params) :
            value[k] = IF p.params[k] \in DOMAIN lastSet[n]
                       THEN lastSet[n][p.params[k]] ELSE p.defaults[k]
      BY DEF ParamInv, ValuesLast
    <3> HIDE DEF p, declared, first, value
    <3> QED
      BY <3>1, <3>2
  <2> HIDE DEF p, declared, first, value
  <2> QED
    BY <2>2, <2>4 DEF p, declared, first
<1> QED
  BY <1>1, ParamInvariant, PTL

(* No call of an object of the script library reaches a gate that does not *)
(* exist.                                                                  *)
THEOREM ScriptObjectsAreGates == ParamSpec => []ObjectsAreGates
<1>1. ParamInv => ObjectsAreGates
  BY DEF ParamInv
<1> QED
  BY <1>1, ParamInvariant, PTL
=============================================================================
