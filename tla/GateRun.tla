-------------------------------- MODULE GateRun --------------------------------
(***************************************************************************)
(* Running the gate graph: one output cycle (gensyn_generate_waveform) is  *)
(* a depth-first walk of the INs from the output gate, in which every gate *)
(* gathers the buffers of the gates that feed it and then fills its own.   *)
(*                                                                         *)
(* The walk is the C stack of gensyn_gate_run__internal, one step per load *)
(* of shared memory: the IN slot is read once to test it, again for the    *)
(* call, and again to fetch the buffer.  It runs on the audio thread of    *)
(* gensyn_start_audio, where commands of the main thread come in between   *)
(* (ConcSpec), or in the command line's "@", between two commands          *)
(* (SeqSpec).  A command's only store that the walk can see is the one to  *)
(* an IN slot, so a command is one step here.                              *)
(*                                                                         *)
(* Abstracted: a signal is the set of gates that have a part in it, those  *)
(* that set a pitch or a volume included, and the empty set is silence;    *)
(* when a wave is at the start of a period is left open; the number of     *)
(* samples of a cycle is one constant, as in both callers; parameters only *)
(* scale a signal.                                                         *)
(***************************************************************************)
EXTENDS GateGraph, Sequences

CONSTANTS
  Kind,          \* what the onUpdate of each registered type does
  IdMod,         \* 2^32: update identifiers are uint32_t
  FirstId,       \* 0xff: what updatePool starts from
  SampleCount,   \* 256: samples per cycle
  MaxCycles,     \* bound: output cycles
  MaxCommands    \* bound: commands, those that fail included

ASSUME RunAssumption ==
  /\ Kind \in [DOMAIN Nins -> {"source", "mixer", "through", "glider", "wave"}]
  /\ \A t \in DOMAIN Nins : Kind[t] = "wave" => Nins[t] = 3
  /\ IdMod \in Nat \ {0}
  /\ FirstId \in 0 .. IdMod - 1
  /\ SampleCount \in Nat \ {0}
  /\ MaxCycles \in Nat
  /\ MaxCommands \in Nat
  /\ NULL \notin Gate \X (1 .. MaxCycles)

VARIABLES
  updatePool,
  updateID,      \* updateID[g]: the last cycle that ran g
  sampleTick,    \* sampleTick[g], in cycles of SampleCount samples
  isActive,
  buffer,        \* buffer[g]: how often g's sampleBuffer was allocated; 0 is NULL
  signal,        \* signal[g]: what g's sampleBuffer holds
  kept,          \* kept[g]: what went into the data that g keeps between cycles
  keptBefore,    \* history: kept, when the last cycle began
  stack,         \* the activations of gensyn_gate_run__internal, innermost first
  cycling,       \* whether gensyn_generate_waveform is executing
  iterIsEnd,     \* the isEnd flag of the context's table iterator
  samplesOut,    \* what the last cycle handed to the device or the file
  fault,         \* "": none yet; "null", "freed": the access that ended the program
  cycles,
  commands

gateVars  == <<updateID, sampleTick, isActive, buffer, signal, kept>>
cycleVars == <<updatePool, stack, cycling, iterIsEnd, keptBefore, samplesOut, fault, cycles>>
runVars   == <<gateVars, cycleVars, commands>>
vars      == <<graphVars, runVars>>

Pointer == Gate \X (1 .. MaxCycles)
NoBuffers == [i \in Slot |-> NULL]
Activation(g) == [gate |-> g, pc |-> "enter", i |-> 0, ins |-> NoBuffers]

RunVarsInit ==
  /\ updatePool = FirstId
  /\ updateID   = [g \in Gate |-> 0]
  /\ sampleTick = [g \in Gate |-> 0]
  /\ isActive   = [g \in Gate |-> FALSE]
  /\ buffer     = [g \in Gate |-> 0]
  /\ signal     = [g \in Gate |-> {}]
  /\ kept       = [g \in Gate |-> {}]
  /\ keptBefore = kept
  /\ stack      = <<>>
  /\ cycling    = FALSE
  /\ iterIsEnd  = FALSE
  /\ samplesOut = {}
  /\ fault      = ""
  /\ cycles     = 0
  /\ commands   = 0

RunInit == GraphInit /\ RunVarsInit

-----------------------------------------------------------------------------
(* gensyn_generate_waveform and gensyn_gate_run, up to the first call.     *)

(* The loop over the context's own iterator: gensyn_table_iter_start does  *)
(* not clear isEnd, so that only the first cycle's loop has a body.        *)
ResetIsActive ==
  /\ isActive'  = IF iterIsEnd THEN isActive
                  ELSE [g \in Gate |-> IF \E n \in Name : gates[n] = g
                                       THEN FALSE ELSE isActive[g]]
  /\ iterIsEnd' = TRUE

(* A mistake that OncePerCycle rejects: every cycle has the same number. *)
StartCycleUnnumbered ==
  /\ ~cycling
  /\ fault = ""
  /\ cycles < MaxCycles
  /\ ResetIsActive
  /\ stack'   = <<Activation(output)>>
  /\ cycling' = TRUE
  /\ cycles'  = cycles + 1
  /\ keptBefore' = kept
  /\ UNCHANGED <<graphVars, updatePool, updateID, sampleTick, buffer, signal, kept,
                 samplesOut, fault, commands>>

StartCycle ==
  /\ ~cycling
  /\ fault = ""
  /\ cycles < MaxCycles
  /\ ResetIsActive
  /\ updatePool' = (updatePool + 1) % IdMod
  /\ stack'      = <<Activation(output)>>
  /\ cycling'    = TRUE
  /\ cycles'     = cycles + 1
  /\ keptBefore' = kept
  /\ UNCHANGED <<graphVars, updateID, sampleTick, buffer, signal, kept, samplesOut, fault,
                 commands>>

(* The memcpy out of the output gate's buffer. *)
FinishCycle ==
  /\ cycling
  /\ fault = ""
  /\ stack = <<>>
  /\ cycling' = FALSE
  /\ samplesOut' = signal[output]
  /\ UNCHANGED <<graphVars, gateVars, updatePool, stack, iterIsEnd, keptBefore, fault,
                 cycles, commands>>

-----------------------------------------------------------------------------
(* gensyn_gate_run__internal. *)

Top == Head(stack)

At(pc) == fault = "" /\ stack # <<>> /\ Top.pc = pc

(* The innermost activation goes on with some of its fields changed. *)
Continue(frame) == stack' = <<frame>> \o Tail(stack)

Crash(what) ==
  /\ fault' = what
  /\ UNCHANGED <<stack, cycling, samplesOut>>

(* Mistakes that RunTypeOK and BuffersHeld reject: the block is counted,   *)
(* or the buffer replaced, before the test against updateID.               *)
EnterAgainCounting ==
  /\ At("enter")
  /\ updateID[Top.gate] = updatePool
  /\ stack' = Tail(stack)
  /\ sampleTick' = [sampleTick EXCEPT ![Top.gate] = @ + 1]
  /\ UNCHANGED <<graphVars, updateID, isActive, buffer, signal, kept, updatePool, cycling,
                 iterIsEnd, keptBefore, samplesOut, fault, cycles, commands>>

EnterAgainReplacing ==
  /\ At("enter")
  /\ updateID[Top.gate] = updatePool
  /\ stack' = Tail(stack)
  /\ buffer' = [buffer EXCEPT ![Top.gate] = @ + 1]
  /\ UNCHANGED <<graphVars, updateID, sampleTick, isActive, signal, kept, updatePool,
                 cycling, iterIsEnd, keptBefore, samplesOut, fault, cycles, commands>>

(* The gate ran in this cycle already, or is running further out. *)
EnterAgain ==
  /\ At("enter")
  /\ updateID[Top.gate] = updatePool
  /\ stack' = Tail(stack)
  /\ UNCHANGED <<graphVars, gateVars, updatePool, cycling, iterIsEnd, keptBefore,
                 samplesOut, fault, cycles, commands>>

(* sampleBufferSize: zero until the first allocation. *)
SampleBufferSize(g) == IF buffer[g] = 0 THEN 0 ELSE SampleCount

(* A mistake that OutputIsGraph rejects: a buffer of the right size is     *)
(* kept, and with it what was computed for other connections.              *)
NeedsMoreBuffer(g) == SampleBufferSize(g) < SampleCount

NeedsBuffer(g) == SampleBufferSize(g) <= SampleCount

(* A mistake that StackBound rejects: a gate is marked only once it is     *)
(* done.                                                                   *)
EnterUnmarked ==
  /\ At("enter")
  /\ updateID[Top.gate] # updatePool
  /\ Continue([Top EXCEPT !.pc = "test"])
  /\ UNCHANGED <<graphVars, gateVars, updatePool, cycling, iterIsEnd, keptBefore,
                 samplesOut, fault, cycles, commands>>

Enter ==
  /\ At("enter")
  /\ updateID[Top.gate] # updatePool
  /\ LET g == Top.gate IN
       /\ updateID' = [updateID EXCEPT ![g] = updatePool]
       /\ IF NeedsBuffer(g)
          THEN /\ buffer' = [buffer EXCEPT ![g] = @ + 1]
               /\ signal' = [signal EXCEPT ![g] = {}]
          ELSE UNCHANGED <<buffer, signal>>
  /\ Continue([Top EXCEPT !.pc = "test"])
  /\ UNCHANGED <<graphVars, sampleTick, isActive, kept, updatePool, cycling, iterIsEnd,
                 keptBefore, samplesOut, fault, cycles, commands>>

(* Mistakes that OnlyMissingPitch, CycleIsOneStep and CycleEnds reject: an *)
(* IN is not tested, the first unconnected IN ends the loop, the loop does *)
(* not go on after one.                                                    *)
TestInNot ==
  /\ At("test")
  /\ Top.i < nins(Top.gate)
  /\ Continue([Top EXCEPT !.pc = "call"])
  /\ UNCHANGED <<graphVars, gateVars, updatePool, cycling, iterIsEnd, keptBefore,
                 samplesOut, fault, cycles, commands>>

TestInStopping ==
  /\ At("test")
  /\ Top.i < nins(Top.gate)
  /\ Continue(IF inrefs[Top.gate][Top.i] # NULL
              THEN [Top EXCEPT !.pc = "call"]
              ELSE [Top EXCEPT !.i = nins(Top.gate)])
  /\ UNCHANGED <<graphVars, gateVars, updatePool, cycling, iterIsEnd, keptBefore,
                 samplesOut, fault, cycles, commands>>

TestInStuck ==
  /\ At("test")
  /\ Top.i < nins(Top.gate)
  /\ Continue(IF inrefs[Top.gate][Top.i] # NULL
              THEN [Top EXCEPT !.pc = "call"]
              ELSE [Top EXCEPT !.ins[Top.i] = NULL])
  /\ UNCHANGED <<graphVars, gateVars, updatePool, cycling, iterIsEnd, keptBefore,
                 samplesOut, fault, cycles, commands>>

(* if (g->inrefs[i]) *)
TestIn ==
  /\ At("test")
  /\ Top.i < nins(Top.gate)
  /\ Continue(IF inrefs[Top.gate][Top.i] # NULL
              THEN [Top EXCEPT !.pc = "call"]
              ELSE [Top EXCEPT !.ins = [@ EXCEPT ![Top.i] = NULL], !.i = @ + 1])
  /\ UNCHANGED <<graphVars, gateVars, updatePool, cycling, iterIsEnd, keptBefore,
                 samplesOut, fault, cycles, commands>>

(* The call, with the IN slot read again.  A NULL gate is dereferenced at  *)
(* once, for its nins.                                                     *)
CallIn ==
  /\ At("call")
  /\ LET h == inrefs[Top.gate][Top.i] IN
       IF h = NULL
       THEN Crash("null")
       ELSE /\ stack' = <<Activation(h), [Top EXCEPT !.pc = "fetch"]>> \o Tail(stack)
            /\ UNCHANGED <<cycling, samplesOut, fault>>
  /\ UNCHANGED <<graphVars, gateVars, updatePool, iterIsEnd, keptBefore, cycles, commands>>

(* The pointer in the sampleBuffer of the gate that is in the slot by now. *)
BufferOf(h) == IF buffer[h] = 0 THEN NULL ELSE <<h, buffer[h]>>

FetchIn ==
  /\ At("fetch")
  /\ LET h == inrefs[Top.gate][Top.i] IN
       IF h = NULL
       THEN Crash("null")
       ELSE /\ Continue([Top EXCEPT !.ins = [@ EXCEPT ![Top.i] = BufferOf(h)],
                                    !.i = @ + 1, !.pc = "test"])
            /\ UNCHANGED <<cycling, samplesOut, fault>>
  /\ UNCHANGED <<graphVars, gateVars, updatePool, iterIsEnd, keptBefore, cycles, commands>>

-----------------------------------------------------------------------------
(* onUpdate, by kind of gate: a source (Simple_Input, Simple_LFO) writes   *)
(* its own signal; a mixer (Adder) the sum of what is connected; a through *)
(* gate (GenSyn_Output) copies IN 0, and a glider draws it towards its own *)
(* last sample, and both leave their buffer alone without it; a wave       *)
(* (Sine_Wave) takes its pitch from IN 0, leaves its buffer alone when     *)
(* IN 1 is connected, and is scaled by IN 2.                               *)

(* The slots whose buffers are read. *)
Reads(kind) ==
  CASE kind = "source"              -> {}
    [] kind = "mixer"               -> Slot
    [] kind \in {"through", "glider"} -> {0}
    [] kind = "wave"                -> {0, 2}

Stale(p) == p # NULL /\ p[2] # buffer[p[1]]

Faulty(kind, ins) ==
  CASE kind = "wave" /\ ins[0] = NULL          -> "null"
    [] \E i \in Reads(kind) : Stale(ins[i])    -> "freed"
    [] OTHER                                   -> ""

(* What onUpdate may leave in the buffer and in the gate's own data.  Of   *)
(* the arguments below, ins are the gates whose buffers were gathered,     *)
(* heard what those hold, own what g's buffer and old what g's data held.  *)
Outcome(block, data) == [block |-> block, kept |-> data]

Heard(ins, heard, i) == IF ins[i] = NULL THEN {} ELSE heard[ins[i]]

Mixer(ins, heard)        == UNION {Heard(ins, heard, i) : i \in Slot}
Through(ins, heard, own) == IF ins[0] = NULL THEN own ELSE Heard(ins, heard, 0)

(* prevSample fades, until nothing is left of what it was. *)
Glider(ins, heard, own, old) ==
  LET in == Heard(ins, heard, 0)
  IN  IF ins[0] = NULL
      THEN {Outcome(own, old)}
      ELSE {Outcome(in \cup old, data) : data \in {in, in \cup old}}

(* Connected to itself, a wave finds in its buffer what it just wrote. *)
Pitch(g, ins, heard, old) == {g} \cup (IF ins[0] = g THEN old ELSE Heard(ins, heard, 0))

Scaled(g, ins, heard, block) ==
  IF ins[2] \in {NULL, g} THEN block
  ELSE IF block = {} \/ Heard(ins, heard, 2) = {} THEN {}
  ELSE block \cup Heard(ins, heard, 2)

(* lastFreq follows the pitch at the first sample of all, and from then on *)
(* where a period begins: early in this block, at its last sample, or in   *)
(* no place of it.                                                         *)
Tuned(g, ins, heard, own, old) ==
  LET new == Pitch(g, ins, heard, old)
  IN  IF ins[1] # NULL THEN {Outcome(own, old)}
      ELSE IF old = {} THEN {Outcome(new, new)}
      ELSE {Outcome(old \cup new, new), Outcome(old, new), Outcome(old, old)}

Wave(g, ins, heard, own, old) ==
  {[o EXCEPT !.block = Scaled(g, ins, heard, @)] : o \in Tuned(g, ins, heard, own, old)}

Outcomes(g, ins, heard, own, old) ==
  LET kind == Kind[type[g]]
  IN  CASE kind = "source"  -> {Outcome({g}, old)}
        [] kind = "mixer"   -> {Outcome(Mixer(ins, heard), old)}
        [] kind = "through" -> {Outcome(Through(ins, heard, own), old)}
        [] kind = "glider"  -> Glider(ins, heard, own, old)
        [] kind = "wave"    -> Wave(g, ins, heard, own, old)

(* The gates whose buffers the innermost activation has gathered. *)
Gathered ==
  [i \in Slot |-> IF Top.ins[i] = NULL THEN NULL ELSE Top.ins[i][1]]

(* Once every IN is gathered: onUpdate, and back to the caller. *)
Update ==
  /\ At("test")
  /\ Top.i >= nins(Top.gate)
  /\ LET g    == Top.gate
         kind == Kind[type[g]]
     IN  IF Faulty(kind, Top.ins) # ""
         THEN /\ Crash(Faulty(kind, Top.ins))
              /\ UNCHANGED gateVars
         ELSE /\ \E o \in Outcomes(g, Gathered, signal, signal[g], kept[g]) :
                   /\ signal' = [signal EXCEPT ![g] = o.block]
                   /\ kept'   = [kept EXCEPT ![g] = o.kept]
              /\ isActive'   = [isActive EXCEPT ![g] = TRUE]
              /\ sampleTick' = [sampleTick EXCEPT ![g] = @ + 1]
              /\ stack' = Tail(stack)
              /\ UNCHANGED <<updateID, buffer, cycling, samplesOut, fault>>
  /\ UNCHANGED <<graphVars, updatePool, iterIsEnd, keptBefore, cycles, commands>>

Audio ==
  \/ StartCycle \/ FinishCycle
  \/ EnterAgain \/ Enter
  \/ TestIn \/ CallIn \/ FetchIn \/ Update

-----------------------------------------------------------------------------
(* The commands of the main thread. *)

Command ==
  /\ fault = ""
  /\ commands < MaxCommands
  /\ GraphNext
  /\ commands' = commands + 1
  /\ UNCHANGED <<gateVars, cycleVars>>

SeqNext  == Audio \/ (~cycling /\ Command)
ConcNext == Audio \/ Command

(* The cycle goes on once started: the audio thread waits for nobody, and  *)
(* "@" returns only when it is done.                                       *)
CycleStep == cycling /\ Audio

SeqSpec  == RunInit /\ [][SeqNext]_vars /\ WF_vars(CycleStep)
ConcSpec == RunInit /\ [][ConcNext]_vars /\ WF_vars(CycleStep)

-----------------------------------------------------------------------------
(* What a cycle ought to do, in terms of the connections alone. *)

Feeders(g) == {inrefs[g][i] : i \in Slot} \ {NULL}

(* A set of gates that holds the output gate and whatever feeds its own. *)
Closed(S) == output \in S /\ \A g \in S : Feeders(g) \subseteq S

(* The gates that feed the output gate, directly or not, and itself. *)
Reachable == {g \in Gate : \A S \in SUBSET Gate : Closed(S) => g \in S}

(* None of them feeds itself: in any set of them there is one that no      *)
(* other, and not itself, feeds.                                           *)
Acyclic ==
  \A S \in SUBSET Reachable : S # {} => \E g \in S : Feeders(g) \cap S = {}

(* W gives every gate a signal that it may make of the signals of its      *)
(* feeders and of what it kept when the cycle began; a gate that writes    *)
(* nothing is silent.                                                      *)
Sound(W) ==
  \A g \in Reachable :
    \E o \in Outcomes(g, inrefs[g], W, {}, keptBefore[g]) : W[g] = o.block

(* No wave still sounds a pitch of earlier connections: then, on an        *)
(* acyclic graph, just one assignment of signals is sound.                 *)
InTune(W) ==
  \A g \in Reachable :
    Kind[type[g]] = "wave"
    => keptBefore[g] \in {{}, Pitch(g, inrefs[g], W, keptBefore[g])}

-----------------------------------------------------------------------------
(* Properties. *)

RunTypeOK ==
  /\ updatePool \in 0 .. IdMod - 1
  /\ updateID   \in [Gate -> 0 .. IdMod - 1]
  /\ sampleTick \in [Gate -> 0 .. MaxCycles]
  /\ isActive   \in [Gate -> BOOLEAN]
  /\ buffer     \in [Gate -> 0 .. MaxCycles]
  /\ signal     \in [Gate -> SUBSET Gate]
  /\ {kept, keptBefore} \subseteq [Gate -> SUBSET Gate]
  /\ stack \in Seq([gate : Gate, pc : {"enter", "test", "call", "fetch"},
                    i : 0 .. MaxCx, ins : [Slot -> Pointer \cup {NULL}]])
  /\ cycling \in BOOLEAN
  /\ iterIsEnd \in BOOLEAN
  /\ samplesOut \in SUBSET Gate
  /\ fault \in {"", "null", "freed"}
  /\ cycles \in 0 .. MaxCycles
  /\ commands \in 0 .. MaxCommands

(* The walk is done, its result not yet handed over. *)
Walked == cycling /\ stack = <<>> /\ fault = ""

(* The activations past the test against updateID are of different gates,  *)
(* so feedback cannot nest them without end: the C stack holds at most one *)
(* activation of every gate, and one that returns at once.                 *)
StackBound ==
  /\ \A j, k \in 1 .. Len(stack) :
       stack[j].gate = stack[k].gate /\ stack[j].pc # "enter" /\ stack[k].pc # "enter"
       => j = k
  /\ Len(stack) <= Cardinality(live) + 1

(* A buffer an activation has gathered is still allocated when onUpdate    *)
(* gets it, although every gate replaces its buffer whenever it runs.      *)
BuffersHeld ==
  \A k \in 1 .. Len(stack), i \in Slot : ~Stale(stack[k].ins[i])

(* Only a wave without a pitch ends the program. *)
OnlyMissingPitch ==
  fault # "" => /\ fault = "null"
                /\ Kind[type[Top.gate]] = "wave"
                /\ inrefs[Top.gate][0] = NULL

(* Without feedback, whatever the order of the walk and whatever the       *)
(* buffers held, the output and every signal behind it come of the present *)
(* connections, and of nothing older but the pitch a wave and the sample a *)
(* glider keep (sine_wave.h:51-67, glider.h:34-38).                        *)
OutputIsGraph == Walked /\ Acyclic => Sound(signal)

(* However commands and the walk interleave, a gate computes at most one   *)
(* block per cycle and the output gate exactly one: no gate's clock runs   *)
(* ahead of the device's.                                                  *)
OncePerCycle ==
  /\ \A g \in Gate : sampleTick[g] <= cycles
  /\ ~cycling => sampleTick[output] = cycles

(* The blocks of the cycles that are over. *)
TicksBefore ==
  [g \in Gate |->
     IF /\ cycling
        /\ updateID[g] = updatePool
        /\ \A k \in 1 .. Len(stack) : stack[k].gate = g => stack[k].pc = "enter"
     THEN sampleTick[g] - 1
     ELSE sampleTick[g]]

(* Between commands, a cycle is one step that advances just the gates      *)
(* connected to the output, and lets nothing else be heard but what these  *)
(* keep from earlier cycles, however the gates are connected (feedback     *)
(* included), and whatever their buffers still hold.                       *)
OneStep == INSTANCE WaveCycle WITH
          feeders <- [g \in Gate |-> Feeders(g)], tick <- TicksBefore,
          kept <- IF cycling THEN keptBefore ELSE kept, heard <- samplesOut
CycleIsOneStep == OneStep!Spec

(* Every cycle ends, unless the program does. *)
CycleEnds == cycling ~> (~cycling \/ fault # "")

(* gate.h: gensyn_gate_get_is_active returns whether the gate was used in  *)
(* the last output cycle.                                                  *)
ActiveAccurate ==
  ~cycling /\ cycles > 0 =>
    \A g \in live : isActive[g] <=> updateID[g] = updatePool

(* gate.c: gates can be altered while they run. *)
NoFault == fault = ""
=============================================================================
