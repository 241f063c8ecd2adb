----------------------------- MODULE GateRunProofs -----------------------------
(***************************************************************************)
(* Proofs about GateRun, for every number of gates, cycles and commands.   *)
(*                                                                         *)
(* With commands between any two steps of the walk (ConcSpec), RunInv is   *)
(* inductive: the C stack is within the graph and enters no gate twice     *)
(* (StackOK), and a gate that has not been entered in this cycle, or is    *)
(* not yet done, is a block behind (CountsOK).  OutputOK adds the output   *)
(* gate's own clock, for as long as the update identifiers do not wrap     *)
(* (NoWrap).  With commands only between cycles (SeqSpec), HeldInv adds    *)
(* what the walk relies on between reading an IN and using its buffer, and *)
(* CycleInv what it has visited and computed by now; from the latter come  *)
(* OutputIsGraph and the refinement of WaveCycle.                          *)
(***************************************************************************)
EXTENDS GateRun, GateGraphProofs, SequenceTheorems

-----------------------------------------------------------------------------
(* The inductive invariant of the walk, commands at any point included. *)

Frame == [gate : Gate, pc : {"enter", "test", "call", "fetch"}, i : Nat,
          ins : [Slot -> Pointer \cup {NULL}]]

Marked(g) == updateID[g] = updatePool

Running(g) == \E k \in 1 .. Len(stack) : stack[k].gate = g /\ stack[k].pc # "enter"

(* An activation is of a gate of the context and within its INs. *)
FrameOK(f) ==
  /\ f.gate \in live
  /\ f.i <= nins(f.gate)
  /\ f.pc \in {"call", "fetch"} => f.i < nins(f.gate)

(* All but the innermost activation wait for a call, and no gate that has  *)
(* been entered is entered again.                                          *)
StackOK ==
  /\ stack \in Seq(Frame)
  /\ \A k \in 1 .. Len(stack) :
       /\ FrameOK(stack[k])
       /\ k > 1 => stack[k].pc = "fetch"
       /\ stack[k].pc # "enter" => Marked(stack[k].gate)
  /\ \A j, k \in 1 .. Len(stack) :
       stack[j].gate = stack[k].gate /\ stack[j].pc # "enter" /\ stack[k].pc # "enter"
       => j = k

(* A gate that has not been entered in this cycle, or is not yet done, is  *)
(* a block behind.                                                         *)
CountsOK ==
  /\ cycles \in 0 .. MaxCycles
  /\ sampleTick \in [Gate -> Nat] /\ buffer \in [Gate -> Nat]
  /\ \A g \in Gate : sampleTick[g] <= cycles /\ buffer[g] <= cycles
  /\ stack # <<>> => cycling
  /\ cycling =>
       \A g \in Gate :
         /\ ~Marked(g) \/ Running(g) => sampleTick[g] < cycles
         /\ ~Marked(g) => buffer[g] < cycles

(* What else RunTypeOK says. *)
ValuesOK ==
  /\ updatePool \in 0 .. IdMod - 1
  /\ updateID   \in [Gate -> 0 .. IdMod - 1]
  /\ isActive   \in [Gate -> BOOLEAN]
  /\ signal     \in [Gate -> SUBSET Gate]
  /\ kept       \in [Gate -> SUBSET Gate]
  /\ keptBefore \in [Gate -> SUBSET Gate]
  /\ cycling \in BOOLEAN
  /\ iterIsEnd \in BOOLEAN
  /\ samplesOut \in SUBSET Gate
  /\ fault \in {"", "null", "freed"}
  /\ commands \in 0 .. MaxCommands

RunInv == GraphInv /\ StackOK /\ CountsOK /\ ValuesOK

-----------------------------------------------------------------------------
(* The C stack. *)

LEMMA ContinueIs ==
  ASSUME NEW S, NEW s \in Seq(S), s # <<>>, NEW f \in S
  PROVE  /\ <<f>> \o Tail(s) \in Seq(S)
         /\ Len(<<f>> \o Tail(s)) = Len(s) /\ Len(s) \in Nat /\ Len(s) >= 1
         /\ (<<f>> \o Tail(s))[1] = f
         /\ \A k \in 2 .. Len(s) : (<<f>> \o Tail(s))[k] = s[k]
<1>1. /\ Tail(s) \in Seq(S) /\ Len(Tail(s)) = Len(s) - 1 /\ Len(s) \in Nat /\ Len(s) >= 1
      /\ \A k \in 1 .. Len(s) - 1 : Tail(s)[k] = s[k + 1]
  BY HeadTailProperties, EmptySeq
<1>2. <<f>> \in Seq(S) /\ Len(<<f>>) = 1 /\ <<f>>[1] = f
  OBVIOUS
<1> DEFINE r == <<f>> \o Tail(s)
<1>3. /\ r \in Seq(S) /\ Len(r) = 1 + Len(Tail(s))
      /\ \A k \in 1 .. 1 + Len(Tail(s)) : r[k] = IF k <= 1 THEN <<f>>[k] ELSE Tail(s)[k - 1]
  BY <1>1, <1>2, ConcatProperties
<1> HIDE DEF r
<1>4. r[1] = f
  BY <1>1, <1>2, <1>3
<1>5. ASSUME NEW k \in 2 .. Len(s)
      PROVE  r[k] = s[k]
  <2>1. k - 1 \in 1 .. Len(s) - 1 /\ k \in 1 .. 1 + Len(Tail(s)) /\ ~(k <= 1) /\ (k - 1) + 1 = k
    BY <1>1
  <2> QED
    BY <1>1, <1>3, <2>1
<1> QED
  BY <1>1, <1>3, <1>4, <1>5 DEF r

LEMMA PopIs ==
  ASSUME NEW S, NEW s \in Seq(S), s # <<>>
  PROVE  /\ Tail(s) \in Seq(S) /\ Len(Tail(s)) = Len(s) - 1 /\ Len(s) \in Nat /\ Len(s) >= 1
         /\ \A k \in 1 .. Len(s) - 1 : Tail(s)[k] = s[k + 1]
         /\ Head(s) = s[1] /\ s[1] \in S
BY HeadTailProperties, EmptySeq

LEMMA CallIs ==
  ASSUME NEW S, NEW s \in Seq(S), s # <<>>, NEW f \in S, NEW g \in S
  PROVE  LET r == <<f, g>> \o Tail(s) IN
         /\ r \in Seq(S) /\ Len(r) = Len(s) + 1 /\ Len(s) \in Nat /\ Len(s) >= 1
         /\ r[1] = f /\ r[2] = g
         /\ \A k \in 3 .. Len(s) + 1 : r[k] = s[k - 1]
<1>1. /\ Tail(s) \in Seq(S) /\ Len(Tail(s)) = Len(s) - 1 /\ Len(s) \in Nat /\ Len(s) >= 1
      /\ \A k \in 1 .. Len(s) - 1 : Tail(s)[k] = s[k + 1]
  BY PopIs
<1>2. <<f, g>> \in Seq(S) /\ Len(<<f, g>>) = 2 /\ <<f, g>>[1] = f /\ <<f, g>>[2] = g
  OBVIOUS
<1> DEFINE r == <<f, g>> \o Tail(s)
<1>3. /\ r \in Seq(S) /\ Len(r) = 2 + Len(Tail(s))
      /\ \A k \in 1 .. 2 + Len(Tail(s)) : r[k] = IF k <= 2 THEN <<f, g>>[k] ELSE Tail(s)[k - 2]
  BY <1>1, <1>2, ConcatProperties
<1> HIDE DEF r
<1>4. r[1] = f /\ r[2] = g
  BY <1>1, <1>2, <1>3
<1>5. ASSUME NEW k \in 3 .. Len(s) + 1
      PROVE  r[k] = s[k - 1]
  <2>1. k - 2 \in 1 .. Len(s) - 1 /\ k \in 1 .. 2 + Len(Tail(s)) /\ ~(k <= 2) /\ (k - 2) + 1 = k - 1
    BY <1>1
  <2> QED
    BY <1>1, <1>3, <2>1
<1> QED
  BY <1>1, <1>3, <1>4, <1>5 DEF r

(* The innermost activation. *)
LEMMA TopIs ==
  ASSUME StackOK, stack # <<>>
  PROVE  /\ Top = stack[1] /\ Top \in Frame /\ FrameOK(Top) /\ Len(stack) \in Nat /\ Len(stack) >= 1
         /\ Top.pc # "enter" => Marked(Top.gate)
<1>1. /\ Head(stack) = stack[1] /\ stack[1] \in Frame /\ Len(stack) \in Nat /\ Len(stack) >= 1
  BY PopIs DEF StackOK
<1> QED
  BY <1>1 DEF StackOK, Top

LEMMA GateTypes ==
  ASSUME GraphInv
  PROVE  /\ live \subseteq Gate /\ output \in live /\ MaxCx \in Nat /\ NULL \notin Gate
         /\ \A g \in live : /\ nins(g) \in 0 .. MaxCx
                            /\ Kind[type[g]] \in {"source", "mixer", "through", "glider", "wave"}
         /\ \A g \in live, i \in Slot : inrefs[g][i] \in live \cup {NULL}
<1>1. live \subseteq Gate /\ output \in Gate /\ \A g \in live : type[g] \in DOMAIN Nins
  BY DEF GraphInv, GraphTypeOK
<1>2. output \in live
  BY <1>1, GraphAssumption DEF GraphInv, OneName
<1> QED
  BY <1>1, <1>2, GraphAssumption, RunAssumption DEF GraphInv, NoDangling, nins

(* The innermost activation goes on, entered now or before. *)
LEMMA ContinueKeeps ==
  ASSUME StackOK, stack # <<>>, NEW f \in Frame, FrameOK(f), Continue(f),
         f.gate = Top.gate, f.pc # "enter",
         UNCHANGED <<live, type, updatePool>>,
         updateID'[f.gate] = updatePool,
         \A g \in Gate : Marked(g) => updateID'[g] = updatePool,
         Top.pc = "enter" => ~Marked(f.gate)
  PROVE  /\ StackOK' /\ stack' # <<>>
         /\ \A g : Running(g)' => Running(g) \/ g = f.gate
<1>1. /\ stack' \in Seq(Frame) /\ Len(stack') = Len(stack) /\ Len(stack) \in Nat /\ Len(stack) >= 1
      /\ stack'[1] = f
      /\ \A k \in 2 .. Len(stack) : stack'[k] = stack[k]
  BY ContinueIs DEF StackOK, Continue
<1>2. PICK s, n : s = stack' /\ n = Len(stack)
  OBVIOUS
<1>3. \A h : FrameOK(h)' <=> FrameOK(h)
  BY DEF FrameOK, nins
<1>4. \A g \in Gate : Marked(g) => Marked(g)'
  BY DEF Marked
<1>5. Marked(f.gate)'
  BY DEF Marked
<1>6. Top = stack[1] /\ f.gate \in Gate
  BY TopIs DEF Frame
<1>7. \A k \in 1 .. n : /\ stack[k].gate \in Gate /\ FrameOK(stack[k])
                        /\ k > 1 => stack[k].pc = "fetch" /\ Marked(stack[k].gate)
  <2> TAKE k \in 1 .. n
  <2>1. stack[k] \in Frame
    BY <1>1, <1>2 DEF StackOK
  <2>2. stack[k].gate \in Gate
    BY <2>1 DEF Frame
  <2>3. FrameOK(stack[k]) /\ (k > 1 => stack[k].pc = "fetch" /\ Marked(stack[k].gate))
    BY <1>2 DEF StackOK
  <2> QED
    BY <2>2, <2>3
<1>8. \A k \in 1 .. n :
        /\ FrameOK(s[k])'
        /\ k > 1 => s[k].pc = "fetch"
        /\ s[k].pc # "enter" => Marked(s[k].gate)'
  <2> TAKE k \in 1 .. n
  <2>1. CASE k = 1
    BY <1>1, <1>2, <1>3, <1>5, <2>1
  <2>2. CASE k # 1
    <3>1. k \in 2 .. n /\ s[k] = stack[k] /\ k > 1
      BY <1>1, <1>2, <2>2
    <3> QED
      BY <1>3, <1>4, <1>7, <3>1
  <2> QED
    BY <2>1, <2>2
<1>9. ASSUME NEW k \in 2 .. n
      PROVE  s[k].gate # f.gate
  <2>1. k \in 1 .. n /\ k > 1 /\ 1 \in 1 .. n /\ k # 1 /\ s[k] = stack[k]
    BY <1>1, <1>2
  <2>2. stack[k].pc # "enter" /\ Marked(stack[k].gate)
    BY <1>7, <2>1
  <2>3. CASE Top.pc = "enter"
    BY <2>1, <2>2, <2>3
  <2>4. CASE Top.pc # "enter"
    <3>1. stack[1].gate = f.gate /\ stack[1].pc # "enter"
      BY <1>6, <2>4
    <3> QED
      BY <1>2, <2>1, <2>2, <3>1 DEF StackOK
  <2> QED
    BY <2>3, <2>4
<1>10. \A j, k \in 1 .. n :
         s[j].gate = s[k].gate /\ s[j].pc # "enter" /\ s[k].pc # "enter" => j = k
  <2> SUFFICES ASSUME NEW j \in 1 .. n, NEW k \in 1 .. n, s[j].gate = s[k].gate,
                      s[j].pc # "enter", s[k].pc # "enter"
               PROVE  j = k
    OBVIOUS
  <2>1. \A m \in 1 .. n : m = 1 \/ m \in 2 .. n
    BY <1>1, <1>2
  <2>2. CASE j \in 2 .. n /\ k \in 2 .. n
    BY <1>1, <1>2, <2>2 DEF StackOK
  <2>3. CASE j = 1 /\ k \in 2 .. n
    BY <1>1, <1>2, <1>9, <2>3
  <2>4. CASE k = 1 /\ j \in 2 .. n
    BY <1>1, <1>2, <1>9, <2>4
  <2> QED
    BY <2>1, <2>2, <2>3, <2>4
<1>11. StackOK'
  BY <1>1, <1>2, <1>8, <1>10 DEF StackOK
<1>12. \A g : Running(g)' => Running(g) \/ g = f.gate
  <2> SUFFICES ASSUME NEW g, NEW k \in 1 .. n, s[k].gate = g, s[k].pc # "enter"
               PROVE  Running(g) \/ g = f.gate
    BY <1>1, <1>2 DEF Running
  <2>1. CASE k = 1
    BY <1>1, <1>2, <2>1
  <2>2. CASE k # 1
    <3>1. k \in 2 .. n
      BY <2>2
    <3> QED
      BY <1>1, <1>2, <3>1 DEF Running
  <2> QED
    BY <2>1, <2>2
<1>13. stack' # <<>>
  BY <1>1, EmptySeq
<1> QED
  BY <1>11, <1>12, <1>13

(* The innermost activation returns. *)
LEMMA PopKeeps ==
  ASSUME StackOK, stack # <<>>, stack' = Tail(stack),
         UNCHANGED <<live, type, updatePool, updateID>>
  PROVE  /\ StackOK'
         /\ \A g : Running(g)' => Running(g)
         /\ \A g : Top.pc # "enter" /\ g = Top.gate => ~Running(g)'
<1>1. /\ stack' \in Seq(Frame) /\ Len(stack') = Len(stack) - 1 /\ Len(stack) \in Nat /\ Len(stack) >= 1
      /\ \A k \in 1 .. Len(stack) - 1 : stack'[k] = stack[k + 1]
  BY PopIs DEF StackOK
<1>2. PICK s, n : s = stack' /\ n = Len(stack)
  OBVIOUS
<1>3. \A h : FrameOK(h)' <=> FrameOK(h)
  BY DEF FrameOK, nins
<1>4. \A g : Marked(g) <=> Marked(g)'
  BY DEF Marked
<1>5. \A k \in 1 .. n - 1 : k + 1 \in 1 .. n /\ k + 1 > 1 /\ s[k] = stack[k + 1]
  BY <1>1, <1>2
<1>6. \A k \in 1 .. n - 1 :
        /\ FrameOK(s[k])'
        /\ s[k].pc = "fetch"
        /\ Marked(s[k].gate)'
  BY <1>2, <1>3, <1>4, <1>5 DEF StackOK
<1>7. \A j, k \in 1 .. n - 1 :
         s[j].gate = s[k].gate /\ s[j].pc # "enter" /\ s[k].pc # "enter" => j = k
  <2> SUFFICES ASSUME NEW j \in 1 .. n - 1, NEW k \in 1 .. n - 1, s[j].gate = s[k].gate,
                      s[j].pc # "enter", s[k].pc # "enter"
               PROVE  j = k
    OBVIOUS
  <2>1. j + 1 = k + 1
    BY <1>2, <1>5 DEF StackOK
  <2> QED
    BY <2>1
<1>8. StackOK'
  BY <1>1, <1>2, <1>6, <1>7 DEF StackOK
<1>9. \A g : Running(g)' => Running(g)
  <2> SUFFICES ASSUME NEW g, NEW k \in 1 .. n - 1, s[k].gate = g, s[k].pc # "enter"
               PROVE  Running(g)
    BY <1>1, <1>2 DEF Running
  <2> QED
    BY <1>2, <1>5 DEF Running
<1>10. ASSUME Top.pc # "enter", NEW k \in 1 .. n - 1, s[k].gate = Top.gate
       PROVE  FALSE
  <2>1. stack[1].pc # "enter" /\ stack[1].gate = stack[k + 1].gate /\ 1 \in 1 .. n
    BY <1>1, <1>2, <1>5, <1>10, TopIs
  <2>2. stack[k + 1].pc # "enter"
    BY <1>2, <1>5 DEF StackOK
  <2>3. k + 1 = 1
    BY <1>2, <1>5, <2>1, <2>2 DEF StackOK
  <2> QED
    BY <2>3
<1>11. \A g : Top.pc # "enter" /\ g = Top.gate => ~Running(g)'
  <2> SUFFICES ASSUME NEW g, Top.pc # "enter", g = Top.gate
               PROVE  ~Running(g)'
    OBVIOUS
  <2>1. \A k \in 1 .. n - 1 : s[k].gate # g
    BY <1>10
  <2> QED
    BY <1>1, <1>2, <2>1 DEF Running
<1> QED
  BY <1>8, <1>9, <1>11

-----------------------------------------------------------------------------
(* What a command and the start of a cycle do to the C stack. *)

(* The innermost activation calls one for gate h. *)
LEMMA CallKeeps ==
  ASSUME StackOK, stack # <<>>, Top.pc = "call", NEW h \in live, h \in Gate, nins(h) \in Nat,
         stack' = <<Activation(h), [Top EXCEPT !.pc = "fetch"]>> \o Tail(stack),
         UNCHANGED <<live, type, updatePool, updateID>>
  PROVE  /\ StackOK'
         /\ \A g : Running(g)' => Running(g)
<1> DEFINE a == Activation(h)
           b == [Top EXCEPT !.pc = "fetch"]
<1>1. a \in Frame /\ FrameOK(a) /\ a.pc = "enter"
  BY DEF Activation, NoBuffers, Frame, FrameOK
<1>2. /\ b \in Frame /\ FrameOK(b) /\ b.pc = "fetch" /\ b.gate = Top.gate
      /\ Top = stack[1] /\ Marked(b.gate) /\ stack[1].pc # "enter"
  <2>1. Top \in Frame /\ Top = stack[1] /\ FrameOK(Top) /\ Marked(Top.gate)
    BY TopIs
  <2>2. b \in Frame /\ b.gate = Top.gate /\ b.i = Top.i /\ b.pc = "fetch"
    BY <2>1 DEF Frame
  <2> QED
    BY <2>1, <2>2 DEF FrameOK
<1> HIDE DEF a, b
<1>3. stack' = <<a, b>> \o Tail(stack) /\ stack \in Seq(Frame)
  BY DEF a, b, StackOK
<1>4. PICK s, n, m : s = stack' /\ n = Len(stack) /\ m = Len(s)
  OBVIOUS
<1>5. /\ s \in Seq(Frame) /\ m = n + 1 /\ n \in Nat /\ n >= 1
      /\ s[1] = a /\ s[2] = b
      /\ \A k \in 3 .. n + 1 : s[k] = stack[k - 1]
  BY <1>1, <1>2, <1>3, <1>4, CallIs
<1>6. \A f : FrameOK(f)' <=> FrameOK(f)
  BY DEF FrameOK, nins
<1>7. \A g : Marked(g)' <=> Marked(g)
  BY DEF Marked
<1>8. \A k \in 3 .. n + 1 : k - 1 \in 1 .. n /\ k - 1 > 1 /\ s[k] = stack[k - 1]
  BY <1>5
<1>9. \A k \in 1 .. m : k = 1 \/ k = 2 \/ k \in 3 .. n + 1
  BY <1>5
<1>10. \A k \in 1 .. m :
         /\ FrameOK(s[k])'
         /\ k > 1 => s[k].pc = "fetch"
         /\ s[k].pc # "enter" => Marked(s[k].gate)'
  <2> TAKE k \in 1 .. m
  <2>1. CASE k = 1
    BY <1>1, <1>5, <1>6, <2>1
  <2>2. CASE k = 2
    BY <1>2, <1>5, <1>6, <1>7, <2>2
  <2>3. CASE k \in 3 .. n + 1
    BY <1>4, <1>6, <1>7, <1>8, <2>3 DEF StackOK
  <2> QED
    BY <1>9, <2>1, <2>2, <2>3
(* Where the activations entered before were. *)
<1> DEFINE was(k) == IF k = 2 THEN 1 ELSE k - 1
<1>11. ASSUME NEW k \in 1 .. m, s[k].pc # "enter"
       PROVE  was(k) \in 1 .. n /\ stack[was(k)].gate = s[k].gate /\ stack[was(k)].pc # "enter" /\ k = was(k) + 1
  <2>1. CASE k = 1
    BY <1>1, <1>5, <1>11, <2>1
  <2>2. CASE k = 2
    BY <1>2, <1>5, <2>2
  <2>3. CASE k \in 3 .. n + 1
    BY <1>8, <1>11, <2>3
  <2> QED
    BY <1>9, <2>1, <2>2, <2>3
<1> HIDE DEF was
<1>12. \A j, k \in 1 .. m :
         s[j].gate = s[k].gate /\ s[j].pc # "enter" /\ s[k].pc # "enter" => j = k
  <2> SUFFICES ASSUME NEW j \in 1 .. m, NEW k \in 1 .. m, s[j].gate = s[k].gate,
                      s[j].pc # "enter", s[k].pc # "enter"
               PROVE  j = k
    OBVIOUS
  <2>1. was(j) = was(k)
    <3>1. PICK x, y : x = was(j) /\ y = was(k)
      OBVIOUS
    <3>2. /\ x \in 1 .. Len(stack) /\ y \in 1 .. Len(stack)
          /\ stack[x].gate = stack[y].gate /\ stack[x].pc # "enter" /\ stack[y].pc # "enter"
      BY <1>4, <1>11, <3>1
    <3>3. x = y
      BY <3>2 DEF StackOK
    <3> QED
      BY <3>1, <3>3
  <2>2. j = was(j) + 1 /\ k = was(k) + 1
    BY <1>11
  <2> QED
    BY <2>1, <2>2
<1>13. StackOK'
  BY <1>4, <1>5, <1>10, <1>12 DEF StackOK
<1>14. \A g : Running(g)' => Running(g)
  <2> SUFFICES ASSUME NEW g, NEW k \in 1 .. m, s[k].gate = g, s[k].pc # "enter"
               PROVE  Running(g)
    BY <1>4, <1>5 DEF Running
  <2>1. PICK x : x = was(k)
    OBVIOUS
  <2>2. x \in 1 .. Len(stack) /\ stack[x].gate = g /\ stack[x].pc # "enter"
    BY <1>4, <1>11, <2>1
  <2> QED
    BY <2>2 DEF Running
<1> QED
  BY <1>13, <1>14

(* What a command does that the walk could notice. *)
LEMMA CommandLeaves ==
  ASSUME GraphInv, GraphNext
  PROVE  live \subseteq live' /\ output' = output /\ \A g \in live : type'[g] = type[g]
<1>0. type \in [Gate -> DOMAIN Nins \cup {NULL}] /\ live \subseteq Gate
  BY DEF GraphInv, GraphTypeOK
<1>1. ASSUME NEW t \in Type, NEW m \in Name, GateAdd(t, m)
      PROVE  live \subseteq live' /\ output' = output /\ \A g \in live : type'[g] = type[g]
  <2>1. PICK g \in Gate \ live : live' = live \cup {g} /\ type' = [type EXCEPT ![g] = t]
    BY <1>1 DEF GateAdd
  <2> QED
    BY <1>0, <1>1, <2>1 DEF GateAdd
<1> QED
  BY <1>1 DEF GraphNext, GateAddRefused, GateConnect, GateDisconnect, NoSuchGate, Connects, Ignored

LEMMA CommandKeeps ==
  ASSUME GraphInv, StackOK, GraphNext, UNCHANGED <<stack, updateID, updatePool>>
  PROVE  StackOK' /\ \A g : Running(g)' <=> Running(g)
<1>1. live \subseteq live' /\ \A g \in live : type'[g] = type[g]
  BY CommandLeaves
<1>2. ASSUME NEW f, FrameOK(f)
      PROVE  FrameOK(f)'
  BY <1>1, <1>2 DEF FrameOK, nins
<1>3. \A g : Marked(g)' <=> Marked(g)
  BY DEF Marked
<1>4. PICK s : s = stack
  OBVIOUS
<1>5. \A k \in 1 .. Len(s) :
        FrameOK(s[k])' /\ (k > 1 => s[k].pc = "fetch") /\ (s[k].pc # "enter" => Marked(s[k].gate)')
  BY <1>2, <1>3, <1>4 DEF StackOK
<1>6. s = stack' /\ s \in Seq(Frame)
      /\ \A j, k \in 1 .. Len(s) :
           s[j].gate = s[k].gate /\ s[j].pc # "enter" /\ s[k].pc # "enter" => j = k
  BY <1>4 DEF StackOK
<1>7. StackOK'
  BY <1>5, <1>6 DEF StackOK
<1>8. \A g : Running(g)' <=> Running(g)
  <2> TAKE g
  <2>1. Running(g) <=> \E k \in 1 .. Len(s) : s[k].gate = g /\ s[k].pc # "enter"
    BY <1>4 DEF Running
  <2>2. Running(g)' <=> \E k \in 1 .. Len(s) : s[k].gate = g /\ s[k].pc # "enter"
    BY <1>6 DEF Running
  <2> QED
    BY <2>1, <2>2
<1> QED
  BY <1>7, <1>8

LEMMA StartKeeps ==
  ASSUME GraphInv, StackOK, StartCycle
  PROVE  StackOK' /\ \A g : ~Running(g)'
<1>1. output \in live /\ output \in Gate /\ nins(output) \in Nat
  BY GateTypes
<1> DEFINE a == Activation(output)
<1>2. a \in Frame /\ FrameOK(a) /\ a.pc = "enter"
  BY <1>1 DEF Activation, NoBuffers, Frame, FrameOK
<1> HIDE DEF a
<1>3. PICK s : s = <<a>>
  OBVIOUS
<1>4. s \in Seq(Frame) /\ Len(s) = 1 /\ s[1] = a
  BY <1>2, <1>3
<1>5. stack' = s /\ live' = live /\ type' = type
  BY <1>3 DEF StartCycle, graphVars, a
<1>6. \A f : FrameOK(f)' <=> FrameOK(f)
  BY <1>5 DEF FrameOK, nins
<1>7. \A k \in 1 .. 1 : FrameOK(s[k])' /\ k = 1 /\ s[k].pc = "enter"
  BY <1>2, <1>4, <1>6
<1>8. StackOK'
  <2>1. /\ s = stack' /\ 1 .. 1 = 1 .. Len(s)
        /\ \A j, k \in 1 .. 1 : j = k
    BY <1>4, <1>5
  <2>2. \A k \in 1 .. Len(s) : FrameOK(s[k])' /\ ~(k > 1) /\ s[k].pc = "enter"
    BY <1>7, <2>1
  <2>3. \A j, k \in 1 .. Len(s) : j = k
    BY <2>1
  <2> QED
    BY <1>4, <2>1, <2>2, <2>3 DEF StackOK
<1>9. \A g : ~Running(g)'
  BY <1>4, <1>5, <1>7 DEF Running
<1> QED
  BY <1>8, <1>9

(* Nothing comes out of onUpdate that was not in the INs, the buffer or    *)
(* the gate's own data, but the gate itself.                               *)
LEMMA OutcomeWithin ==
  ASSUME NEW g, NEW ins, NEW heard, NEW own, NEW old, NEW R, g \in R, own \subseteq R,
         old \subseteq R, \A i \in Slot : Heard(ins, heard, i) \subseteq R,
         0 \in Slot, Kind[type[g]] = "wave" => 2 \in Slot,
         Kind[type[g]] \in {"source", "mixer", "through", "glider", "wave"},
         NEW o \in Outcomes(g, ins, heard, own, old)
  PROVE  o.block \subseteq R /\ o.kept \subseteq R
<1>1. CASE Kind[type[g]] = "source"
  BY <1>1 DEF Outcomes, Outcome
<1>2. CASE Kind[type[g]] = "mixer"
  <2>1. Mixer(ins, heard) \subseteq R
    BY DEF Mixer
  <2> QED
    BY <1>2, <2>1 DEF Outcomes, Outcome
<1>3. CASE Kind[type[g]] = "through"
  <2>1. Through(ins, heard, own) \subseteq R
    BY DEF Through
  <2> QED
    BY <1>3, <2>1 DEF Outcomes, Outcome
<1>4. CASE Kind[type[g]] = "glider"
  <2>1. PICK in : in = Heard(ins, heard, 0) /\ in \subseteq R
    OBVIOUS
  <2>2. o \in {Outcome(own, old)} \cup {Outcome(in \cup old, data) : data \in {in, in \cup old}}
    BY <1>4, <2>1 DEF Outcomes, Glider
  <2> QED
    BY <2>1, <2>2 DEF Outcome
<1>5. CASE Kind[type[g]] = "wave"
  <2>1. PICK new : new = Pitch(g, ins, heard, old) /\ new \subseteq R
    BY DEF Pitch
  <2>2. PICK t \in Tuned(g, ins, heard, own, old) :
          o = [t EXCEPT !.block = Scaled(g, ins, heard, @)]
    BY <1>5 DEF Outcomes, Wave
  <2>3. t \in {Outcome(own, old), Outcome(new, new), Outcome(old \cup new, new),
               Outcome(old, new), Outcome(old, old)}
    BY <2>1, <2>2 DEF Tuned
  <2>4. t \in [block : SUBSET R, kept : SUBSET R]
    BY <2>1, <2>3 DEF Outcome
  <2>5. Scaled(g, ins, heard, t.block) \subseteq R
    BY <1>5, <2>4 DEF Scaled
  <2> QED
    BY <2>2, <2>4, <2>5
<1> QED
  BY <1>1, <1>2, <1>3, <1>4, <1>5

(* The slots that onUpdate reads are there. *)
LEMMA SlotsAre ==
  ASSUME GraphInv, NEW g \in live
  PROVE  /\ g \in Gate /\ 0 \in Slot
         /\ Kind[type[g]] \in {"source", "mixer", "through", "glider", "wave"}
         /\ Kind[type[g]] = "wave" => 2 \in Slot
<1>1. g \in Gate /\ 0 \in Slot
  BY GateTypes, GraphAssumption DEF Slot
<1>2. type[g] \in DOMAIN Nins /\ nins(g) \in 0 .. MaxCx /\ MaxCx \in Nat
  BY GateTypes DEF GraphInv, GraphTypeOK
<1>3. Kind[type[g]] \in {"source", "mixer", "through", "glider", "wave"}
  BY <1>2, RunAssumption
<1>4. Kind[type[g]] = "wave" => nins(g) = 3
  BY <1>2, RunAssumption DEF nins
<1>5. Kind[type[g]] = "wave" => 2 \in Slot
  BY <1>2, <1>4 DEF Slot
<1> QED
  BY <1>1, <1>3, <1>5

-----------------------------------------------------------------------------
(* One lemma per action. *)

LEMMA BoundsAre ==
  /\ IdMod \in Nat \ {0} /\ FirstId \in 0 .. IdMod - 1
  /\ MaxCycles \in Nat /\ MaxCommands \in Nat
BY RunAssumption

(* An activation whose loop goes on to the next IN. *)
GoneOn(f, j, b) == [f EXCEPT !.ins = [@ EXCEPT ![j] = b], !.i = @ + 1]
Fetched(f, j, b) == [f EXCEPT !.ins = [@ EXCEPT ![j] = b], !.i = @ + 1, !.pc = "test"]

LEMMA GoneOnIs ==
  ASSUME NEW f \in Frame, NEW j \in Slot, NEW b \in Pointer \cup {NULL}
  PROVE  /\ GoneOn(f, j, b) \in Frame /\ GoneOn(f, j, b).gate = f.gate
         /\ GoneOn(f, j, b).i = f.i + 1 /\ GoneOn(f, j, b).pc = f.pc
         /\ GoneOn(f, j, b).ins = [f.ins EXCEPT ![j] = b]
<1>1. [f.ins EXCEPT ![j] = b] \in [Slot -> Pointer \cup {NULL}]
  BY DEF Frame
<1>2. PICK c, m, e : c = [f.ins EXCEPT ![j] = b] /\ m = f.i + 1 /\ e = GoneOn(f, j, b)
  OBVIOUS
<1>3. c \in [Slot -> Pointer \cup {NULL}] /\ m \in Nat
  BY <1>1, <1>2 DEF Frame
<1>4. e = [f EXCEPT !.ins = c, !.i = m]
  BY <1>2 DEF Frame, GoneOn
<1>5. e \in Frame /\ e.gate = f.gate /\ e.i = m /\ e.pc = f.pc /\ e.ins = c
  BY <1>3, <1>4 DEF Frame
<1> QED
  BY <1>2, <1>5

LEMMA FetchedIs ==
  ASSUME NEW f \in Frame, NEW j \in Slot, NEW b \in Pointer \cup {NULL}
  PROVE  /\ Fetched(f, j, b) \in Frame /\ Fetched(f, j, b).gate = f.gate
         /\ Fetched(f, j, b).i = f.i + 1 /\ Fetched(f, j, b).pc = "test"
         /\ Fetched(f, j, b).ins = [f.ins EXCEPT ![j] = b]
<1>1. [f.ins EXCEPT ![j] = b] \in [Slot -> Pointer \cup {NULL}]
  BY DEF Frame
<1>2. PICK c, m, e : c = [f.ins EXCEPT ![j] = b] /\ m = f.i + 1 /\ e = Fetched(f, j, b)
  OBVIOUS
<1>3. c \in [Slot -> Pointer \cup {NULL}] /\ m \in Nat
  BY <1>1, <1>2 DEF Frame
<1>4. e = [f EXCEPT !.ins = c, !.i = m, !.pc = "test"]
  BY <1>2 DEF Frame, Fetched
<1>5. e \in Frame /\ e.gate = f.gate /\ e.i = m /\ e.pc = "test" /\ e.ins = c
  BY <1>3, <1>4 DEF Frame
<1> QED
  BY <1>2, <1>5

(* Steps that compute no block and start no cycle. *)
LEMMA CountsKept ==
  ASSUME CountsOK, UNCHANGED <<updateID, updatePool, sampleTick, buffer, cycles, cycling>>,
         \A g : Running(g)' => Running(g), stack' # <<>> => cycling
  PROVE  CountsOK'
<1>1. \A g : Marked(g)' <=> Marked(g)
  BY DEF Marked
<1> QED
  BY <1>1 DEF CountsOK

LEMMA SameStack ==
  ASSUME StackOK, UNCHANGED <<stack, live, type, updatePool, updateID>>
  PROVE  StackOK' /\ \A g : Running(g)' <=> Running(g)
<1>1. \A f : FrameOK(f)' <=> FrameOK(f)
  BY DEF FrameOK, nins
<1>2. \A g : Marked(g)' <=> Marked(g)
  BY DEF Marked
<1>3. PICK s : s = stack
  OBVIOUS
<1>4. \A k \in 1 .. Len(s) :
        FrameOK(s[k])' /\ (k > 1 => s[k].pc = "fetch") /\ (s[k].pc # "enter" => Marked(s[k].gate)')
  BY <1>1, <1>2, <1>3 DEF StackOK
<1>5. s = stack' /\ s \in Seq(Frame)
      /\ \A j, k \in 1 .. Len(s) :
           s[j].gate = s[k].gate /\ s[j].pc # "enter" /\ s[k].pc # "enter" => j = k
  BY <1>3 DEF StackOK
<1>6. StackOK'
  BY <1>4, <1>5 DEF StackOK
<1>7. \A g : Running(g)' <=> Running(g)
  <2> TAKE g
  <2>1. Running(g) <=> \E k \in 1 .. Len(s) : s[k].gate = g /\ s[k].pc # "enter"
    BY <1>3 DEF Running
  <2>2. Running(g)' <=> \E k \in 1 .. Len(s) : s[k].gate = g /\ s[k].pc # "enter"
    BY <1>5 DEF Running
  <2> QED
    BY <2>1, <2>2
<1> QED
  BY <1>6, <1>7

(* A gate that has been entered and not returned from is running. *)
LEMMA TopRuns ==
  ASSUME StackOK, stack # <<>>, Top.pc # "enter"
  PROVE  Running(Top.gate) /\ Marked(Top.gate) /\ Top.gate \in live
<1>1. Top = stack[1] /\ 1 \in 1 .. Len(stack) /\ FrameOK(Top) /\ Marked(Top.gate)
  BY TopIs
<1> QED
  BY <1>1 DEF Running, FrameOK

LEMMA StartCycleKeeps ==
  ASSUME RunInv, StartCycle
  PROVE  StackOK' /\ CountsOK' /\ ValuesOK'
<1>1. StackOK' /\ \A g : ~Running(g)'
  BY StartKeeps DEF RunInv
<1>2. CountsOK'
  <2>1. /\ cycles' = cycles + 1 /\ cycles < MaxCycles /\ cycling' = TRUE
        /\ sampleTick' = sampleTick /\ buffer' = buffer
    BY DEF StartCycle
  <2>2. cycles \in Nat /\ MaxCycles \in Nat /\ cycles' \in 0 .. MaxCycles
    BY <2>1, RunAssumption DEF RunInv, CountsOK
  <2>3. \A g \in Gate : sampleTick[g] < cycles' /\ buffer[g] < cycles'
    BY <2>1, <2>2 DEF RunInv, CountsOK
  <2>4. \A g \in Gate : sampleTick[g] \in Nat /\ buffer[g] \in Nat
    BY DEF RunInv, CountsOK
  <2>5. \A g \in Gate : sampleTick[g] <= cycles' /\ buffer[g] <= cycles'
    BY <2>2, <2>3, <2>4
  <2> QED
    BY <2>1, <2>2, <2>3, <2>5 DEF RunInv, CountsOK
<1>3. ValuesOK'
  <2>1. updatePool' \in 0 .. IdMod - 1
    <3> DEFINE p == updatePool + 1
    <3>1. updatePool' = p % IdMod
      BY DEF StartCycle
    <3>2. updatePool \in Nat /\ IdMod \in Nat \ {0}
      <4>1. updatePool \in 0 .. IdMod - 1
        BY DEF RunInv, ValuesOK
      <4> QED
        BY <4>1, BoundsAre
    <3>3. p \in Nat
      BY <3>2
    <3> HIDE DEF p
    <3>4. p % IdMod \in 0 .. IdMod - 1
      BY <3>2, <3>3
    <3> QED
      BY <3>1, <3>4
  <2>2. isActive' \in [Gate -> BOOLEAN] /\ iterIsEnd' \in BOOLEAN
    BY DEF StartCycle, ResetIsActive, RunInv, ValuesOK
  <2> QED
    BY <2>1, <2>2 DEF StartCycle, RunInv, ValuesOK
<1> QED
  BY <1>1, <1>2, <1>3

LEMMA FinishCycleKeeps ==
  ASSUME RunInv, FinishCycle
  PROVE  StackOK' /\ CountsOK' /\ ValuesOK'
<1>1. StackOK' /\ \A g : Running(g)' <=> Running(g)
  BY SameStack DEF RunInv, FinishCycle, graphVars, gateVars
<1>2. CountsOK'
  BY DEF RunInv, CountsOK, FinishCycle, gateVars
<1>3. ValuesOK'
  <2>1. signal[output] \in SUBSET Gate
    BY GateTypes DEF RunInv, ValuesOK
  <2> QED
    BY <2>1 DEF FinishCycle, RunInv, ValuesOK, gateVars
<1> QED
  BY <1>1, <1>2, <1>3

LEMMA EnterAgainKeeps ==
  ASSUME RunInv, EnterAgain
  PROVE  StackOK' /\ CountsOK' /\ ValuesOK'
<1>1. /\ stack # <<>> /\ stack' = Tail(stack)
      /\ UNCHANGED <<graphVars, gateVars, updatePool, cycling, iterIsEnd, keptBefore, samplesOut, fault,
                     cycles, commands>>
  BY DEF EnterAgain, At
<1>2. StackOK' /\ \A g : Running(g)' => Running(g)
  BY <1>1, PopKeeps DEF RunInv, graphVars, gateVars
<1>3. stack' # <<>> => cycling
  BY <1>1 DEF RunInv, CountsOK
<1>4. CountsOK'
  BY <1>1, <1>2, <1>3, CountsKept DEF RunInv, gateVars
<1>5. ValuesOK'
  BY <1>1 DEF RunInv, ValuesOK, gateVars
<1> QED
  BY <1>2, <1>4, <1>5

LEMMA EnterKeeps ==
  ASSUME RunInv, Enter
  PROVE  StackOK' /\ CountsOK' /\ ValuesOK'
<1>0. StackOK /\ CountsOK /\ ValuesOK /\ GraphInv
  BY DEF RunInv
<1>1. stack # <<>> /\ Top.pc = "enter" /\ ~Marked(Top.gate)
  BY DEF Enter, At, Marked
<1>2. PICK g, f : g = Top.gate /\ f = [Top EXCEPT !.pc = "test"]
  OBVIOUS
<1>3. Top \in Frame /\ FrameOK(Top) /\ g \in live /\ g \in Gate
  BY <1>0, <1>1, <1>2, TopIs, GateTypes DEF FrameOK
<1>4. f \in Frame /\ f.gate = g /\ f.pc = "test" /\ f.i = Top.i
  BY <1>2, <1>3 DEF Frame
<1>5. FrameOK(f)
  BY <1>2, <1>3, <1>4 DEF FrameOK
<1>6. /\ Continue(f)
      /\ updateID' = [updateID EXCEPT ![g] = updatePool]
      /\ \/ buffer' = [buffer EXCEPT ![g] = @ + 1] /\ signal' = [signal EXCEPT ![g] = {}]
         \/ UNCHANGED <<buffer, signal>>
      /\ UNCHANGED <<graphVars, sampleTick, isActive, kept, updatePool, cycling, iterIsEnd,
                     keptBefore, samplesOut, fault, cycles, commands>>
  BY <1>2 DEF Enter
<1>7. updateID'[g] = updatePool /\ \A h \in Gate : h # g => updateID'[h] = updateID[h]
  BY <1>0, <1>3, <1>6 DEF ValuesOK
<1>8. StackOK' /\ stack' # <<>> /\ \A h : Running(h)' => Running(h) \/ h = g
  <2>1. \A h \in Gate : Marked(h) => updateID'[h] = updatePool
    BY <1>7 DEF Marked
  <2>2. UNCHANGED <<live, type, updatePool>>
    BY <1>6 DEF graphVars
  <2>3. Top.pc = "enter" => ~Marked(f.gate)
    BY <1>1, <1>2, <1>4
  <2> QED
    BY <1>0, <1>1, <1>2, <1>4, <1>5, <1>6, <1>7, <2>1, <2>2, <2>3, ContinueKeeps
<1>9. CountsOK'
  <2>1. cycling /\ cycling' /\ cycles' = cycles /\ sampleTick' = sampleTick /\ cycles \in Nat
    BY <1>0, <1>1, <1>6, RunAssumption DEF CountsOK
  <2>2. ~Marked(g)
    BY <1>1, <1>2
  <2>3. sampleTick[g] < cycles /\ buffer[g] < cycles
    BY <1>0, <1>3, <2>1, <2>2 DEF CountsOK
  <2>4. \A h \in Gate : ~Marked(h)' => h # g /\ ~Marked(h)
    BY <1>6, <1>7 DEF Marked
  <2>5. \A h \in Gate : sampleTick[h] \in Nat /\ buffer[h] \in Nat
    BY <1>0 DEF CountsOK
  <2>6. /\ buffer' \in [Gate -> Nat] /\ buffer'[g] <= cycles
        /\ \A h \in Gate : h # g => buffer'[h] = buffer[h]
    BY <1>0, <1>3, <1>6, <2>1, <2>3, <2>5 DEF CountsOK
  <2>7. \A h \in Gate : buffer'[h] <= cycles /\ (~Marked(h)' => buffer'[h] < cycles)
    BY <1>0, <2>1, <2>4, <2>6 DEF CountsOK
  <2>8. \A h \in Gate : ~Marked(h)' \/ Running(h)' => sampleTick[h] < cycles
    BY <1>0, <1>8, <2>1, <2>3, <2>4 DEF CountsOK
  <2> QED
    BY <1>0, <2>1, <2>6, <2>7, <2>8 DEF CountsOK
<1>10. ValuesOK'
  <2>1. updateID' \in [Gate -> 0 .. IdMod - 1] /\ signal' \in [Gate -> SUBSET Gate]
    BY <1>0, <1>6 DEF ValuesOK
  <2> QED
    BY <1>0, <1>6, <2>1 DEF ValuesOK
<1> QED
  BY <1>8, <1>9, <1>10

(* The loop goes on within an activation that was entered before. *)
LEMMA GoOnKeeps ==
  ASSUME RunInv, stack # <<>>, Top.pc # "enter", NEW f \in Frame, FrameOK(f), Continue(f),
         f.gate = Top.gate, f.pc # "enter",
         UNCHANGED <<graphVars, gateVars, updatePool, cycling, iterIsEnd, keptBefore, samplesOut,
                     fault, cycles, commands>>
  PROVE  StackOK' /\ CountsOK' /\ ValuesOK'
<1>0. StackOK /\ CountsOK /\ ValuesOK
  BY DEF RunInv
<1>1. Running(Top.gate) /\ Marked(Top.gate)
  BY <1>0, TopRuns
<1>2. UNCHANGED <<live, type, updatePool>> /\ updateID' = updateID
  BY DEF graphVars, gateVars
<1>3. updateID'[f.gate] = updatePool /\ \A g \in Gate : Marked(g) => updateID'[g] = updatePool
  BY <1>1, <1>2 DEF Marked
<1>4. StackOK' /\ stack' # <<>> /\ \A g : Running(g)' => Running(g) \/ g = f.gate
  BY <1>0, <1>2, <1>3, ContinueKeeps
<1>5. \A g : Running(g)' => Running(g)
  BY <1>1, <1>4
<1>6. CountsOK'
  <2>1. cycling
    BY <1>0 DEF CountsOK
  <2> QED
    BY <1>0, <1>5, <2>1, CountsKept DEF gateVars
<1>7. ValuesOK'
  BY <1>0 DEF ValuesOK, gateVars
<1> QED
  BY <1>4, <1>6, <1>7

LEMMA TopSlot ==
  ASSUME RunInv, stack # <<>>, Top.i < nins(Top.gate)
  PROVE  Top.i \in Slot
<1>1. Top \in Frame /\ Top.gate \in live
  BY TopIs DEF RunInv, FrameOK
<1>2. nins(Top.gate) \in 0 .. MaxCx /\ MaxCx \in Nat /\ Top.i \in Nat
  BY <1>1, GateTypes DEF RunInv, Frame
<1> QED
  BY <1>2 DEF Slot

LEMMA TestInKeeps ==
  ASSUME RunInv, TestIn
  PROVE  StackOK' /\ CountsOK' /\ ValuesOK'
<1>1. stack # <<>> /\ Top.pc = "test" /\ Top.i < nins(Top.gate)
  BY DEF TestIn, At
<1>2. Top \in Frame /\ FrameOK(Top) /\ Top.gate \in live /\ Top.i \in Nat /\ Top.i \in Slot
  BY <1>1, TopIs, TopSlot DEF RunInv, FrameOK, Frame
<1>3. nins(Top.gate) \in Nat
  BY <1>2, GateTypes DEF RunInv
<1>4. PICK f, h, j, b : /\ f = [Top EXCEPT !.pc = "call"] /\ j = Top.i /\ b = NULL
                        /\ h = [Top EXCEPT !.ins = [@ EXCEPT ![j] = b], !.i = @ + 1]
  OBVIOUS
<1>5. /\ f \in Frame /\ f.gate = Top.gate /\ f.pc = "call" /\ f.i = Top.i
      /\ h \in Frame /\ h.gate = Top.gate /\ h.pc = "test" /\ h.i = Top.i + 1
  <2>1. f \in Frame /\ f.gate = Top.gate /\ f.pc = "call" /\ f.i = Top.i
    BY <1>2, <1>4 DEF Frame
  <2>2. PICK e : e = Top
    OBVIOUS
  <2>3. e \in Frame /\ e.pc = "test" /\ j \in Slot /\ b \in Pointer \cup {NULL}
        /\ h = GoneOn(e, j, b)
    BY <1>1, <1>2, <1>4, <2>2 DEF GoneOn
  <2>4. h \in Frame /\ h.gate = e.gate /\ h.pc = "test" /\ h.i = e.i + 1
    BY <2>3, GoneOnIs
  <2> QED
    BY <2>1, <2>2, <2>4
<1>6. FrameOK(f) /\ FrameOK(h)
  BY <1>1, <1>2, <1>3, <1>5 DEF FrameOK
<1>7. Continue(f) \/ Continue(h)
  BY <1>4 DEF TestIn
<1>8. UNCHANGED <<graphVars, gateVars, updatePool, cycling, iterIsEnd, keptBefore, samplesOut, fault,
                  cycles, commands>>
  BY DEF TestIn
<1>9. f.pc # "enter" /\ h.pc # "enter" /\ Top.pc # "enter"
  BY <1>1, <1>5
<1> QED
  BY <1>1, <1>5, <1>6, <1>7, <1>8, <1>9, GoOnKeeps

(* A fault leaves all as it is. *)
LEMMA CrashKeeps ==
  ASSUME RunInv, NEW what \in {"null", "freed"}, Crash(what),
         UNCHANGED <<graphVars, gateVars, updatePool, iterIsEnd, keptBefore, cycles, commands>>
  PROVE  StackOK' /\ CountsOK' /\ ValuesOK'
<1>0. StackOK /\ CountsOK /\ ValuesOK
  BY DEF RunInv
<1>1. fault' = what /\ UNCHANGED <<stack, cycling, samplesOut>>
  BY DEF Crash
<1>2. StackOK' /\ \A g : Running(g)' <=> Running(g)
  BY <1>0, <1>1, SameStack DEF graphVars, gateVars
<1>3. CountsOK'
  BY <1>0, <1>1, <1>2, CountsKept DEF gateVars, CountsOK
<1>4. ValuesOK'
  BY <1>0, <1>1 DEF ValuesOK, gateVars
<1> QED
  BY <1>2, <1>3, <1>4

LEMMA CallInKeeps ==
  ASSUME RunInv, CallIn
  PROVE  StackOK' /\ CountsOK' /\ ValuesOK'
<1>0. StackOK /\ CountsOK /\ ValuesOK /\ GraphInv
  BY DEF RunInv
<1>1. /\ stack # <<>> /\ Top.pc = "call"
      /\ UNCHANGED <<graphVars, gateVars, updatePool, iterIsEnd, keptBefore, cycles, commands>>
  BY DEF CallIn, At
<1>2. PICK h : h = inrefs[Top.gate][Top.i]
  OBVIOUS
<1>3. CASE h = NULL
  BY <1>1, <1>2, <1>3, CrashKeeps DEF CallIn
<1>4. CASE h # NULL
  <2>1. /\ stack' = <<Activation(h), [Top EXCEPT !.pc = "fetch"]>> \o Tail(stack)
        /\ UNCHANGED <<cycling, samplesOut, fault>>
    BY <1>2, <1>4 DEF CallIn
  <2>2. Top.gate \in live /\ Top.i < nins(Top.gate)
    BY <1>0, <1>1, TopIs DEF FrameOK
  <2>3. Top.i \in Slot
    BY <1>1, <2>2, TopSlot
  <2>4. h \in live /\ h \in Gate /\ nins(h) \in Nat
    BY <1>0, <1>2, <1>4, <2>2, <2>3, GateTypes
  <2>5. StackOK' /\ \A g : Running(g)' => Running(g)
    BY <1>0, <1>1, <2>1, <2>4, CallKeeps DEF graphVars, gateVars
  <2>6. CountsOK'
    <3>1. cycling
      BY <1>0, <1>1 DEF CountsOK
    <3> QED
      BY <1>0, <1>1, <2>1, <2>5, <3>1, CountsKept DEF gateVars
  <2>7. ValuesOK'
    BY <1>0, <1>1, <2>1 DEF ValuesOK, gateVars
  <2> QED
    BY <2>5, <2>6, <2>7
<1> QED
  BY <1>3, <1>4

LEMMA BufferIs ==
  ASSUME CountsOK, NEW h \in Gate
  PROVE  BufferOf(h) \in Pointer \cup {NULL}
<1>1. buffer[h] \in Nat /\ buffer[h] <= cycles /\ cycles \in 0 .. MaxCycles /\ MaxCycles \in Nat
  BY RunAssumption DEF CountsOK
<1>2. buffer[h] # 0 => buffer[h] \in 1 .. MaxCycles
  BY <1>1
<1> QED
  BY <1>2 DEF BufferOf, Pointer

LEMMA FetchInKeeps ==
  ASSUME RunInv, FetchIn
  PROVE  StackOK' /\ CountsOK' /\ ValuesOK'
<1>0. StackOK /\ CountsOK /\ ValuesOK /\ GraphInv
  BY DEF RunInv
<1>1. /\ stack # <<>> /\ Top.pc = "fetch"
      /\ UNCHANGED <<graphVars, gateVars, updatePool, iterIsEnd, keptBefore, cycles, commands>>
  BY DEF FetchIn, At
<1>2. PICK h : h = inrefs[Top.gate][Top.i]
  OBVIOUS
<1>3. CASE h = NULL
  BY <1>1, <1>2, <1>3, CrashKeeps DEF FetchIn
<1>4. CASE h # NULL
  <2>1. /\ Top \in Frame /\ Top.gate \in live /\ Top.i \in Nat /\ Top.i < nins(Top.gate)
    BY <1>0, <1>1, TopIs DEF FrameOK, Frame
  <2>2. Top.i \in Slot /\ nins(Top.gate) \in Nat
    BY <1>0, <1>1, <2>1, TopSlot, GateTypes
  <2>3. h \in Gate
    BY <1>0, <1>2, <1>4, <2>1, <2>2, GateTypes
  <2>4. BufferOf(h) \in Pointer \cup {NULL}
    BY <1>0, <2>3, BufferIs
  <2>5. PICK f, e, j, b : /\ e = Top /\ j = Top.i /\ b = BufferOf(h)
                          /\ f = Fetched(e, j, b)
    OBVIOUS
  <2>6. f \in Frame /\ f.gate = Top.gate /\ f.pc = "test" /\ f.i = Top.i + 1
    <3>1. e \in Frame /\ j \in Slot /\ b \in Pointer \cup {NULL} /\ f = Fetched(e, j, b)
      BY <2>1, <2>2, <2>4, <2>5
    <3>2. f \in Frame /\ f.gate = e.gate /\ f.pc = "test" /\ f.i = e.i + 1
      BY <3>1, FetchedIs
    <3> QED
      BY <2>5, <3>2
  <2>7. FrameOK(f)
    BY <2>1, <2>2, <2>6 DEF FrameOK
  <2>8. Continue(f) /\ UNCHANGED <<cycling, samplesOut, fault>>
    BY <1>2, <1>4, <2>5 DEF FetchIn, Fetched
  <2>9. f.pc # "enter" /\ Top.pc # "enter"
    BY <1>1, <2>6
  <2> QED
    BY <1>1, <2>6, <2>7, <2>8, <2>9, GoOnKeeps
<1> QED
  BY <1>3, <1>4

LEMMA UpdateKeeps ==
  ASSUME RunInv, Update
  PROVE  StackOK' /\ CountsOK' /\ ValuesOK'
<1>0. StackOK /\ CountsOK /\ ValuesOK /\ GraphInv
  BY DEF RunInv
<1>1. /\ stack # <<>> /\ Top.pc = "test" /\ Top.pc # "enter"
      /\ UNCHANGED <<graphVars, updatePool, iterIsEnd, keptBefore, cycles, commands>>
  BY DEF Update, At
<1>2. PICK g, what : g = Top.gate /\ what = Faulty(Kind[type[g]], Top.ins)
  OBVIOUS
<1>3. CASE what # ""
  <2>1. Crash(what) /\ UNCHANGED gateVars
    BY <1>2, <1>3 DEF Update
  <2>2. what \in {"null", "freed"}
    BY <1>2, <1>3 DEF Faulty
  <2> QED
    BY <1>1, <2>1, <2>2, CrashKeeps
<1>4. CASE what = ""
  <2>1. PICK o \in Outcomes(g, Gathered, signal, signal[g], kept[g]) :
        /\ signal' = [signal EXCEPT ![g] = o.block]
        /\ kept' = [kept EXCEPT ![g] = o.kept]
        /\ isActive' = [isActive EXCEPT ![g] = TRUE]
        /\ sampleTick' = [sampleTick EXCEPT ![g] = @ + 1]
        /\ stack' = Tail(stack)
        /\ UNCHANGED <<updateID, buffer, cycling, samplesOut, fault>>
    BY <1>2, <1>4 DEF Update
  <2>2. Running(g) /\ g \in live /\ g \in Gate /\ Top \in Frame
    BY <1>0, <1>1, <1>2, TopRuns, TopIs, GateTypes
  <2>3. StackOK' /\ (\A h : Running(h)' => Running(h)) /\ ~Running(g)'
    BY <1>0, <1>1, <1>2, <2>1, PopKeeps DEF graphVars
  <2>4. CountsOK'
    <3>1. cycling /\ cycling' /\ cycles' = cycles /\ cycles \in Nat
      BY <1>0, <1>1, <2>1, RunAssumption DEF CountsOK
    <3>2. sampleTick[g] < cycles /\ Marked(g)
      BY <1>0, <1>1, <1>2, <2>2, <3>1, TopRuns DEF CountsOK
    <3>3. \A h \in Gate : Marked(h)' <=> Marked(h)
      BY <1>1, <2>1 DEF Marked
    <3>4. \A h \in Gate : sampleTick[h] \in Nat
      BY <1>0 DEF CountsOK
    <3>5. /\ sampleTick' \in [Gate -> Nat] /\ sampleTick'[g] <= cycles
          /\ \A h \in Gate : h # g => sampleTick'[h] = sampleTick[h]
      BY <1>0, <2>1, <2>2, <3>1, <3>2, <3>4 DEF CountsOK
    <3>6. \A h \in Gate : sampleTick'[h] <= cycles
      BY <1>0, <3>5 DEF CountsOK
    <3>7. \A h \in Gate : ~Marked(h)' \/ Running(h)' => sampleTick'[h] < cycles
      BY <1>0, <2>3, <3>1, <3>2, <3>3, <3>5 DEF CountsOK
    <3> QED
      BY <1>0, <2>1, <3>1, <3>3, <3>5, <3>6, <3>7 DEF CountsOK
  <2>5. ValuesOK'
    <3>1. Gathered \in [Slot -> Gate \cup {NULL}]
      BY <2>2 DEF Gathered, Frame, Pointer
    <3>2. o.block \subseteq Gate /\ o.kept \subseteq Gate
      <4>1. /\ signal[g] \subseteq Gate /\ kept[g] \subseteq Gate
            /\ \A i \in Slot : Heard(Gathered, signal, i) \subseteq Gate
        BY <1>0, <2>2, <3>1 DEF ValuesOK, Heard
      <4>2. GraphInv
        BY DEF RunInv
      <4> QED
        BY <2>1, <2>2, <4>1, <4>2, SlotsAre, OutcomeWithin
    <3>3. /\ signal' \in [Gate -> SUBSET Gate] /\ kept' \in [Gate -> SUBSET Gate]
          /\ isActive' \in [Gate -> BOOLEAN]
      BY <1>0, <2>1, <2>2, <3>2 DEF ValuesOK
    <3> QED
      BY <1>0, <1>1, <2>1, <3>3 DEF ValuesOK
  <2> QED
    BY <2>3, <2>4, <2>5
<1> QED
  BY <1>3, <1>4

LEMMA CommandStepKeeps ==
  ASSUME RunInv, Command
  PROVE  StackOK' /\ CountsOK' /\ ValuesOK'
<1>0. StackOK /\ CountsOK /\ ValuesOK /\ GraphInv
  BY DEF RunInv
<1>1. /\ GraphNext /\ commands' = commands + 1 /\ commands < MaxCommands
      /\ UNCHANGED <<gateVars, cycleVars>>
  BY DEF Command
<1>2. StackOK' /\ \A g : Running(g)' <=> Running(g)
  BY <1>0, <1>1, CommandKeeps DEF gateVars, cycleVars
<1>3. CountsOK'
  BY <1>0, <1>1, <1>2, CountsKept DEF gateVars, cycleVars, CountsOK
<1>4. ValuesOK'
  <2>1. commands' \in 0 .. MaxCommands
    <3>1. commands \in 0 .. MaxCommands
      BY <1>0 DEF ValuesOK
    <3> QED
      BY <1>1, <3>1, BoundsAre
  <2> QED
    BY <1>0, <1>1, <2>1 DEF ValuesOK, gateVars, cycleVars
<1> QED
  BY <1>2, <1>3, <1>4

LEMMA RunInitHolds == RunInit => RunInv
<1> SUFFICES ASSUME RunInit
             PROVE  RunInv
  OBVIOUS
<1>1. GraphInv
  BY InitHolds DEF RunInit
<1>2. /\ stack = <<>> /\ cycling = FALSE /\ cycles = 0
      /\ sampleTick = [g \in Gate |-> 0] /\ buffer = [g \in Gate |-> 0]
  BY DEF RunInit, RunVarsInit
<1>3. StackOK
  BY <1>2, EmptySeq DEF StackOK
<1>4. CountsOK
  BY <1>2, RunAssumption DEF CountsOK
<1>5. ValuesOK
  <2>1. 0 \in 0 .. IdMod - 1 /\ FirstId \in 0 .. IdMod - 1 /\ 0 \in 0 .. MaxCommands
    BY BoundsAre
  <2> QED
    BY <2>1 DEF RunInit, RunVarsInit, ValuesOK
<1> QED
  BY <1>1, <1>3, <1>4, <1>5 DEF RunInv

LEMMA RunStep == RunInv /\ [ConcNext]_vars => RunInv'
<1> SUFFICES ASSUME RunInv, [ConcNext]_vars
             PROVE  RunInv'
  OBVIOUS
<1>1. GraphInv'
  <2>1. Audio => UNCHANGED graphVars
    BY DEF Audio, StartCycle, FinishCycle, EnterAgain, Enter, TestIn, CallIn, FetchIn, Update
  <2>2. [GraphNext]_graphVars
    BY <2>1 DEF ConcNext, Command, vars
  <2> QED
    BY <2>2, NextKeeps DEF RunInv
<1>2. CASE UNCHANGED vars
  <2>1. StackOK'
    BY <1>2, SameStack DEF RunInv, vars, runVars, gateVars, cycleVars, graphVars
  <2>2. CountsOK'
    <3>1. \A g : Running(g)' <=> Running(g)
      BY <1>2, SameStack DEF RunInv, vars, runVars, gateVars, cycleVars, graphVars
    <3> QED
      BY <1>2, <3>1, CountsKept DEF RunInv, vars, runVars, gateVars, cycleVars, CountsOK
  <2>3. ValuesOK'
    BY <1>2 DEF RunInv, ValuesOK, vars, runVars, gateVars, cycleVars
  <2> QED
    BY <1>1, <2>1, <2>2, <2>3 DEF RunInv
<1>3. CASE ConcNext
  <2>1. StackOK' /\ CountsOK' /\ ValuesOK'
    BY <1>3, StartCycleKeeps, FinishCycleKeeps, EnterAgainKeeps, EnterKeeps, TestInKeeps,
       CallInKeeps, FetchInKeeps, UpdateKeeps, CommandStepKeeps DEF ConcNext, Audio
  <2> QED
    BY <1>1, <2>1 DEF RunInv
<1> QED
  BY <1>2, <1>3

-----------------------------------------------------------------------------
(* Whatever graph the commands make of the gates while they run, the walk  *)
(* stays within it, enters no gate twice, and a gate that is not done is a *)
(* block behind.                                                           *)
THEOREM RunInvariant == ConcSpec => []RunInv
BY RunInitHolds, RunStep, PTL DEF ConcSpec

(* No identifier, block count, allocation or index of the walk leaves its  *)
(* range, with commands at any point of a cycle.                           *)
THEOREM RunTypeCorrect == ConcSpec => []RunTypeOK
<1>1. RunInv => RunTypeOK
  <2> SUFFICES ASSUME RunInv
               PROVE  RunTypeOK
    OBVIOUS
  <2>0. StackOK /\ CountsOK /\ ValuesOK /\ GraphInv
    BY DEF RunInv
  <2>1. /\ cycles \in 0 .. MaxCycles /\ MaxCycles \in Nat
    BY <2>0, BoundsAre DEF CountsOK
  <2>2. /\ sampleTick \in [Gate -> 0 .. MaxCycles] /\ buffer \in [Gate -> 0 .. MaxCycles]
    <3>1. \A g \in Gate : sampleTick[g] \in 0 .. MaxCycles /\ buffer[g] \in 0 .. MaxCycles
      <4> TAKE g \in Gate
      <4>1. sampleTick[g] \in Nat /\ buffer[g] \in Nat /\ sampleTick[g] <= cycles /\ buffer[g] <= cycles
        BY <2>0 DEF CountsOK
      <4> QED
        BY <2>1, <4>1
    <3> QED
      BY <2>0, <3>1 DEF CountsOK
  <2> DEFINE R == [gate : Gate, pc : {"enter", "test", "call", "fetch"},
                   i : 0 .. MaxCx, ins : [Slot -> Pointer \cup {NULL}]]
  <2>3. \A k \in 1 .. Len(stack) : stack[k] \in R
    <3> TAKE k \in 1 .. Len(stack)
    <3>1. stack[k] \in Frame /\ FrameOK(stack[k])
      BY <2>0 DEF StackOK
    <3>2. nins(stack[k].gate) \in 0 .. MaxCx /\ MaxCx \in Nat
      BY <2>0, <3>1, GateTypes DEF FrameOK
    <3>3. stack[k].i \in 0 .. MaxCx
      BY <3>1, <3>2 DEF Frame, FrameOK
    <3> QED
      BY <3>1, <3>3 DEF Frame
  <2>4. stack \in Seq(R)
    <3>1. stack \in [1 .. Len(stack) -> Frame] /\ Len(stack) \in Nat
      BY <2>0 DEF StackOK
    <3> HIDE DEF R
    <3>2. stack \in [1 .. Len(stack) -> R]
      BY <2>3, <3>1
    <3> QED
      BY <3>1, <3>2, SeqDef
  <2> QED
    BY <2>0, <2>1, <2>2, <2>4 DEF ValuesOK, RunTypeOK
<1> QED
  BY <1>1, RunInvariant, PTL

(* The recursion of gensyn_gate_run__internal ends, feedback or not and    *)
(* whatever is connected meanwhile: it nests no deeper than there are      *)
(* gates, and one call that returns at once.                               *)
THEOREM StackBounded == ConcSpec => []StackBound
<1>1. RunInv => StackBound
  <2> SUFFICES ASSUME RunInv
               PROVE  Len(stack) <= Cardinality(live) + 1
    BY DEF RunInv, StackOK, StackBound
  <2>0. StackOK /\ IsFiniteSet(live) /\ Len(stack) \in Nat
    <3>1. live \subseteq Gate
      BY GateTypes DEF RunInv
    <3> QED
      BY <3>1, GraphAssumption, FS_Subset DEF RunInv, StackOK
  <2>1. Cardinality(live) \in Nat
    BY <2>0, FS_CardinalityType
  <2>2. CASE Len(stack) = 0
    BY <2>1, <2>2
  <2>3. CASE Len(stack) # 0
    <3> DEFINE m == Len(stack) - 1
               F == [k \in 1 .. m |-> stack[k + 1].gate]
    <3>1. m \in Nat /\ \A k \in 1 .. m : k + 1 \in 1 .. Len(stack) /\ k + 1 > 1
      BY <2>0, <2>3
    <3>2. \A k \in 1 .. m : stack[k + 1].gate \in live /\ stack[k + 1].pc # "enter"
      BY <2>0, <3>1 DEF StackOK, FrameOK
    <3>3. ASSUME NEW j \in 1 .. m, NEW k \in 1 .. m, stack[j + 1].gate = stack[k + 1].gate
          PROVE  j = k
      <4>1. j + 1 = k + 1
        BY <2>0, <3>1, <3>2, <3>3 DEF StackOK
      <4> QED
        BY <3>1, <4>1
    <3>4. F \in Injection(1 .. m, live)
      BY <3>2, <3>3 DEF Injection, IsInjective
    <3> HIDE DEF F, m
    <3>5. Cardinality(1 .. m) <= Cardinality(live)
      BY <2>0, <3>4, FS_Injection
    <3>6. Cardinality(1 .. m) = m
      BY <3>1, FS_Interval
    <3> QED
      BY <2>0, <2>1, <3>5, <3>6 DEF m
  <2> QED
    BY <2>2, <2>3
<1> QED
  BY <1>1, RunInvariant, PTL

-----------------------------------------------------------------------------
(* The output gate computes a block in every cycle, until the identifiers  *)
(* wrap.                                                                   *)

NoWrap == FirstId + MaxCycles < IdMod

OutputOK ==
  /\ updatePool = FirstId + cycles
  /\ \A g \in Gate : updateID[g] <= updatePool
  /\ ~cycling => sampleTick[output] >= cycles
  /\ cycling =>
       /\ sampleTick[output] + 1 >= cycles
       /\ Marked(output) /\ ~Running(output) => sampleTick[output] >= cycles
       /\ ~Marked(output) => stack # <<>> /\ Top.gate = output /\ Top.pc = "enter"

(* A running gate goes on running, but for the one that returns. *)
LEMMA RunningStays ==
  ASSUME StackOK, stack # <<>>,
         \/ \E f \in Frame : Continue(f) /\ f.gate = Top.gate /\ f.pc # "enter"
         \/ stack' = Tail(stack)
         \/ \E a, b \in Frame : /\ stack' = <<a, b>> \o Tail(stack)
                                /\ b.gate = Top.gate /\ b.pc # "enter"
  PROVE  \A g : /\ Running(g) => Running(g)' \/ (g = Top.gate /\ Top.pc # "enter")
                /\ Running(g) /\ stack' # Tail(stack) => Running(g)'
<1>1. stack \in Seq(Frame) /\ Top = stack[1] /\ Len(stack) \in Nat /\ Len(stack) >= 1
  BY TopIs DEF StackOK
<1>2. PICK s, n : s = stack' /\ n = Len(stack)
  OBVIOUS
<1>3. \A g : (\E k \in 1 .. Len(s) : s[k].gate = g /\ s[k].pc # "enter") => Running(g)'
  BY <1>2 DEF Running
<1>4. ASSUME NEW g, NEW k \in 1 .. n, stack[k].gate = g, stack[k].pc # "enter",
             stack' # Tail(stack)
      PROVE  Running(g)'
  <2>1. ASSUME NEW f \in Frame, Continue(f), f.gate = Top.gate, f.pc # "enter"
        PROVE  Running(g)'
    <3>1. Len(s) = n /\ s[1] = f /\ \A j \in 2 .. n : s[j] = stack[j]
      BY <1>1, <1>2, <2>1, ContinueIs DEF Continue
    <3>2. k \in 1 .. Len(s) /\ (k = 1 \/ k \in 2 .. n)
      BY <1>1, <1>2, <3>1
    <3>3. s[k].gate = g /\ s[k].pc # "enter"
      BY <1>1, <1>4, <2>1, <3>1, <3>2
    <3> QED
      BY <1>3, <3>2, <3>3
  <2>2. ASSUME NEW a \in Frame, NEW b \in Frame, stack' = <<a, b>> \o Tail(stack),
               b.gate = Top.gate, b.pc # "enter"
        PROVE  Running(g)'
    <3>1. Len(s) = n + 1 /\ s[2] = b /\ \A j \in 3 .. n + 1 : s[j] = stack[j - 1]
      BY <1>1, <1>2, <2>2, CallIs
    <3>2. k + 1 \in 1 .. Len(s) /\ (k = 1 \/ k + 1 \in 3 .. n + 1) /\ (k + 1) - 1 = k
      BY <1>1, <1>2, <3>1
    <3>3. s[k + 1].gate = g /\ s[k + 1].pc # "enter"
      <4>1. CASE k = 1
        <5>1. s[k + 1] = b
          BY <3>1, <4>1
        <5> QED
          BY <1>1, <1>4, <2>2, <4>1, <5>1
      <4>2. CASE k + 1 \in 3 .. n + 1
        BY <1>4, <3>1, <3>2, <4>2
      <4> QED
        BY <3>2, <4>1, <4>2
    <3> QED
      BY <1>3, <3>2, <3>3
  <2> QED
    BY <1>4, <2>1, <2>2
<1>5. ASSUME NEW g, NEW k \in 1 .. n, stack[k].gate = g, stack[k].pc # "enter",
             stack' = Tail(stack)
      PROVE  Running(g)' \/ (g = Top.gate /\ Top.pc # "enter")
  <2>1. Len(s) = n - 1 /\ \A j \in 1 .. n - 1 : s[j] = stack[j + 1]
    BY <1>1, <1>2, <1>5, PopIs
  <2>2. CASE k = 1
    BY <1>1, <1>5, <2>2
  <2>3. CASE k # 1
    <3>1. k - 1 \in 1 .. n - 1 /\ (k - 1) + 1 = k /\ k - 1 \in 1 .. Len(s)
      BY <1>1, <1>2, <2>1, <2>3
    <3>2. s[k - 1].gate = g /\ s[k - 1].pc # "enter"
      <4>1. s[k - 1] = stack[k]
        BY <2>1, <3>1
      <4> QED
        BY <1>5, <4>1
    <3> QED
      BY <1>3, <3>1, <3>2
  <2> QED
    BY <2>2, <2>3
<1>6. ASSUME NEW g, Running(g)
      PROVE  /\ Running(g)' \/ (g = Top.gate /\ Top.pc # "enter")
             /\ stack' # Tail(stack) => Running(g)'
  <2>1. PICK k \in 1 .. n : stack[k].gate = g /\ stack[k].pc # "enter"
    BY <1>2, <1>6 DEF Running
  <2>2. CASE stack' = Tail(stack)
    BY <1>5, <2>1, <2>2
  <2>3. CASE stack' # Tail(stack)
    BY <1>4, <2>1, <2>3
  <2> QED
    BY <2>2, <2>3
<1> QED
  BY <1>6

LEMMA OutputInit ==
  ASSUME RunInit
  PROVE  OutputOK
<1>1. /\ updatePool = FirstId /\ cycles = 0 /\ cycling = FALSE
      /\ updateID = [g \in Gate |-> 0] /\ sampleTick = [g \in Gate |-> 0]
  BY DEF RunInit, RunVarsInit
<1>2. output \in Gate /\ FirstId \in Nat
  BY RunInitHolds, GateTypes, BoundsAre, RunAssumption DEF RunInv
<1> QED
  BY <1>1, <1>2 DEF OutputOK

(* The numbers that OutputOK speaks of. *)
LEMMA OutputTypes ==
  ASSUME RunInv
  PROVE  /\ output \in Gate /\ updatePool \in Nat /\ cycles \in Nat /\ cycling \in BOOLEAN
         /\ \A g \in Gate : updateID[g] \in Nat /\ sampleTick[g] \in Nat
<1>1. updatePool \in 0 .. IdMod - 1 /\ updateID \in [Gate -> 0 .. IdMod - 1] /\ cycling \in BOOLEAN
  BY DEF RunInv, ValuesOK
<1>2. cycles \in 0 .. MaxCycles /\ sampleTick \in [Gate -> Nat]
  BY DEF RunInv, CountsOK
<1>3. output \in Gate
  BY GateTypes DEF RunInv
<1> QED
  BY <1>1, <1>2, <1>3

(* A step of the walk past the entry of the output gate. *)
LEMMA OutputKept ==
  ASSUME RunInv, OutputOK, cycling, UNCHANGED <<updatePool, cycles, cycling, output>>,
         \A g \in Gate : updateID'[g] <= updatePool,
         Marked(output)',
         sampleTick'[output] \in Nat, sampleTick'[output] >= sampleTick[output],
         \/ Running(output)'
         \/ sampleTick'[output] >= cycles
         \/ Marked(output) /\ ~Running(output)
  PROVE  OutputOK'
<1>1. sampleTick[output] \in Nat /\ cycles \in Nat
  BY OutputTypes
<1>2. sampleTick'[output] + 1 >= cycles
  BY <1>1 DEF OutputOK
<1>3. ~Running(output)' => sampleTick'[output] >= cycles
  BY <1>1 DEF OutputOK
<1>4. /\ (updatePool = FirstId + cycles)'
      /\ (\A g \in Gate : updateID[g] <= updatePool)'
      /\ cycling'
      /\ sampleTick'[output'] + 1 >= cycles'
      /\ ~Running(output)' => sampleTick'[output'] >= cycles'
  BY <1>2, <1>3 DEF OutputOK
<1> QED
  BY <1>4 DEF OutputOK

(* A step of the walk that runs no onUpdate and enters no gate. *)
LEMMA OutputWaits ==
  ASSUME RunInv, OutputOK, cycling, UNCHANGED <<updatePool, cycles, cycling, output, updateID, sampleTick>>,
         Marked(output), Running(output) => Running(output)'
  PROVE  OutputOK'
<1>1. Marked(output)' /\ \A g \in Gate : updateID'[g] <= updatePool
  BY DEF Marked, OutputOK
<1>2. sampleTick'[output] \in Nat /\ sampleTick'[output] >= sampleTick[output]
  BY OutputTypes
<1> QED
  BY <1>1, <1>2, OutputKept

LEMMA OutputStart ==
  ASSUME NoWrap, RunInv, OutputOK, StartCycle
  PROVE  OutputOK'
<1>1. /\ ~cycling /\ cycles < MaxCycles /\ cycling' = TRUE /\ cycles' = cycles + 1
      /\ stack' = <<Activation(output)>> /\ updatePool' = (updatePool + 1) % IdMod
      /\ UNCHANGED <<output, updateID, sampleTick>>
  BY DEF StartCycle, graphVars
<1>2. updatePool = FirstId + cycles /\ \A g \in Gate : updateID[g] <= updatePool
  BY DEF OutputOK
<1>3. /\ cycles \in Nat /\ updatePool \in Nat /\ MaxCycles \in Nat /\ IdMod \in Nat \ {0}
      /\ FirstId \in Nat /\ output \in Gate
      /\ \A g \in Gate : updateID[g] \in Nat /\ sampleTick[g] \in Nat
  BY OutputTypes, RunAssumption, BoundsAre
<1>4. updatePool' = updatePool + 1
  <2> DEFINE p == updatePool + 1
  <2>1. p \in Nat /\ p < IdMod
    BY <1>1, <1>2, <1>3 DEF NoWrap
  <2> HIDE DEF p
  <2>2. p % IdMod = p
    BY <1>3, <2>1
  <2> QED
    BY <1>1, <2>2 DEF p
<1>5. sampleTick[output] >= cycles
  BY <1>1 DEF OutputOK
<1>6. /\ updatePool' = FirstId + cycles'
      /\ \A g \in Gate : updateID'[g] <= updatePool' /\ updateID'[g] # updatePool'
      /\ sampleTick'[output'] + 1 >= cycles'
  BY <1>1, <1>2, <1>3, <1>4, <1>5
<1>7. stack' # <<>> /\ Top' = Activation(output)
  BY <1>1 DEF Top
<1>8. Top'.gate = output' /\ Top'.pc = "enter"
  BY <1>1, <1>7 DEF Activation
<1>9. ~Marked(output)'
  BY <1>1, <1>3, <1>6 DEF Marked
<1> QED
  BY <1>1, <1>6, <1>7, <1>8, <1>9 DEF OutputOK

LEMMA OutputFinish ==
  ASSUME RunInv, OutputOK, FinishCycle
  PROVE  OutputOK'
<1>1. /\ cycling /\ stack = <<>> /\ cycling' = FALSE
      /\ UNCHANGED <<output, updatePool, updateID, sampleTick, cycles>>
  BY DEF FinishCycle, graphVars, gateVars
<1>2. Marked(output) /\ ~Running(output)
  BY <1>1 DEF OutputOK, Running
<1>3. sampleTick[output] >= cycles
  BY <1>1, <1>2 DEF OutputOK
<1> QED
  BY <1>1, <1>3 DEF OutputOK

LEMMA OutputEnterAgain ==
  ASSUME RunInv, OutputOK, EnterAgain
  PROVE  OutputOK'
<1>1. /\ stack # <<>> /\ Top.pc = "enter" /\ updateID[Top.gate] = updatePool /\ stack' = Tail(stack)
      /\ UNCHANGED <<updatePool, cycles, cycling, output, updateID, sampleTick>>
  BY DEF EnterAgain, At, graphVars, gateVars
<1>2. cycling
  BY <1>1 DEF RunInv, CountsOK
<1>3. Marked(output)
  BY <1>1, <1>2 DEF OutputOK, Marked
<1>4. Running(output) => Running(output)'
  BY <1>1, RunningStays DEF RunInv
<1> QED
  BY <1>1, <1>2, <1>3, <1>4, OutputWaits

LEMMA OutputEnter ==
  ASSUME RunInv, OutputOK, Enter
  PROVE  OutputOK'
<1>1. /\ stack # <<>> /\ Top.pc = "enter"
      /\ UNCHANGED <<updatePool, cycles, cycling, output, sampleTick>>
  BY DEF Enter, At, graphVars
<1>2. PICK g, f : g = Top.gate /\ f = [Top EXCEPT !.pc = "test"]
  OBVIOUS
<1>3. Top \in Frame /\ g \in Gate
  BY <1>1, <1>2, TopIs, GateTypes DEF RunInv, FrameOK
<1>4. f \in Frame /\ f.gate = g /\ f.pc = "test"
  BY <1>2, <1>3 DEF Frame
<1>5. Continue(f) /\ updateID' = [updateID EXCEPT ![g] = updatePool]
  BY <1>2 DEF Enter
<1>6. updateID'[g] = updatePool /\ \A h \in Gate : h # g => updateID'[h] = updateID[h]
  BY <1>3, <1>5 DEF RunInv, ValuesOK
<1>7. cycling
  BY <1>1 DEF RunInv, CountsOK
<1>8. \A h \in Gate : updateID'[h] <= updatePool
  <2>1. updatePool <= updatePool
    BY OutputTypes
  <2> QED
    BY <1>6, <2>1 DEF OutputOK
<1>9. output \in Gate /\ sampleTick[output] \in Nat
  BY OutputTypes
<1>10. sampleTick'[output] \in Nat /\ sampleTick'[output] >= sampleTick[output]
  BY <1>1, <1>9
<1>11. Marked(output)' /\ (g = output \/ Marked(output))
  BY <1>1, <1>2, <1>6, <1>7, <1>9 DEF Marked, OutputOK
<1>12. CASE g = output
  <2>1. Len(<<f>> \o Tail(stack)) >= 1 /\ (<<f>> \o Tail(stack))[1] = f
    BY <1>1, <1>4, ContinueIs DEF RunInv, StackOK
  <2>2. PICK s : s = <<f>> \o Tail(stack)
    OBVIOUS
  <2>3. s = stack' /\ 1 \in 1 .. Len(s) /\ s[1].gate = output /\ s[1].pc # "enter"
    <3>1. Len(s) \in Nat
      BY <1>1, <1>4, <2>2, ContinueIs DEF RunInv, StackOK
    <3> QED
      BY <1>4, <1>5, <1>12, <2>1, <2>2, <3>1 DEF Continue
  <2>4. Running(output)'
    BY <1>1, <2>3 DEF Running
  <2> QED
    BY <1>1, <1>7, <1>8, <1>10, <1>11, <2>4, OutputKept
<1>13. CASE g # output
  <2>1. Running(output) => Running(output)'
    <3>1. \A h : Running(h) => Running(h)' \/ (h = Top.gate /\ Top.pc # "enter")
      <4>1. f.gate = Top.gate /\ f.pc # "enter"
        BY <1>2, <1>4
      <4> QED
        BY <1>1, <1>4, <1>5, <4>1, RunningStays DEF RunInv
    <3> QED
      BY <1>1, <3>1
  <2> QED
    BY <1>1, <1>7, <1>8, <1>10, <1>11, <1>13, <2>1, OutputKept
<1> QED
  BY <1>12, <1>13

(* Within an activation entered before, the output gate is entered. *)
LEMMA OutputEntered ==
  ASSUME RunInv, OutputOK, stack # <<>>, Top.pc # "enter"
  PROVE  cycling /\ Marked(output)
<1>1. cycling
  BY DEF RunInv, CountsOK
<1> QED
  BY <1>1 DEF OutputOK

LEMMA OutputGoesOn ==
  ASSUME RunInv, OutputOK, stack # <<>>, Top.pc # "enter",
         UNCHANGED <<updatePool, cycles, cycling, output, updateID, sampleTick>>,
         \/ stack' = stack
         \/ \E f \in Frame : Continue(f) /\ f.gate = Top.gate /\ f.pc # "enter"
         \/ \E a, b \in Frame : /\ stack' = <<a, b>> \o Tail(stack)
                                /\ b.gate = Top.gate /\ b.pc # "enter"
  PROVE  OutputOK'
<1>1. stack' # Tail(stack)
  <2> DEFINE n == Len(stack)
             m == Len(Tail(stack))
  <2>1. m = n - 1 /\ n \in Nat
    BY PopIs DEF RunInv, StackOK
  <2> HIDE DEF m, n
  <2>2. m # n /\ m # n + 1
    BY <2>1
  <2>3. CASE stack' = stack
    BY <2>2, <2>3, Zenon DEF m, n
  <2>4. ASSUME NEW f \in Frame, Continue(f)
        PROVE  stack' # Tail(stack)
    <3>1. Len(<<f>> \o Tail(stack)) = n
      BY ContinueIs DEF RunInv, StackOK, n
    <3> QED
      BY <2>2, <2>4, <3>1, Zenon DEF Continue, m
  <2>5. ASSUME NEW a \in Frame, NEW b \in Frame, stack' = <<a, b>> \o Tail(stack)
        PROVE  stack' # Tail(stack)
    <3>1. Len(<<a, b>> \o Tail(stack)) = n + 1
      BY CallIs DEF RunInv, StackOK, n
    <3> QED
      BY <2>2, <2>5, <3>1, Zenon DEF m
  <2> QED
    BY <2>3, <2>4, <2>5
<1>2. Running(output) => Running(output)'
  <2>1. CASE stack' = stack
    BY <2>1 DEF Running
  <2>2. CASE \E f \in Frame : Continue(f) /\ f.gate = Top.gate /\ f.pc # "enter"
    BY <1>1, <2>2, RunningStays DEF RunInv
  <2>3. CASE \E a, b \in Frame : /\ stack' = <<a, b>> \o Tail(stack)
                                 /\ b.gate = Top.gate /\ b.pc # "enter"
    BY <1>1, <2>3, RunningStays DEF RunInv
  <2> QED
    BY <2>1, <2>2, <2>3
<1> QED
  BY <1>2, OutputEntered, OutputWaits

LEMMA OutputTestIn ==
  ASSUME RunInv, OutputOK, TestIn
  PROVE  OutputOK'
<1>1. /\ stack # <<>> /\ Top.pc = "test" /\ Top.i < nins(Top.gate)
      /\ UNCHANGED <<updatePool, cycles, cycling, output, updateID, sampleTick>>
  BY DEF TestIn, At, graphVars, gateVars
<1>2. Top \in Frame /\ Top.i \in Nat /\ Top.i \in Slot
  BY <1>1, TopIs, TopSlot DEF RunInv, Frame
<1>3. PICK f, h, j, b : /\ f = [Top EXCEPT !.pc = "call"] /\ j = Top.i /\ b = NULL
                        /\ h = [Top EXCEPT !.ins = [@ EXCEPT ![j] = b], !.i = @ + 1]
  OBVIOUS
<1>4. f \in Frame /\ f.gate = Top.gate /\ f.pc # "enter"
  BY <1>2, <1>3 DEF Frame
<1>5. h \in Frame /\ h.gate = Top.gate /\ h.pc # "enter"
  <2>1. PICK e : e = Top
    OBVIOUS
  <2>2. e \in Frame /\ e.pc = "test" /\ j \in Slot /\ b \in Pointer \cup {NULL}
        /\ h = GoneOn(e, j, b)
    BY <1>1, <1>2, <1>3, <2>1 DEF GoneOn
  <2>3. h \in Frame /\ h.gate = e.gate /\ h.pc = "test"
    BY <2>2, GoneOnIs
  <2> QED
    BY <2>1, <2>3
<1>6. Continue(f) \/ Continue(h)
  BY <1>3 DEF TestIn
<1>7. Top.pc # "enter"
  BY <1>1
<1> QED
  BY <1>1, <1>4, <1>5, <1>6, <1>7, OutputGoesOn

LEMMA OutputCallIn ==
  ASSUME RunInv, OutputOK, CallIn
  PROVE  OutputOK'
<1>0. StackOK /\ GraphInv
  BY DEF RunInv
<1>1. /\ stack # <<>> /\ Top.pc = "call"
      /\ UNCHANGED <<updatePool, cycles, output, updateID, sampleTick>>
  BY DEF CallIn, At, graphVars, gateVars
<1>2. PICK h : h = inrefs[Top.gate][Top.i]
  OBVIOUS
<1>3. Top.pc # "enter" /\ cycling' = cycling
  BY <1>1, <1>2 DEF CallIn, Crash
<1>4. CASE h = NULL
  <2>1. stack' = stack
    BY <1>2, <1>4 DEF CallIn, Crash
  <2> QED
    BY <1>1, <1>3, <2>1, OutputGoesOn
<1>5. CASE h # NULL
  <2>1. Top \in Frame /\ Top.gate \in live /\ Top.i < nins(Top.gate)
    BY <1>0, <1>1, TopIs DEF FrameOK
  <2>2. Top.i \in Slot
    BY <1>1, <2>1, TopSlot
  <2>3. h \in Gate
    BY <1>0, <1>2, <1>5, <2>1, <2>2, GateTypes
  <2>4. PICK a, b : a = Activation(h) /\ b = [Top EXCEPT !.pc = "fetch"]
    OBVIOUS
  <2>5. a \in Frame
    BY <2>3, <2>4 DEF Activation, NoBuffers, Frame
  <2>6. b \in Frame /\ b.gate = Top.gate /\ b.pc # "enter"
    BY <2>1, <2>4 DEF Frame
  <2>7. stack' = <<a, b>> \o Tail(stack)
    BY <1>2, <1>5, <2>4 DEF CallIn
  <2> QED
    BY <1>1, <1>3, <2>5, <2>6, <2>7, OutputGoesOn
<1> QED
  BY <1>4, <1>5

LEMMA OutputFetchIn ==
  ASSUME RunInv, OutputOK, FetchIn
  PROVE  OutputOK'
<1>0. StackOK /\ CountsOK /\ GraphInv
  BY DEF RunInv
<1>1. /\ stack # <<>> /\ Top.pc = "fetch"
      /\ UNCHANGED <<updatePool, cycles, output, updateID, sampleTick>>
  BY DEF FetchIn, At, graphVars, gateVars
<1>2. PICK h : h = inrefs[Top.gate][Top.i]
  OBVIOUS
<1>3. Top.pc # "enter" /\ cycling' = cycling
  BY <1>1, <1>2 DEF FetchIn, Crash
<1>4. CASE h = NULL
  <2>1. stack' = stack
    BY <1>2, <1>4 DEF FetchIn, Crash
  <2> QED
    BY <1>1, <1>3, <2>1, OutputGoesOn
<1>5. CASE h # NULL
  <2>1. Top \in Frame /\ Top.gate \in live /\ Top.i < nins(Top.gate) /\ Top.i \in Nat
    BY <1>0, <1>1, TopIs DEF FrameOK, Frame
  <2>2. Top.i \in Slot
    BY <1>1, <2>1, TopSlot
  <2>3. h \in Gate
    BY <1>0, <1>2, <1>5, <2>1, <2>2, GateTypes
  <2>4. BufferOf(h) \in Pointer \cup {NULL}
    BY <1>0, <2>3, BufferIs
  <2>5. PICK f, e, j, b : e = Top /\ j = Top.i /\ b = BufferOf(h) /\ f = Fetched(e, j, b)
    OBVIOUS
  <2>6. f \in Frame /\ f.gate = Top.gate /\ f.pc # "enter"
    <3>1. e \in Frame /\ j \in Slot /\ b \in Pointer \cup {NULL} /\ f = Fetched(e, j, b)
      BY <2>1, <2>2, <2>4, <2>5
    <3>2. f \in Frame /\ f.gate = e.gate /\ f.pc = "test"
      BY <3>1, FetchedIs
    <3> QED
      BY <2>5, <3>2
  <2>7. Continue(f)
    BY <1>2, <1>5, <2>5 DEF FetchIn, Fetched
  <2> QED
    BY <1>1, <1>3, <2>6, <2>7, OutputGoesOn
<1> QED
  BY <1>4, <1>5

LEMMA OutputUpdate ==
  ASSUME RunInv, OutputOK, Update
  PROVE  OutputOK'
<1>1. /\ stack # <<>> /\ Top.pc # "enter" /\ UNCHANGED <<updatePool, cycles, output>>
  BY DEF Update, At, graphVars
<1>2. cycling /\ Marked(output)
  BY <1>1, OutputEntered
<1>3. PICK g, what : g = Top.gate /\ what = Faulty(Kind[type[g]], Top.ins)
  OBVIOUS
<1>4. CASE what # ""
  <2>1. /\ stack' = stack
        /\ UNCHANGED <<updatePool, cycles, cycling, output, updateID, sampleTick>>
    BY <1>1, <1>3, <1>4 DEF Update, Crash, gateVars
  <2> QED
    BY <1>1, <2>1, OutputGoesOn
<1>5. CASE what = ""
  <2>1. /\ sampleTick' = [sampleTick EXCEPT ![g] = @ + 1] /\ stack' = Tail(stack)
        /\ UNCHANGED <<updateID, cycling>>
    BY <1>3, <1>5 DEF Update
  <2>2. g \in Gate /\ output \in Gate /\ sampleTick \in [Gate -> Nat] /\ cycles \in Nat
    BY <1>1, <1>3, TopIs, GateTypes, OutputTypes DEF RunInv, FrameOK, CountsOK
  <2>3. Marked(output)' /\ \A h \in Gate : updateID'[h] <= updatePool
    BY <1>1, <1>2, <2>1 DEF Marked, OutputOK
  <2>4. /\ sampleTick'[output] \in Nat /\ sampleTick'[output] >= sampleTick[output]
        /\ g = output => sampleTick'[output] = sampleTick[output] + 1
    BY <2>1, <2>2
  <2>5. g = output => sampleTick'[output] >= cycles
    BY <1>2, <2>2, <2>4 DEF OutputOK
  <2>6. \A h : Running(h) => Running(h)' \/ h = g
    BY <1>1, <1>3, <2>1, RunningStays DEF RunInv
  <2> QED
    BY <1>1, <1>2, <2>1, <2>3, <2>4, <2>5, <2>6, OutputKept
<1> QED
  BY <1>4, <1>5

LEMMA OutputCommand ==
  ASSUME RunInv, OutputOK, Command
  PROVE  OutputOK'
<1>1. /\ GraphNext /\ UNCHANGED <<stack, updateID, updatePool, cycles, cycling, sampleTick>>
  BY DEF Command, gateVars, cycleVars
<1>2. output' = output /\ \A g : Running(g)' <=> Running(g)
  BY <1>1, CommandLeaves, CommandKeeps DEF RunInv
<1> QED
  BY <1>1, <1>2 DEF OutputOK, Marked, Top

LEMMA OutputStep ==
  ASSUME NoWrap, RunInv, OutputOK, [ConcNext]_vars
  PROVE  OutputOK'
<1>1. CASE UNCHANGED vars
  BY <1>1 DEF OutputOK, Marked, Running, Top, vars, graphVars, runVars, gateVars, cycleVars
<1>2. CASE ConcNext
  BY <1>2, OutputStart, OutputFinish, OutputEnterAgain, OutputEnter, OutputTestIn, OutputCallIn,
     OutputFetchIn, OutputUpdate, OutputCommand DEF ConcNext, Audio
<1> QED
  BY <1>1, <1>2

(* Until the update identifiers wrap, and whatever commands come in        *)
(* between, no gate's clock is ahead of the device's, and the output       *)
(* gate's is never behind it after a cycle.                                *)
THEOREM OncePerCycleHolds ==
  ASSUME NoWrap
  PROVE  ConcSpec => []OncePerCycle
<1>1. RunInit => OutputOK
  BY OutputInit
<1>2. RunInv /\ OutputOK /\ [ConcNext]_vars => OutputOK'
  BY OutputStep
<1>3. RunInv /\ OutputOK => OncePerCycle
  <2> SUFFICES ASSUME RunInv, OutputOK
               PROVE  OncePerCycle
    OBVIOUS
  <2>1. \A g \in Gate : sampleTick[g] <= cycles
    BY DEF RunInv, CountsOK
  <2>2. output \in Gate /\ cycles \in Nat /\ sampleTick[output] \in Nat
    BY OutputTypes
  <2>3. ~cycling => sampleTick[output] = cycles
    BY <2>1, <2>2 DEF OutputOK
  <2> QED
    BY <2>1, <2>3 DEF OncePerCycle
<1> QED
  BY <1>1, <1>2, <1>3, RunInvariant, PTL DEF ConcSpec

-----------------------------------------------------------------------------
(* What a walk relies on while no command comes in between. *)

(* What an activation waits for is connected; a buffer that it has         *)
(* gathered is of a gate that ran in this cycle, and the one that this     *)
(* gate has now; and, as long as the identifiers do not wrap, an IN        *)
(* without a buffer is not connected.                                      *)
FrameHeld(f) ==
  /\ f.pc \in {"call", "fetch"} => inrefs[f.gate][f.i] # NULL
  /\ \A i \in Slot : f.ins[i] # NULL =>
       f.ins[i][2] = buffer[f.ins[i][1]] /\ Marked(f.ins[i][1])
  /\ NoWrap => \A i \in Slot : i < f.i /\ f.ins[i] = NULL => inrefs[f.gate][i] = NULL

(* Every activation runs the gate that the next one out is waiting for.    *)
HeldOK ==
  /\ \A k \in 1 .. Len(stack) : FrameHeld(stack[k])
  /\ \A k \in 2 .. Len(stack) : inrefs[stack[k].gate][stack[k].i] = stack[k - 1].gate
  /\ stack # <<>> /\ stack[1].pc = "fetch" => Marked(inrefs[stack[1].gate][stack[1].i])

(* A gate that ever ran has a buffer. *)
AllocOK ==
  /\ \A g \in Gate : updateID[g] # 0 => buffer[g] # 0
  /\ cycling => cycles > 0

HeldInv == HeldOK /\ AllocOK /\ (NoWrap => OnlyMissingPitch)

(* What leaves the connections and the buffers of the gates that have run  *)
(* leaves an activation as it was.                                         *)
LEMMA FrameStays ==
  ASSUME inrefs' = inrefs, NEW f \in Frame, FrameHeld(f),
         \A g \in Gate : Marked(g) => Marked(g)' /\ buffer'[g] = buffer[g]
  PROVE  FrameHeld(f)'
<1>1. ASSUME NEW i \in Slot, f.ins[i] # NULL
      PROVE  f.ins[i][2] = buffer'[f.ins[i][1]] /\ Marked(f.ins[i][1])'
  <2>1. PICK g : g = f.ins[i][1]
    OBVIOUS
  <2>2. g \in Gate
    BY <1>1, <2>1 DEF Frame, Pointer
  <2>3. f.ins[i][2] = buffer[g] /\ Marked(g)
    BY <1>1, <2>1 DEF FrameHeld
  <2> QED
    BY <2>1, <2>2, <2>3
<1> QED
  BY <1>1 DEF FrameHeld

LEMMA HeldContinues ==
  ASSUME StackOK, HeldOK, stack # <<>>, NEW f \in Frame, Continue(f),
         f.gate = Top.gate, f.pc # "fetch", FrameHeld(f)', inrefs' = inrefs,
         \A g \in Gate : Marked(g) => Marked(g)' /\ buffer'[g] = buffer[g]
  PROVE  HeldOK'
<1>1. PICK s, n : s = stack' /\ n = Len(stack)
  OBVIOUS
<1>2. /\ Len(s) = n /\ n \in Nat /\ n >= 1 /\ s[1] = f
      /\ \A k \in 2 .. n : s[k] = stack[k]
  BY <1>1, ContinueIs DEF StackOK, Continue
<1>3. \A k \in 1 .. n : stack[k] \in Frame /\ FrameHeld(stack[k])
  BY <1>1 DEF StackOK, HeldOK
<1>4. \A k \in 2 .. n : inrefs[stack[k].gate][stack[k].i] = stack[k - 1].gate
  BY <1>1 DEF HeldOK
<1>5. \A k \in 1 .. n : FrameHeld(s[k])'
  <2> TAKE k \in 1 .. n
  <2>1. CASE k = 1
    BY <1>2, <2>1
  <2>2. CASE k # 1
    <3>1. s[k] = stack[k] /\ stack[k] \in Frame /\ FrameHeld(stack[k])
      BY <1>2, <1>3, <2>2
    <3>2. PICK e : e = stack[k]
      OBVIOUS
    <3>3. FrameHeld(e)'
      BY <3>1, <3>2, FrameStays
    <3> QED
      BY <3>1, <3>2, <3>3
  <2> QED
    BY <2>1, <2>2
<1>6. \A k \in 2 .. n : inrefs[s[k].gate][s[k].i] = s[k - 1].gate
  <2> TAKE k \in 2 .. n
  <2>1. s[k] = stack[k] /\ inrefs[stack[k].gate][stack[k].i] = stack[k - 1].gate
    BY <1>2, <1>4
  <2>2. CASE k = 2
    <3>1. s[1].gate = stack[1].gate
      BY <1>2, TopIs
    <3> QED
      BY <2>1, <2>2, <3>1
  <2>3. CASE k # 2
    <3>1. k - 1 \in 2 .. n
      BY <1>2, <2>3
    <3>2. s[k - 1] = stack[k - 1]
      BY <1>2, <3>1
    <3> QED
      BY <2>1, <3>2
  <2> QED
    BY <2>2, <2>3
<1> QED
  BY <1>1, <1>2, <1>5, <1>6 DEF HeldOK

LEMMA HeldReturns ==
  ASSUME StackOK, HeldOK, stack # <<>>, stack' = Tail(stack), Marked(Top.gate),
         UNCHANGED <<inrefs, updateID, updatePool, buffer>>
  PROVE  HeldOK'
<1>1. PICK s, n : s = stack' /\ n = Len(stack)
  OBVIOUS
<1>2. /\ Len(s) = n - 1 /\ n \in Nat /\ n >= 1
      /\ \A k \in 1 .. n - 1 : s[k] = stack[k + 1]
  BY <1>1, PopIs DEF StackOK
<1>3. \A k \in 1 .. n : FrameHeld(stack[k])
  BY <1>1 DEF HeldOK
<1>4. \A k \in 2 .. n : inrefs[stack[k].gate][stack[k].i] = stack[k - 1].gate
  BY <1>1 DEF HeldOK
<1>5. \A f : FrameHeld(f)' <=> FrameHeld(f)
  BY DEF FrameHeld, Marked
<1>6. \A k \in 1 .. n - 1 : FrameHeld(s[k])'
  <2> TAKE k \in 1 .. n - 1
  <2>1. k + 1 \in 1 .. n /\ s[k] = stack[k + 1]
    BY <1>2
  <2>2. PICK e : e = stack[k + 1]
    OBVIOUS
  <2> QED
    BY <1>3, <1>5, <2>1, <2>2
<1>7. \A k \in 2 .. n - 1 : inrefs[s[k].gate][s[k].i] = s[k - 1].gate
  <2> TAKE k \in 2 .. n - 1
  <2>1. k + 1 \in 2 .. n /\ k - 1 \in 1 .. n - 1 /\ (k - 1) + 1 = k /\ (k + 1) - 1 = k
        /\ k \in 1 .. n - 1
    BY <1>2
  <2>2. s[k] = stack[k + 1] /\ s[k - 1] = stack[k]
    BY <1>2, <2>1
  <2>3. inrefs[stack[k + 1].gate][stack[k + 1].i] = stack[k].gate
    BY <1>4, <2>1
  <2> QED
    BY <2>2, <2>3
<1>8. n >= 2 => Marked(inrefs[s[1].gate][s[1].i])
  <2> SUFFICES ASSUME n >= 2
               PROVE  Marked(inrefs[s[1].gate][s[1].i])
    OBVIOUS
  <2>1. 1 \in 1 .. n - 1 /\ 2 \in 2 .. n /\ 1 + 1 = 2 /\ 2 - 1 = 1
    BY <1>2
  <2>2. s[1] = stack[2]
    BY <1>2, <2>1
  <2>3. inrefs[stack[2].gate][stack[2].i] = stack[1].gate
    BY <1>4, <2>1
  <2>4. Marked(stack[1].gate)
    BY TopIs
  <2> QED
    BY <2>2, <2>3, <2>4
<1>9. s # <<>> => n >= 2
  <2> SUFFICES ASSUME n = 1
               PROVE  s = <<>>
    BY <1>2
  <2>1. s \in Seq(Frame) /\ Len(s) = 0
    BY <1>1, <1>2, PopIs DEF StackOK
  <2> QED
    BY <2>1, EmptySeq
<1>10. \A g : Marked(g)' <=> Marked(g)
  BY DEF Marked
<1>11. s # <<>> => Marked(inrefs[s[1].gate][s[1].i])'
  <2>1. PICK g : g = inrefs[s[1].gate][s[1].i]
    OBVIOUS
  <2>2. inrefs'[s[1].gate][s[1].i] = g
    BY <2>1
  <2> QED
    BY <1>8, <1>9, <1>10, <2>1, <2>2
<1> QED
  BY <1>1, <1>2, <1>6, <1>7, <1>11 DEF HeldOK

LEMMA HeldCalls ==
  ASSUME StackOK, HeldOK, stack # <<>>, NEW a \in Frame, NEW b \in Frame,
         stack' = <<a, b>> \o Tail(stack), FrameHeld(a), FrameHeld(b), a.pc = "enter",
         b.gate = Top.gate, inrefs[b.gate][b.i] = a.gate,
         UNCHANGED <<inrefs, updateID, updatePool, buffer>>
  PROVE  HeldOK'
<1>1. PICK s, n : s = stack' /\ n = Len(stack)
  OBVIOUS
<1>2. /\ Len(s) = n + 1 /\ n \in Nat /\ n >= 1 /\ s[1] = a /\ s[2] = b
      /\ \A k \in 3 .. n + 1 : s[k] = stack[k - 1]
  BY <1>1, CallIs DEF StackOK
<1>3. \A k \in 1 .. n : FrameHeld(stack[k])
  BY <1>1 DEF HeldOK
<1>4. \A k \in 2 .. n : inrefs[stack[k].gate][stack[k].i] = stack[k - 1].gate
  BY <1>1 DEF HeldOK
<1>5. \A f : FrameHeld(f)' <=> FrameHeld(f)
  BY DEF FrameHeld, Marked
<1>6. \A k \in 1 .. n + 1 : FrameHeld(s[k])'
  <2> TAKE k \in 1 .. n + 1
  <2>1. CASE k \in {1, 2}
    BY <1>2, <1>5, <2>1
  <2>2. CASE k \notin {1, 2}
    <3>1. k \in 3 .. n + 1 /\ k - 1 \in 1 .. n
      BY <1>2, <2>2
    <3>2. PICK e : e = stack[k - 1]
      OBVIOUS
    <3> QED
      BY <1>2, <1>3, <1>5, <3>1, <3>2
  <2> QED
    BY <2>1, <2>2
<1>7. \A k \in 2 .. n + 1 : inrefs[s[k].gate][s[k].i] = s[k - 1].gate
  <2> TAKE k \in 2 .. n + 1
  <2>1. CASE k = 2
    BY <1>2, <2>1
  <2>2. CASE k = 3
    <3>1. 2 \in 2 .. n /\ 3 \in 3 .. n + 1 /\ 3 - 1 = 2 /\ 2 - 1 = 1
      BY <1>2, <2>2
    <3>2. s[3] = stack[2] /\ inrefs[stack[2].gate][stack[2].i] = stack[1].gate
      BY <1>2, <1>4, <3>1
    <3>3. s[2].gate = stack[1].gate
      BY <1>2, TopIs
    <3> QED
      BY <2>2, <3>1, <3>2, <3>3
  <2>3. CASE k \notin {2, 3}
    <3>1. k \in 3 .. n + 1 /\ k - 1 \in 3 .. n + 1 /\ k - 1 \in 2 .. n
      BY <1>2, <2>3
    <3>2. s[k] = stack[k - 1] /\ s[k - 1] = stack[(k - 1) - 1]
      BY <1>2, <3>1
    <3>3. inrefs[stack[k - 1].gate][stack[k - 1].i] = stack[(k - 1) - 1].gate
      BY <1>4, <3>1
    <3> QED
      BY <3>2, <3>3
  <2> QED
    BY <2>1, <2>2, <2>3
<1> QED
  BY <1>1, <1>2, <1>6, <1>7 DEF HeldOK

LEMMA HeldSame ==
  ASSUME HeldOK, UNCHANGED <<stack, inrefs, updateID, updatePool, buffer>>
  PROVE  HeldOK'
<1>1. \A f : FrameHeld(f)' <=> FrameHeld(f)
  BY DEF FrameHeld, Marked
<1>2. PICK s : s = stack
  OBVIOUS
<1>3. \A k \in 1 .. Len(s) : FrameHeld(s[k])'
  BY <1>1, <1>2 DEF HeldOK
<1>4. \A g : Marked(g)' <=> Marked(g)
  BY DEF Marked
<1>5. s # <<>> /\ s[1].pc = "fetch" => Marked(inrefs[s[1].gate][s[1].i])'
  <2>1. PICK g : g = inrefs[s[1].gate][s[1].i]
    OBVIOUS
  <2>2. inrefs'[s[1].gate][s[1].i] = g
    BY <2>1
  <2> QED
    BY <1>2, <1>4, <2>1, <2>2 DEF HeldOK
<1> QED
  BY <1>2, <1>3, <1>5 DEF HeldOK

LEMMA NothingHeld ==
  ASSUME stack = <<>>
  PROVE  HeldOK
<1>1. Len(stack) = 0
  OBVIOUS
<1>2. 1 .. Len(stack) = {} /\ 2 .. Len(stack) = {}
  BY <1>1
<1> QED
  BY <1>2 DEF HeldOK

LEMMA NothingHeldNext ==
  ASSUME stack' = <<>>
  PROVE  HeldOK'
<1>1. Len(stack') = 0
  OBVIOUS
<1>2. 1 .. Len(stack') = {} /\ 2 .. Len(stack') = {}
  BY <1>1
<1> QED
  BY <1>2 DEF HeldOK

LEMMA HeldInit ==
  ASSUME RunInit
  PROVE  HeldInv
<1>1. /\ stack = <<>> /\ cycling = FALSE /\ fault = ""
      /\ updateID = [g \in Gate |-> 0]
  BY DEF RunInit, RunVarsInit
<1>2. HeldOK
  BY <1>1, NothingHeld
<1>3. AllocOK
  BY <1>1 DEF AllocOK
<1> QED
  BY <1>1, <1>2, <1>3 DEF HeldInv, OnlyMissingPitch

LEMMA AllocKept ==
  ASSUME AllocOK, UNCHANGED <<updateID, buffer, cycles, cycling>>
  PROVE  AllocOK'
BY DEF AllocOK

LEMMA HeldStart ==
  ASSUME RunInv, HeldInv, StartCycle
  PROVE  HeldInv'
<1>1. /\ fault' = "" /\ stack' = <<Activation(output)>> /\ cycles' = cycles + 1
      /\ UNCHANGED <<updateID, buffer>>
  BY DEF StartCycle
<1>2. cycles' > 0
  <2>1. cycles \in Nat /\ cycles' = cycles + 1
    BY <1>1, OutputTypes
  <2> QED
    BY <2>1
<1>3. AllocOK'
  BY <1>1, <1>2 DEF HeldInv, AllocOK
<1>4. PICK a : a = Activation(output)
  OBVIOUS
<1>5. /\ a.pc = "enter" /\ a.i = 0
      /\ \A i \in Slot : a.ins[i] = NULL
  BY <1>4 DEF Activation, NoBuffers
<1>6. FrameHeld(a)'
  BY <1>5 DEF FrameHeld, Slot
<1>7. PICK s : s = <<a>>
  OBVIOUS
<1>8. stack' = s /\ Len(s) = 1 /\ s[1] = a
  BY <1>1, <1>4, <1>7
<1>9. \A k \in 1 .. Len(s) : FrameHeld(s[k])'
  BY <1>6, <1>8
<1>10. 2 .. Len(s) = {}
  BY <1>8
<1>11. HeldOK'
  BY <1>5, <1>8, <1>9, <1>10 DEF HeldOK
<1> QED
  BY <1>1, <1>3, <1>11 DEF HeldInv, OnlyMissingPitch

LEMMA HeldFinish ==
  ASSUME HeldInv, FinishCycle
  PROVE  HeldInv'
<1>1. /\ fault' = "" /\ cycling' = FALSE
      /\ UNCHANGED <<stack, inrefs, updateID, updatePool, buffer, cycles>>
  BY DEF FinishCycle, graphVars, gateVars
<1>2. HeldOK'
  BY <1>1, HeldSame DEF HeldInv
<1> QED
  BY <1>1, <1>2 DEF HeldInv, AllocOK, OnlyMissingPitch

LEMMA HeldEnterAgain ==
  ASSUME RunInv, HeldInv, EnterAgain
  PROVE  HeldInv'
<1>1. /\ stack # <<>> /\ Marked(Top.gate) /\ stack' = Tail(stack) /\ fault' = ""
      /\ UNCHANGED <<inrefs, updateID, updatePool, buffer, cycles, cycling>>
  BY DEF EnterAgain, At, Marked, graphVars, gateVars
<1>2. HeldOK'
  BY <1>1, HeldReturns DEF RunInv, HeldInv
<1> QED
  BY <1>1, <1>2, AllocKept DEF HeldInv, OnlyMissingPitch

LEMMA HeldEnter ==
  ASSUME RunInv, HeldInv, Enter
  PROVE  HeldInv'
<1>1. /\ stack # <<>> /\ Top.pc = "enter" /\ ~Marked(Top.gate) /\ fault' = ""
      /\ UNCHANGED <<inrefs, updatePool, cycles, cycling>>
  BY DEF Enter, At, Marked, graphVars
<1>2. PICK g, f : g = Top.gate /\ f = [Top EXCEPT !.pc = "test"]
  OBVIOUS
<1>3. Top \in Frame /\ Top = stack[1] /\ g \in Gate /\ buffer \in [Gate -> Nat]
      /\ updateID \in [Gate -> 0 .. IdMod - 1] /\ Len(stack) \in Nat /\ Len(stack) >= 1
  BY <1>1, <1>2, TopIs, GateTypes DEF RunInv, FrameOK, CountsOK, ValuesOK
<1>4. f \in Frame /\ f.gate = Top.gate /\ f.pc = "test" /\ f.i = Top.i /\ f.ins = Top.ins
  BY <1>2, <1>3 DEF Frame
<1>5. NeedsBuffer(g)
  BY RunAssumption DEF NeedsBuffer, SampleBufferSize
<1>6. /\ Continue(f) /\ updateID' = [updateID EXCEPT ![g] = updatePool]
      /\ buffer' = [buffer EXCEPT ![g] = @ + 1]
  BY <1>2, <1>5 DEF Enter
<1>7. /\ updateID'[g] = updatePool /\ buffer'[g] # 0
      /\ \A h \in Gate : h # g => updateID'[h] = updateID[h] /\ buffer'[h] = buffer[h]
  BY <1>3, <1>6
<1>8. \A h \in Gate : Marked(h) => Marked(h)' /\ buffer'[h] = buffer[h]
  BY <1>1, <1>2, <1>7 DEF Marked
<1>9. FrameHeld(f)'
  <2>1. FrameHeld(Top)
    BY <1>3 DEF HeldInv, HeldOK
  <2>2. FrameHeld(f)
    BY <1>4, <2>1 DEF FrameHeld
  <2> QED
    BY <1>1, <1>4, <1>8, <2>2, FrameStays
<1>10. HeldOK'
  <2>1. f.pc # "fetch" /\ StackOK /\ HeldOK
    BY <1>4 DEF RunInv, HeldInv
  <2> QED
    BY <1>1, <1>4, <1>6, <1>8, <1>9, <2>1, HeldContinues
<1>11. AllocOK'
  BY <1>1, <1>7 DEF HeldInv, AllocOK
<1> QED
  BY <1>1, <1>10, <1>11 DEF HeldInv, OnlyMissingPitch

LEMMA HeldTestIn ==
  ASSUME RunInv, HeldInv, TestIn
  PROVE  HeldInv'
<1>1. /\ stack # <<>> /\ Top.pc = "test" /\ Top.i < nins(Top.gate) /\ fault' = ""
      /\ UNCHANGED <<inrefs, updateID, updatePool, buffer, cycles, cycling>>
  BY DEF TestIn, At, graphVars, gateVars
<1>2. /\ Top \in Frame /\ Top.i \in Nat /\ Top.i \in Slot /\ Top = stack[1]
      /\ Len(stack) \in Nat /\ Len(stack) >= 1
  BY <1>1, TopIs, TopSlot DEF RunInv, Frame
<1>3. FrameHeld(Top)
  BY <1>2 DEF HeldInv, HeldOK
<1>4. PICK e, j, b : e = Top /\ j = Top.i /\ b = NULL
  OBVIOUS
<1>5. PICK f, h : f = [e EXCEPT !.pc = "call"] /\ h = GoneOn(e, j, b)
  OBVIOUS
<1>6. /\ e \in Frame /\ e.pc = "test" /\ j \in Slot /\ b \in Pointer \cup {NULL} /\ e.i = j
      /\ FrameHeld(e) /\ e.gate = Top.gate /\ j \in Nat
  BY <1>1, <1>2, <1>3, <1>4
<1>7. f \in Frame /\ f.gate = e.gate /\ f.pc = "call" /\ f.i = j /\ f.ins = e.ins
  BY <1>5, <1>6 DEF Frame
<1>8. h \in Frame /\ h.gate = e.gate /\ h.pc = "test" /\ h.i = j + 1 /\ h.ins = [e.ins EXCEPT ![j] = b]
  BY <1>5, <1>6, GoneOnIs
<1>9. \/ inrefs[e.gate][j] # NULL /\ Continue(f)
      \/ inrefs[e.gate][j] = NULL /\ Continue(h)
  BY <1>4, <1>5 DEF TestIn, GoneOn
<1>10. \A g \in Gate : Marked(g) => Marked(g)' /\ buffer'[g] = buffer[g]
  BY <1>1 DEF Marked
<1>11. StackOK /\ HeldOK
  BY DEF RunInv, HeldInv
<1>12. HeldOK'
  <2>1. CASE inrefs[e.gate][j] # NULL /\ Continue(f)
    <3>1. FrameHeld(f)
      BY <1>6, <1>7, <2>1 DEF FrameHeld
    <3>2. FrameHeld(f)'
      BY <1>1, <1>7, <1>10, <3>1, FrameStays
    <3>3. f.gate = Top.gate /\ f.pc # "fetch"
      BY <1>6, <1>7
    <3> QED
      BY <1>1, <1>7, <1>10, <1>11, <2>1, <3>2, <3>3, HeldContinues
  <2>2. CASE inrefs[e.gate][j] = NULL /\ Continue(h)
    <3>1. \A i \in Slot : h.ins[i] = IF i = j THEN NULL ELSE e.ins[i]
      BY <1>4, <1>6, <1>8 DEF Frame
    <3>2. \A i \in Slot : i < h.i => i = j \/ i < e.i
      BY <1>6, <1>8 DEF Slot
    <3>3. FrameHeld(h)
      BY <1>6, <1>8, <2>2, <3>1, <3>2 DEF FrameHeld
    <3>4. FrameHeld(h)'
      BY <1>1, <1>8, <1>10, <3>3, FrameStays
    <3>5. h.gate = Top.gate /\ h.pc # "fetch"
      BY <1>6, <1>8
    <3> QED
      BY <1>1, <1>8, <1>10, <1>11, <2>2, <3>4, <3>5, HeldContinues
  <2> QED
    BY <1>9, <2>1, <2>2
<1> QED
  BY <1>1, <1>12, AllocKept DEF HeldInv, OnlyMissingPitch

LEMMA HeldCallIn ==
  ASSUME RunInv, HeldInv, CallIn
  PROVE  HeldInv'
<1>1. /\ stack # <<>> /\ Top.pc = "call" /\ fault = ""
      /\ UNCHANGED <<inrefs, updateID, updatePool, buffer, cycles>>
  BY DEF CallIn, At, graphVars, gateVars
<1>2. /\ Top \in Frame /\ Top = stack[1] /\ Top.gate \in live /\ Top.i < nins(Top.gate)
      /\ Len(stack) \in Nat /\ Len(stack) >= 1
  BY <1>1, TopIs DEF RunInv, FrameOK
<1>3. FrameHeld(Top) /\ Top.i \in Slot
  <2>1. FrameHeld(Top)
    BY <1>2 DEF HeldInv, HeldOK
  <2> QED
    BY <1>1, <1>2, <2>1, TopSlot
<1>4. PICK h : h = inrefs[Top.gate][Top.i]
  OBVIOUS
<1>5. h # NULL
  BY <1>1, <1>3, <1>4 DEF FrameHeld
<1>6. h \in Gate
  BY <1>2, <1>3, <1>4, <1>5, GateTypes DEF RunInv
<1>7. PICK a, b : a = Activation(h) /\ b = [Top EXCEPT !.pc = "fetch"]
  OBVIOUS
<1>8. /\ a \in Frame /\ a.gate = h /\ a.pc = "enter" /\ a.i = 0
      /\ \A i \in Slot : a.ins[i] = NULL
  BY <1>6, <1>7 DEF Activation, NoBuffers, Frame
<1>9. b \in Frame /\ b.gate = Top.gate /\ b.pc = "fetch" /\ b.i = Top.i /\ b.ins = Top.ins
  BY <1>2, <1>7 DEF Frame
<1>10. FrameHeld(a)
  BY <1>8 DEF FrameHeld, Slot
<1>11. FrameHeld(b)
  BY <1>1, <1>3, <1>9 DEF FrameHeld
<1>12. inrefs[b.gate][b.i] = a.gate
  BY <1>4, <1>8, <1>9
<1>13. /\ stack' = <<a, b>> \o Tail(stack)
       /\ UNCHANGED <<cycling, fault>>
  BY <1>4, <1>5, <1>7 DEF CallIn
<1>14. HeldOK'
  BY <1>1, <1>8, <1>9, <1>10, <1>11, <1>12, <1>13, HeldCalls DEF RunInv, HeldInv
<1> QED
  BY <1>1, <1>13, <1>14, AllocKept DEF HeldInv, OnlyMissingPitch

LEMMA HeldFetchIn ==
  ASSUME RunInv, NoWrap => OutputOK, HeldInv, FetchIn
  PROVE  HeldInv'
<1>1. /\ stack # <<>> /\ Top.pc = "fetch" /\ fault = ""
      /\ UNCHANGED <<inrefs, updateID, updatePool, buffer, cycles>>
  BY DEF FetchIn, At, graphVars, gateVars
<1>2. /\ Top \in Frame /\ Top = stack[1] /\ Top.gate \in live /\ Top.i < nins(Top.gate)
      /\ Len(stack) \in Nat /\ Len(stack) >= 1 /\ Top.i \in Nat
  BY <1>1, TopIs DEF RunInv, FrameOK, Frame
<1>3. FrameHeld(Top) /\ Top.i \in Slot
  <2>1. FrameHeld(Top)
    BY <1>2 DEF HeldInv, HeldOK
  <2> QED
    BY <1>1, <1>2, <2>1, TopSlot
<1>4. PICK h : h = inrefs[Top.gate][Top.i]
  OBVIOUS
<1>5. h # NULL /\ Marked(h)
  BY <1>1, <1>2, <1>3, <1>4 DEF FrameHeld, HeldInv, HeldOK
<1>6. h \in Gate
  BY <1>2, <1>3, <1>4, <1>5, GateTypes DEF RunInv
<1>7. PICK e, j, b, f : e = Top /\ j = Top.i /\ b = BufferOf(h) /\ f = Fetched(e, j, b)
  OBVIOUS
<1>8. /\ e \in Frame /\ j \in Slot /\ j \in Nat /\ e.i = j /\ FrameHeld(e) /\ e.gate = Top.gate
      /\ b \in Pointer \cup {NULL}
  BY <1>2, <1>3, <1>6, <1>7, BufferIs DEF RunInv
<1>9. f \in Frame /\ f.gate = e.gate /\ f.pc = "test" /\ f.i = j + 1 /\ f.ins = [e.ins EXCEPT ![j] = b]
  BY <1>7, <1>8, FetchedIs
<1>10. Continue(f) /\ UNCHANGED <<cycling, fault>>
  BY <1>4, <1>5, <1>7 DEF FetchIn, Fetched
<1>11. b # NULL => b[2] = buffer[b[1]] /\ Marked(b[1])
  BY <1>5, <1>7 DEF BufferOf
<1>12. NoWrap => b # NULL
  <2> SUFFICES ASSUME NoWrap
               PROVE  b # NULL
    OBVIOUS
  <2>1. cycling /\ cycles \in Nat /\ FirstId \in Nat
    <3>1. cycling
      BY <1>1 DEF RunInv, CountsOK
    <3>2. FirstId \in Nat
      BY BoundsAre
    <3> QED
      BY <3>1, <3>2, OutputTypes
  <2>2. cycles > 0 /\ updatePool = FirstId + cycles
    BY <2>1 DEF OutputOK, HeldInv, AllocOK
  <2>3. updateID[h] # 0
    BY <1>5, <2>1, <2>2 DEF Marked
  <2>4. buffer[h] # 0
    BY <1>6, <2>3 DEF HeldInv, AllocOK
  <2>5. b = <<h, buffer[h]>>
    BY <1>7, <2>4 DEF BufferOf
  <2>6. buffer[h] \in 1 .. MaxCycles
    <3>1. buffer[h] \in Nat /\ buffer[h] <= cycles /\ cycles \in 0 .. MaxCycles /\ MaxCycles \in Nat
      BY <1>6, BoundsAre DEF RunInv, CountsOK
    <3> QED
      BY <2>4, <3>1
  <2>7. NULL \notin Gate \X (1 .. MaxCycles)
    BY RunAssumption
  <2> QED
    BY <1>6, <2>5, <2>6, <2>7
<1>13. FrameHeld(f)
  <2>1. \A i \in Slot : f.ins[i] = IF i = j THEN b ELSE e.ins[i]
    BY <1>8, <1>9 DEF Frame
  <2>2. \A i \in Slot : i < f.i => i = j \/ i < e.i
    BY <1>8, <1>9 DEF Slot
  <2>3. \A i \in Slot : f.ins[i] # NULL =>
          f.ins[i][2] = buffer[f.ins[i][1]] /\ Marked(f.ins[i][1])
    BY <1>8, <1>11, <2>1 DEF FrameHeld
  <2>4. NoWrap => \A i \in Slot : i < f.i /\ f.ins[i] = NULL => inrefs[f.gate][i] = NULL
    BY <1>8, <1>9, <1>12, <2>1, <2>2 DEF FrameHeld
  <2> QED
    BY <1>9, <2>3, <2>4 DEF FrameHeld
<1>14. \A g \in Gate : Marked(g) => Marked(g)' /\ buffer'[g] = buffer[g]
  BY <1>1 DEF Marked
<1>15. HeldOK'
  <2>1. FrameHeld(f)'
    BY <1>1, <1>9, <1>13, <1>14, FrameStays
  <2>2. f.gate = Top.gate /\ f.pc # "fetch" /\ StackOK /\ HeldOK
    BY <1>8, <1>9 DEF RunInv, HeldInv
  <2> QED
    BY <1>1, <1>9, <1>10, <1>14, <2>1, <2>2, HeldContinues
<1> QED
  BY <1>1, <1>10, <1>15, AllocKept DEF HeldInv, OnlyMissingPitch

LEMMA HeldUpdate ==
  ASSUME RunInv, HeldInv, Update
  PROVE  HeldInv'
<1>1. /\ stack # <<>> /\ Top.pc = "test" /\ Top.i >= nins(Top.gate) /\ fault = ""
      /\ UNCHANGED <<inrefs, type, updatePool, cycles>>
  BY DEF Update, At, graphVars
<1>2. /\ Top \in Frame /\ Top = stack[1] /\ Top.gate \in live /\ Marked(Top.gate)
      /\ Len(stack) \in Nat /\ Len(stack) >= 1 /\ Top.i \in Nat
  BY <1>1, TopIs DEF RunInv, FrameOK, Frame
<1>3. FrameHeld(Top)
  BY <1>2 DEF HeldInv, HeldOK
<1>4. PICK kind, what : kind = Kind[type[Top.gate]] /\ what = Faulty(kind, Top.ins)
  OBVIOUS
<1>5. CASE what = ""
  <2>1. /\ stack' = Tail(stack) /\ UNCHANGED <<updateID, buffer, cycling, fault>>
    BY <1>4, <1>5 DEF Update
  <2>2. HeldOK'
    BY <1>1, <1>2, <2>1, HeldReturns DEF RunInv, HeldInv
  <2> QED
    BY <1>1, <2>1, <2>2, AllocKept DEF HeldInv, OnlyMissingPitch
<1>6. CASE what # ""
  <2>1. /\ fault' = what /\ UNCHANGED <<stack, cycling, updateID, buffer>>
    BY <1>4, <1>6 DEF Update, Crash, gateVars
  <2>2. HeldOK'
    BY <1>1, <2>1, HeldSame DEF HeldInv
  <2>3. ASSUME NoWrap
        PROVE  OnlyMissingPitch'
    <3>1. Kind[type[Top.gate]] = "wave" => 0 \in Slot /\ 2 \in Slot /\ nins(Top.gate) = 3
      <4>1. type[Top.gate] \in DOMAIN Nins
        BY <1>2 DEF RunInv, GraphInv, GraphTypeOK
      <4>2. MaxCx \in Nat /\ nins(Top.gate) \in 0 .. MaxCx
        BY <1>2, GateTypes DEF RunInv
      <4>3. Kind[type[Top.gate]] = "wave" => nins(Top.gate) = 3
        BY <4>1, RunAssumption DEF nins
      <4> QED
        BY <4>2, <4>3 DEF Slot
    <3>2. Kind[type[Top.gate]] \in {"source", "mixer", "through", "glider", "wave"} /\ 0 \in Slot
      BY <1>2, GateTypes, GraphAssumption DEF RunInv, Slot
    <3>3. Reads(kind) \subseteq Slot
      BY <1>4, <3>1, <3>2 DEF Reads
    <3>4. \A i \in Reads(kind) : ~Stale(Top.ins[i])
      BY <1>3, <3>3 DEF FrameHeld, Stale
    <3>5. kind = "wave" /\ Top.ins[0] = NULL /\ what = "null"
      BY <1>4, <1>6, <3>4 DEF Faulty
    <3>6. inrefs[Top.gate][0] = NULL
      <4>1. 0 \in Slot /\ 0 < Top.i
        <5>1. 0 \in Slot /\ nins(Top.gate) = 3
          BY <1>4, <3>1, <3>5
        <5>2. PICK i, n : i = Top.i /\ n = nins(Top.gate)
          OBVIOUS
        <5>3. i \in Nat /\ i >= n
          BY <1>1, <1>2, <5>2
        <5>4. i > 0
          BY <5>1, <5>2, <5>3
        <5> QED
          BY <5>1, <5>2, <5>4
      <4>2. \A i \in Slot : i < Top.i /\ Top.ins[i] = NULL => inrefs[Top.gate][i] = NULL
        BY <1>3, <2>3 DEF FrameHeld
      <4> QED
        BY <3>5, <4>1, <4>2
    <3>7. Top' = Top /\ type' = type /\ inrefs' = inrefs
      BY <1>1, <2>1 DEF Top
    <3> QED
      BY <1>4, <2>1, <3>5, <3>6, <3>7 DEF OnlyMissingPitch
  <2> QED
    BY <1>1, <2>1, <2>2, <2>3, AllocKept DEF HeldInv
<1> QED
  BY <1>5, <1>6

LEMMA HeldCommand ==
  ASSUME RunInv, HeldInv, ~cycling, Command
  PROVE  HeldInv'
<1>1. /\ fault' = "" /\ stack = <<>>
      /\ UNCHANGED <<stack, updateID, buffer, cycles, cycling>>
  BY DEF Command, gateVars, cycleVars, RunInv, CountsOK
<1>2. HeldOK'
  <2>1. stack' = <<>>
    BY <1>1
  <2> QED
    BY <2>1, NothingHeldNext
<1> QED
  BY <1>1, <1>2, AllocKept DEF HeldInv, OnlyMissingPitch

LEMMA HeldStep ==
  ASSUME RunInv, NoWrap => OutputOK, HeldInv, [SeqNext]_vars
  PROVE  HeldInv'
<1>1. CASE UNCHANGED vars
  <2>1. UNCHANGED <<stack, inrefs, type, fault, updateID, updatePool, buffer, cycles, cycling>>
    BY <1>1 DEF vars, graphVars, runVars, gateVars, cycleVars
  <2>2. HeldOK'
    BY <2>1, HeldSame DEF HeldInv
  <2> QED
    BY <2>1, <2>2, AllocKept DEF HeldInv, OnlyMissingPitch, Top
<1>2. CASE SeqNext
  BY <1>2, HeldStart, HeldFinish, HeldEnterAgain, HeldEnter, HeldTestIn, HeldCallIn, HeldFetchIn,
     HeldUpdate, HeldCommand DEF SeqNext, Audio
<1> QED
  BY <1>1, <1>2

(* Between commands, what the walk relies on stays so: an inductive        *)
(* invariant together with RunInv and, until the identifiers wrap,         *)
(* OutputOK.                                                               *)
THEOREM WalkInvariant == SeqSpec => [](RunInv /\ HeldInv)
<1> DEFINE Tick == NoWrap => OutputOK
<1>1. RunInit => RunInv /\ Tick /\ HeldInv
  BY RunInitHolds, OutputInit, HeldInit
<1>2. RunInv /\ Tick /\ HeldInv /\ [SeqNext]_vars => RunInv' /\ Tick' /\ HeldInv'
  <2>1. [SeqNext]_vars => [ConcNext]_vars
    BY DEF SeqNext, ConcNext
  <2>2. RunInv /\ [SeqNext]_vars => RunInv'
    BY <2>1, RunStep
  <2>3. RunInv /\ Tick /\ [SeqNext]_vars => Tick'
    BY <2>1, OutputStep
  <2> QED
    BY <2>2, <2>3, HeldStep
<1> HIDE DEF Tick
<1> QED
  BY <1>1, <1>2, PTL DEF SeqSpec

(* No buffer that a gate gathered is freed before its onUpdate read it,    *)
(* although every gate replaces its buffer in every cycle.                 *)
THEOREM BuffersStayHeld == SeqSpec => []BuffersHeld
<1>1. HeldInv => BuffersHeld
  BY DEF HeldInv, HeldOK, FrameHeld, BuffersHeld, Stale
<1> QED
  BY <1>1, WalkInvariant, PTL

(* Until the update identifiers wrap, nothing but a wave without a pitch   *)
(* ends the program in a cycle between commands.                           *)
THEOREM OnlyPitchFaults ==
  ASSUME NoWrap
  PROVE  SeqSpec => []OnlyMissingPitch
<1>1. HeldInv => OnlyMissingPitch
  BY DEF HeldInv
<1> QED
  BY <1>1, WalkInvariant, PTL

-----------------------------------------------------------------------------
(* What a cycle amounts to: the graph of the connections. *)

(* Only the INs that a gate has are ever connected. *)
InsWithin == \A g \in live, i \in Slot : i >= nins(g) => inrefs[g][i] = NULL

LEMMA InsWithinInit == RunInit => InsWithin
<1> SUFFICES ASSUME RunInit
             PROVE  InsWithin
  OBVIOUS
<1>1. live \subseteq Gate /\ inrefs = [h \in Gate |-> NoRefs]
  BY DEF RunInit, GraphInit
<1> QED
  BY <1>1 DEF InsWithin, NoRefs

LEMMA InsWithinConnects ==
  ASSUME GraphInv, InsWithin, NEW from, NEW to \in live, NEW i \in Nat, Connects(from, i, to)
  PROVE  InsWithin'
<1>1. ~(i >= nins(to)) /\ UNCHANGED <<live, type>>
  BY DEF Connects, Refuses
<1>2. inrefs' = [inrefs EXCEPT ![to] = [@ EXCEPT ![i] = from]]
  BY DEF Connects, Relink
<1>3. inrefs \in [Gate -> [Slot -> Gate \cup {NULL}]] /\ live \subseteq Gate
  BY DEF GraphInv, GraphTypeOK
<1> SUFFICES ASSUME NEW g \in live, NEW j \in Slot, j >= nins(g)
             PROVE  inrefs'[g][j] = NULL
  BY <1>1 DEF InsWithin, nins
<1>4. inrefs[g][j] = NULL
  BY DEF InsWithin
<1>5. ~(g = to /\ j = i)
  BY <1>1
<1> QED
  BY <1>2, <1>3, <1>4, <1>5

LEMMA InsWithinKeeps ==
  ASSUME GraphInv, InsWithin, GraphNext
  PROVE  InsWithin'
<1>0. /\ \A n \in Name : gates[n] # NULL => gates[n] \in live
      /\ live \subseteq Gate /\ inrefs \in [Gate -> [Slot -> Gate \cup {NULL}]]
      /\ type \in [Gate -> DOMAIN Nins \cup {NULL}]
  BY DEF GraphInv, OneName, GraphTypeOK
<1>1. ASSUME NEW t \in Type, NEW m \in Name, GateAdd(t, m)
      PROVE  InsWithin'
  <2>1. PICK g \in Gate \ live : /\ live' = live \cup {g} /\ type' = [type EXCEPT ![g] = t]
                                 /\ inrefs' = [inrefs EXCEPT ![g] = NoRefs]
    BY <1>1 DEF GateAdd
  <2>2. \A h \in live : type'[h] = type[h] /\ inrefs'[h] = inrefs[h]
    BY <1>0, <2>1
  <2>3. inrefs'[g] = NoRefs
    BY <1>0, <2>1
  <2> QED
    BY <2>1, <2>2, <2>3 DEF InsWithin, nins, NoRefs
<1>2. ASSUME UNCHANGED <<live, type, refs>>
      PROVE  InsWithin'
  BY <1>2 DEF InsWithin, nins, refs
<1>3. ASSUME NEW a \in Name, NEW b \in Name, NEW i \in 0 .. MaxCx,
             GateConnect(a, i, b) \/ GateDisconnect(a, i, b)
      PROVE  InsWithin'
  <2>1. gates[b] \in live /\ i \in Nat
    BY <1>0, <1>3, MaxCxNat DEF GateConnect, GateDisconnect
  <2> QED
    BY <1>2, <1>3, <2>1, InsWithinConnects DEF GateConnect, GateDisconnect, Ignored
<1> QED
  BY <1>1, <1>2, <1>3 DEF GraphNext, GateAddRefused, NoSuchGate

(* The graph is that of the connections alone. *)
LEMMA SameGraph ==
  ASSUME UNCHANGED <<inrefs, output>>
  PROVE  /\ \A g : Feeders(g)' = Feeders(g)
         /\ Reachable' = Reachable /\ (Acyclic' <=> Acyclic)
<1>1. \A g : Feeders(g)' = Feeders(g)
  BY DEF Feeders
<1>2. \A S : Closed(S)' <=> Closed(S)
  BY <1>1 DEF Closed
<1>3. Reachable' = Reachable
  BY <1>2 DEF Reachable
<1>4. Acyclic' <=> Acyclic
  BY <1>1, <1>3 DEF Acyclic
<1> QED
  BY <1>1, <1>3, <1>4

LEMMA FeedersAre ==
  ASSUME GraphInv, NEW g \in Gate
  PROVE  /\ Feeders(g) \subseteq Gate
         /\ \A i \in Slot : inrefs[g][i] # NULL => inrefs[g][i] \in Feeders(g)
         /\ inrefs[g] \in [Slot -> Gate \cup {NULL}]
<1>1. inrefs[g] \in [Slot -> Gate \cup {NULL}]
  BY DEF GraphInv, GraphTypeOK
<1> QED
  BY <1>1 DEF Feeders

(* The gates behind the output are the least closed set. *)
LEMMA ReachableIs ==
  ASSUME GraphInv
  PROVE  /\ Reachable \subseteq live /\ live \subseteq Gate /\ Closed(Reachable)
         /\ \A S \in SUBSET Gate : Closed(S) => Reachable \subseteq S
<1>1. Reachable \subseteq Gate /\ \A S \in SUBSET Gate : Closed(S) => Reachable \subseteq S
  BY DEF Reachable
<1>2. output \in Reachable
  BY GateTypes DEF Reachable, Closed
<1>3. ASSUME NEW g \in Reachable, NEW h \in Feeders(g)
      PROVE  h \in Reachable
  <2>1. h \in Gate
    BY <1>1, FeedersAre
  <2>2. ASSUME NEW S \in SUBSET Gate, Closed(S)
        PROVE  h \in S
    <3>1. g \in S
      BY <1>1, <2>2
    <3> QED
      BY <2>2, <3>1 DEF Closed
  <2> QED
    BY <2>1, <2>2 DEF Reachable
<1>4. live \subseteq Gate /\ Closed(live)
  BY GateTypes DEF Closed, Feeders
<1>5. Closed(Reachable)
  BY <1>2, <1>3 DEF Closed
<1> QED
  BY <1>1, <1>4, <1>5

(* What a gate makes of its INs depends on the signals of its feeders      *)
(* only, and holds nothing that they, it or its data did not.              *)
LEMMA OutcomesDepend ==
  ASSUME GraphInv, NEW g \in live, NEW V, NEW W, \A h \in Feeders(g) : V[h] = W[h], NEW old
  PROVE  /\ Outcomes(g, inrefs[g], V, {}, old) = Outcomes(g, inrefs[g], W, {}, old)
         /\ Kind[type[g]] = "wave" => Pitch(g, inrefs[g], V, old) = Pitch(g, inrefs[g], W, old)
<1>1. /\ g \in Gate /\ Kind[type[g]] \in {"source", "mixer", "through", "glider", "wave"}
      /\ 0 \in Slot /\ (Kind[type[g]] = "wave" => 2 \in Slot)
  BY SlotsAre
<1>2. \A i \in Slot : Heard(inrefs[g], V, i) = Heard(inrefs[g], W, i)
  BY <1>1, FeedersAre DEF Heard
<1>3. Mixer(inrefs[g], V) = Mixer(inrefs[g], W)
  BY <1>2 DEF Mixer
<1>4. Through(inrefs[g], V, {}) = Through(inrefs[g], W, {})
  BY <1>1, <1>2 DEF Through
<1>5. Glider(inrefs[g], V, {}, old) = Glider(inrefs[g], W, {}, old)
  BY <1>1, <1>2 DEF Glider
<1>6. Pitch(g, inrefs[g], V, old) = Pitch(g, inrefs[g], W, old)
  BY <1>1, <1>2 DEF Pitch
<1>7. Tuned(g, inrefs[g], V, {}, old) = Tuned(g, inrefs[g], W, {}, old)
  BY <1>6 DEF Tuned
<1>8. CASE Kind[type[g]] = "wave"
  <2>1. \A block : Scaled(g, inrefs[g], V, block) = Scaled(g, inrefs[g], W, block)
    BY <1>1, <1>2, <1>8 DEF Scaled
  <2>2. Wave(g, inrefs[g], V, {}, old) = Wave(g, inrefs[g], W, {}, old)
    BY <1>7, <2>1 DEF Wave
  <2> QED
    BY <1>6, <1>8, <2>2 DEF Outcomes
<1>9. CASE Kind[type[g]] # "wave"
  BY <1>1, <1>3, <1>4, <1>5, <1>9 DEF Outcomes
<1> QED
  BY <1>8, <1>9

LEMMA OutcomeOfFeeders ==
  ASSUME GraphInv, NEW g \in live, NEW R, g \in R, NEW W, \A h \in Feeders(g) : W[h] \subseteq R,
         NEW old, old \subseteq R, NEW o \in Outcomes(g, inrefs[g], W, {}, old)
  PROVE  o.block \subseteq R /\ o.kept \subseteq R
<1>1. \A i \in Slot : Heard(inrefs[g], W, i) \subseteq R
  BY SlotsAre, FeedersAre DEF Heard
<1> QED
  BY <1>1, SlotsAre, OutcomeWithin

(* A wave in tune, and every gate that is not a wave, has one signal to    *)
(* give.                                                                   *)
LEMMA OneBlock ==
  ASSUME GraphInv, NEW g \in live, NEW W, NEW old,
         Kind[type[g]] = "wave" => old \in {{}, Pitch(g, inrefs[g], W, old)}
  PROVE  \A o, q \in Outcomes(g, inrefs[g], W, {}, old) : o.block = q.block
<1> SUFFICES ASSUME NEW o \in Outcomes(g, inrefs[g], W, {}, old),
                    NEW q \in Outcomes(g, inrefs[g], W, {}, old)
             PROVE  o.block = q.block
  OBVIOUS
<1>1. Kind[type[g]] \in {"source", "mixer", "through", "glider", "wave"}
  BY SlotsAre
<1>2. CASE Kind[type[g]] = "glider"
  <2>1. PICK in : in = Heard(inrefs[g], W, 0)
    OBVIOUS
  <2>2. Outcomes(g, inrefs[g], W, {}, old)
          = IF inrefs[g][0] = NULL THEN {Outcome({}, old)}
            ELSE {Outcome(in \cup old, data) : data \in {in, in \cup old}}
    BY <1>2, <2>1 DEF Outcomes, Glider
  <2>3. \A data : /\ Outcome({}, old).block = {}
                  /\ Outcome(in \cup old, data).block = in \cup old
    BY DEF Outcome
  <2>4. CASE inrefs[g][0] = NULL
    BY <2>2, <2>3, <2>4
  <2>5. CASE inrefs[g][0] # NULL
    <3>1. o.block = in \cup old
      BY <2>2, <2>3, <2>5
    <3>2. q.block = in \cup old
      BY <2>2, <2>3, <2>5
    <3> QED
      BY <3>1, <3>2
  <2> QED
    BY <2>4, <2>5
<1>3. CASE Kind[type[g]] = "wave"
  <2>1. PICK new : new = Pitch(g, inrefs[g], W, old) /\ old \in {{}, new}
    BY <1>3
  <2>2. PICK t \in Tuned(g, inrefs[g], W, {}, old), u \in Tuned(g, inrefs[g], W, {}, old) :
          /\ o = [t EXCEPT !.block = Scaled(g, inrefs[g], W, @)]
          /\ q = [u EXCEPT !.block = Scaled(g, inrefs[g], W, @)]
    BY <1>3 DEF Outcomes, Wave
  <2>3. \/ t = Outcome({}, old) /\ u = Outcome({}, old)
        \/ t = Outcome(new, new) /\ u = Outcome(new, new)
    BY <2>1, <2>2 DEF Tuned
  <2>4. t.block = u.block
    BY <2>3
  <2>5. o.block = Scaled(g, inrefs[g], W, t.block) /\ q.block = Scaled(g, inrefs[g], W, u.block)
    BY <2>2, <2>3 DEF Outcome
  <2> QED
    BY <2>4, <2>5
<1>4. CASE Kind[type[g]] \in {"source", "mixer", "through"}
  BY <1>4 DEF Outcomes, Outcome
<1> QED
  BY <1>1, <1>2, <1>3, <1>4

(* On an acyclic graph, and with every wave in tune, the signals that the  *)
(* gates may make of each other are unique: of two solutions that differ,  *)
(* take a gate where they do and none of whose feeders they do.            *)
THEOREM SoundIsUnique ==
  ASSUME GraphInv, NEW V, NEW W, Acyclic, Sound(V), Sound(W), InTune(V)
  PROVE  \A g \in Reachable : V[g] = W[g]
<1> DEFINE D == {g \in Reachable : V[g] # W[g]}
<1> SUFFICES ASSUME D # {}
             PROVE  FALSE
  OBVIOUS
<1>1. PICK g \in D : Feeders(g) \cap D = {}
  <2>1. D \in SUBSET Reachable
    OBVIOUS
  <2> QED
    BY <2>1 DEF Acyclic
<1>2. Feeders(g) \subseteq Reachable
  BY ReachableIs DEF Closed
<1>3. \A h \in Feeders(g) : V[h] = W[h]
  BY <1>1, <1>2
<1>4. PICK old : old = keptBefore[g]
  OBVIOUS
<1>5. g \in live /\ Outcomes(g, inrefs[g], V, {}, old) = Outcomes(g, inrefs[g], W, {}, old)
  BY <1>3, ReachableIs, OutcomesDepend
<1>6. /\ \E o \in Outcomes(g, inrefs[g], V, {}, old) : V[g] = o.block
      /\ \E o \in Outcomes(g, inrefs[g], V, {}, old) : W[g] = o.block
  BY <1>4, <1>5 DEF Sound
<1>7. Kind[type[g]] = "wave" => old \in {{}, Pitch(g, inrefs[g], V, old)}
  BY <1>4 DEF InTune
<1>8. \A o, q \in Outcomes(g, inrefs[g], V, {}, old) : o.block = q.block
  <2> HIDE DEF D
  <2> QED
    BY <1>5, <1>7, OneBlock
<1> QED
  BY <1>6, <1>8

(* What an activation has gathered is of the gates at its INs. *)
FrameReads(f) == \A i \in Slot : f.ins[i] # NULL => f.ins[i][1] = inrefs[f.gate][i]

FramesOK == \A k \in 1 .. Len(stack) : FrameReads(stack[k]) /\ stack[k].gate \in Reachable

Done(g) == Marked(g) /\ ~Running(g)

(* What may be heard of in this cycle. *)
Echoes == Reachable \cup UNION {keptBefore[g] : g \in Reachable}

(* In a cycle only gates behind the output are entered, all that feed a    *)
(* gate are entered before it is done, it sounds of and remembers nothing  *)
(* but gates behind the output and what these remembered, and until it is  *)
(* done it remembers what it did.                                          *)
VisitedOK ==
  cycling =>
    /\ \A g \in Gate : Marked(g) => /\ g \in Reachable
                                    /\ signal[g] \subseteq Echoes
                                    /\ kept[g] \subseteq Echoes
    /\ \A g \in Gate : Running(g) => signal[g] = {}
    /\ \A g \in Gate : Done(g) => \A h \in Feeders(g) : Marked(h)
    /\ \A g \in Gate : ~Done(g) => kept[g] = keptBefore[g]

(* Without feedback they are done before it is, so that it is done with    *)
(* their final signals.                                                    *)
Settled(g) ==
  \E o \in Outcomes(g, inrefs[g], signal, {}, keptBefore[g]) : signal[g] = o.block

DoneOK ==
  cycling /\ Acyclic =>
    \A g \in Gate : Done(g) => (\A h \in Feeders(g) : Done(h)) /\ Settled(g)

CycleInv == InsWithin /\ FramesOK /\ VisitedOK /\ DoneOK

LEMMA FramesContinue ==
  ASSUME StackOK, FramesOK, stack # <<>>, NEW f \in Frame, Continue(f),
         FrameReads(f), f.gate = Top.gate, UNCHANGED <<inrefs, output>>
  PROVE  FramesOK'
<1>1. PICK s, n : s = stack' /\ n = Len(stack)
  OBVIOUS
<1>2. /\ Len(s) = n /\ n \in Nat /\ n >= 1 /\ s[1] = f
      /\ \A k \in 2 .. n : s[k] = stack[k]
  BY <1>1, ContinueIs DEF StackOK, Continue
<1>3. \A k \in 1 .. n : FrameReads(stack[k]) /\ stack[k].gate \in Reachable
  BY <1>1 DEF FramesOK
<1>4. f.gate \in Reachable
  BY <1>2, <1>3, TopIs
<1>5. Reachable' = Reachable /\ \A e : FrameReads(e)' <=> FrameReads(e)
  BY SameGraph DEF FrameReads
<1>6. \A k \in 1 .. n : FrameReads(s[k])' /\ s[k].gate \in Reachable'
  <2> TAKE k \in 1 .. n
  <2>1. CASE k = 1
    BY <1>2, <1>4, <1>5, <2>1
  <2>2. CASE k # 1
    BY <1>2, <1>3, <1>5, <2>2
  <2> QED
    BY <2>1, <2>2
<1> QED
  BY <1>1, <1>2, <1>6 DEF FramesOK

LEMMA FramesReturn ==
  ASSUME StackOK, FramesOK, stack # <<>>, stack' = Tail(stack), UNCHANGED <<inrefs, output>>
  PROVE  FramesOK'
<1>1. PICK s, n : s = stack' /\ n = Len(stack)
  OBVIOUS
<1>2. /\ Len(s) = n - 1 /\ n \in Nat /\ n >= 1
      /\ \A k \in 1 .. n - 1 : s[k] = stack[k + 1]
  BY <1>1, PopIs DEF StackOK
<1>3. \A k \in 1 .. n : FrameReads(stack[k]) /\ stack[k].gate \in Reachable
  BY <1>1 DEF FramesOK
<1>4. Reachable' = Reachable /\ \A e : FrameReads(e)' <=> FrameReads(e)
  BY SameGraph DEF FrameReads
<1>5. \A k \in 1 .. n - 1 : FrameReads(s[k])' /\ s[k].gate \in Reachable'
  BY <1>2, <1>3, <1>4
<1> QED
  BY <1>1, <1>2, <1>5 DEF FramesOK

LEMMA FramesCall ==
  ASSUME StackOK, FramesOK, stack # <<>>, NEW a \in Frame, NEW b \in Frame,
         stack' = <<a, b>> \o Tail(stack), FrameReads(a), FrameReads(b),
         a.gate \in Reachable, b.gate = Top.gate, UNCHANGED <<inrefs, output>>
  PROVE  FramesOK'
<1>1. PICK s, n : s = stack' /\ n = Len(stack)
  OBVIOUS
<1>2. /\ Len(s) = n + 1 /\ n \in Nat /\ n >= 1 /\ s[1] = a /\ s[2] = b
      /\ \A k \in 3 .. n + 1 : s[k] = stack[k - 1]
  BY <1>1, CallIs DEF StackOK
<1>3. \A k \in 1 .. n : FrameReads(stack[k]) /\ stack[k].gate \in Reachable
  BY <1>1 DEF FramesOK
<1>4. b.gate \in Reachable
  BY <1>2, <1>3, TopIs
<1>5. Reachable' = Reachable /\ \A e : FrameReads(e)' <=> FrameReads(e)
  BY SameGraph DEF FrameReads
<1>6. \A k \in 1 .. n + 1 : FrameReads(s[k])' /\ s[k].gate \in Reachable'
  <2> TAKE k \in 1 .. n + 1
  <2>1. CASE k \in {1, 2}
    BY <1>2, <1>4, <1>5, <2>1
  <2>2. CASE k \notin {1, 2}
    <3>1. k \in 3 .. n + 1 /\ k - 1 \in 1 .. n
      BY <1>2, <2>2
    <3> QED
      BY <1>2, <1>3, <1>5, <3>1
  <2> QED
    BY <2>1, <2>2
<1> QED
  BY <1>1, <1>2, <1>6 DEF FramesOK

LEMMA FramesSame ==
  ASSUME FramesOK, UNCHANGED <<stack, inrefs, output>>
  PROVE  FramesOK'
<1>1. Reachable' = Reachable /\ \A e : FrameReads(e)' <=> FrameReads(e)
  BY SameGraph DEF FrameReads
<1>2. PICK s : s = stack
  OBVIOUS
<1>3. \A k \in 1 .. Len(s) : FrameReads(s[k])' /\ s[k].gate \in Reachable'
  BY <1>1, <1>2 DEF FramesOK
<1> QED
  BY <1>2, <1>3 DEF FramesOK

(* A block counts as computed, for the caller, once its cycle is over. *)
LEMMA TicksAre ==
  /\ TicksBefore
       = [g \in Gate |-> IF cycling /\ Done(g) THEN sampleTick[g] - 1 ELSE sampleTick[g]]
  /\ TicksBefore'
       = [g \in Gate |-> IF cycling' /\ Done(g)' THEN sampleTick'[g] - 1 ELSE sampleTick'[g]]
<1>1. \A g : (\A k \in 1 .. Len(stack) : stack[k].gate = g => stack[k].pc = "enter")
            <=> ~Running(g)
  BY DEF Running
<1>2. \A g : (\A k \in 1 .. Len(stack') : stack'[k].gate = g => stack'[k].pc = "enter")
            <=> ~Running(g)'
  BY DEF Running
<1>3. TicksBefore
       = [g \in Gate |-> IF cycling /\ Done(g) THEN sampleTick[g] - 1 ELSE sampleTick[g]]
  BY <1>1 DEF TicksBefore, Done, Marked
<1>4. TicksBefore'
       = [g \in Gate |-> IF cycling' /\ Done(g)' THEN sampleTick'[g] - 1 ELSE sampleTick'[g]]
  BY <1>2 DEF TicksBefore, Done, Marked
<1> QED
  BY <1>3, <1>4

(* A step between whose ends no gate was done. *)
LEMMA TicksSame ==
  ASSUME UNCHANGED <<sampleTick, cycling>>, cycling => \A g \in Gate : Done(g)' <=> Done(g)
  PROVE  TicksBefore' = TicksBefore
BY TicksAre

(* A step that enters no gate and leaves none. *)
LEMMA VisitedSame ==
  ASSUME VisitedOK, DoneOK, \A g : Running(g)' <=> Running(g),
         UNCHANGED <<inrefs, output, type, updateID, updatePool, sampleTick, signal, kept,
                     keptBefore, cycling>>
  PROVE  VisitedOK' /\ DoneOK' /\ TicksBefore' = TicksBefore
<1>1. \A g : Marked(g)' <=> Marked(g)
  BY DEF Marked
<1>2. \A g : Done(g)' <=> Done(g)
  BY <1>1 DEF Done
<1>3. /\ \A g : Feeders(g)' = Feeders(g)
      /\ Reachable' = Reachable /\ (Acyclic' <=> Acyclic)
  BY SameGraph
<1>4. \A g : Settled(g)' <=> Settled(g)
  BY DEF Settled, Outcomes, Mixer, Through, Glider, Wave, Tuned, Pitch, Scaled, Heard
<1>5. VisitedOK'
  BY <1>1, <1>2, <1>3 DEF VisitedOK, Echoes
<1>6. DoneOK'
  BY <1>2, <1>3, <1>4 DEF DoneOK
<1>7. TicksBefore' = TicksBefore
  BY <1>2, TicksSame
<1> QED
  BY <1>5, <1>6, <1>7

(* What a gate is done with stays right while its feeders' signals, its    *)
(* own and what it remembered do not change.                               *)
LEMMA SettledStays ==
  ASSUME GraphInv, NEW g \in live, Settled(g), signal'[g] = signal[g],
         \A h \in Feeders(g) : signal'[h] = signal[h],
         UNCHANGED <<inrefs, type, keptBefore>>
  PROVE  Settled(g)'
<1>1. PICK V, W, old : V = signal' /\ W = signal /\ old = keptBefore[g]
  OBVIOUS
<1>2. Outcomes(g, inrefs[g], V, {}, old) = Outcomes(g, inrefs[g], W, {}, old)
  BY <1>1, OutcomesDepend
<1>3. PICK o \in Outcomes(g, inrefs[g], V, {}, old) : V[g] = o.block
  BY <1>1, <1>2 DEF Settled
<1>4. Outcomes(g, inrefs[g], signal, {}, keptBefore[g])' = Outcomes(g, inrefs[g], V, {}, old)
  BY <1>1 DEF Outcomes, Mixer, Through, Glider, Wave, Tuned, Pitch, Scaled, Heard
<1> QED
  BY <1>1, <1>3, <1>4 DEF Settled

LEMMA VisitedIdle ==
  ASSUME cycling' = FALSE
  PROVE  VisitedOK' /\ DoneOK'
BY DEF VisitedOK, DoneOK

(* The gate that waits further out for a gate that is a feeder of the      *)
(* innermost one closes a circle of feedback.                              *)
LEMMA NoFeedback ==
  ASSUME RunInv, HeldOK, FramesOK, Acyclic, stack # <<>>,
         NEW x \in Feeders(Top.gate), Running(x)
  PROVE  FALSE
<1>1. PICK m \in 1 .. Len(stack) : stack[m].gate = x /\ stack[m].pc # "enter"
  BY DEF Running
<1>2. PICK n : n = Len(stack)
  OBVIOUS
<1>3. n \in Nat /\ n >= 1 /\ m \in Nat /\ m >= 1 /\ m <= n /\ Top = stack[1]
  BY <1>1, <1>2, TopIs DEF RunInv
<1> DEFINE C == {stack[k].gate : k \in 1 .. m}
<1>4. C \in SUBSET Reachable /\ C # {}
  <2>1. \A k \in 1 .. m : k \in 1 .. n
    BY <1>3
  <2>2. 1 \in 1 .. m
    BY <1>3
  <2>3. \A k \in 1 .. m : stack[k].gate \in Reachable
    BY <1>2, <2>1 DEF FramesOK
  <2> QED
    BY <2>2, <2>3
<1>5. PICK g \in C : Feeders(g) \cap C = {}
  <2> HIDE DEF C
  <2> QED
    BY <1>4 DEF Acyclic
<1>6. PICK k \in 1 .. m : g = stack[k].gate
  OBVIOUS
<1>7. x \in C /\ \A j \in 1 .. m : stack[j].gate \in C
  <2>1. m \in 1 .. m
    BY <1>3
  <2> QED
    BY <1>1, <2>1
<1>8. CASE k = 1
  BY <1>3, <1>5, <1>6, <1>7, <1>8
<1>9. CASE k # 1
  <2>1. k \in 2 .. n /\ k - 1 \in 1 .. m /\ k \in 1 .. n /\ k > 1
    BY <1>3, <1>9
  <2>2. inrefs[stack[k].gate][stack[k].i] = stack[k - 1].gate
    BY <1>2, <2>1 DEF HeldOK
  <2>3. stack[k] \in Frame /\ FrameOK(stack[k]) /\ stack[k].pc = "fetch" /\ stack[k - 1] \in Frame
    <3>1. k - 1 \in 1 .. n
      BY <1>3, <2>1
    <3> QED
      BY <1>2, <2>1, <3>1 DEF RunInv, StackOK
  <2>4. stack[k].i \in Slot
    <3>1. stack[k].i \in Nat /\ stack[k].i < nins(stack[k].gate) /\ stack[k].gate \in live
      BY <2>3 DEF FrameOK, Frame
    <3>2. nins(stack[k].gate) \in 0 .. MaxCx /\ MaxCx \in Nat
      BY <3>1, GateTypes DEF RunInv
    <3>3. PICK i, l : i = stack[k].i /\ l = nins(stack[k].gate)
      OBVIOUS
    <3> QED
      BY <3>1, <3>2, <3>3 DEF Slot
  <2>5. stack[k - 1].gate \in Feeders(g)
    <3>1. stack[k - 1].gate \in Gate
      BY <2>3 DEF Frame
    <3>2. stack[k - 1].gate # NULL
      BY <3>1, GateTypes DEF RunInv
    <3> QED
      BY <1>6, <2>2, <2>4, <3>2 DEF Feeders
  <2>6. stack[k - 1].gate \in C
    BY <1>7, <2>1
  <2> QED
    BY <1>5, <2>5, <2>6
<1> QED
  BY <1>8, <1>9

LEMMA CycleInit ==
  ASSUME RunInit
  PROVE  CycleInv
<1>1. stack = <<>> /\ cycling = FALSE
  BY DEF RunInit, RunVarsInit
<1>2. Len(stack) = 0
  BY <1>1
<1>3. 1 .. Len(stack) = {}
  BY <1>2
<1>4. FramesOK
  BY <1>3 DEF FramesOK
<1>5. VisitedOK /\ DoneOK
  BY <1>1 DEF VisitedOK, DoneOK
<1> QED
  BY <1>4, <1>5, InsWithinInit DEF CycleInv

LEMMA InsWithinSame ==
  ASSUME InsWithin, UNCHANGED <<live, type, inrefs>>
  PROVE  InsWithin'
BY DEF InsWithin, nins

(* The new number is no gate's yet. *)
LEMMA StartMarksNone ==
  ASSUME NoWrap, RunInv, OutputOK, StartCycle
  PROVE  \A g \in Gate : ~Marked(g)'
<1>1. /\ cycles < MaxCycles /\ updatePool' = (updatePool + 1) % IdMod /\ updateID' = updateID
  BY DEF StartCycle
<1>2. updatePool = FirstId + cycles /\ \A g \in Gate : updateID[g] <= updatePool
  BY DEF OutputOK
<1>3. /\ cycles \in Nat /\ updatePool \in Nat /\ MaxCycles \in Nat /\ IdMod \in Nat \ {0}
      /\ FirstId \in Nat /\ \A g \in Gate : updateID[g] \in Nat
  BY OutputTypes, BoundsAre
<1>4. updatePool' = updatePool + 1
  <2> DEFINE p == updatePool + 1
  <2>1. p \in Nat /\ p < IdMod
    BY <1>1, <1>2, <1>3 DEF NoWrap
  <2> HIDE DEF p
  <2>2. p % IdMod = p
    BY <1>3, <2>1
  <2> QED
    BY <1>1, <2>2 DEF p
<1>5. \A g \in Gate : updateID[g] # updatePool + 1
  BY <1>2, <1>3
<1> QED
  BY <1>1, <1>4, <1>5 DEF Marked

LEMMA CycleStart ==
  ASSUME NoWrap, RunInv, OutputOK, CycleInv, StartCycle
  PROVE  CycleInv' /\ TicksBefore' = TicksBefore
<1>1. /\ stack' = <<Activation(output)>> /\ cycling' = TRUE
      /\ UNCHANGED <<live, type, inrefs, output, updateID, sampleTick, signal, kept>>
      /\ keptBefore' = kept
  BY DEF StartCycle, graphVars
<1>2. (\A g : ~Running(g)') /\ \A g \in Gate : ~Marked(g)'
  BY StartKeeps, StartMarksNone DEF RunInv
<1>3. VisitedOK' /\ DoneOK'
  <2>1. \A g \in Gate : kept'[g] = keptBefore'[g]
    BY <1>1
  <2> QED
    BY <1>2, <2>1 DEF VisitedOK, DoneOK, Done
<1>4. PICK a : a = Activation(output)
  OBVIOUS
<1>5. a.gate = output /\ \A i \in Slot : a.ins[i] = NULL
  BY <1>4 DEF Activation, NoBuffers
<1>6. FrameReads(a)' /\ a.gate \in Reachable'
  <2>1. output \in Reachable
    BY ReachableIs DEF Closed, RunInv
  <2> QED
    BY <1>1, <1>5, <2>1, SameGraph DEF FrameReads
<1>7. PICK s : s = <<a>>
  OBVIOUS
<1>8. stack' = s /\ Len(s) = 1 /\ s[1] = a
  BY <1>1, <1>4, <1>7
<1>9. \A k \in 1 .. Len(s) : FrameReads(s[k])' /\ s[k].gate \in Reachable'
  BY <1>6, <1>8
<1>10. FramesOK'
  BY <1>8, <1>9 DEF FramesOK
<1>11. TicksBefore' = TicksBefore
  <2>1. ~cycling
    BY DEF StartCycle
  <2> QED
    BY <1>1, <1>2, <2>1, TicksAre DEF Done
<1> QED
  BY <1>1, <1>3, <1>10, <1>11, InsWithinSame DEF CycleInv

LEMMA CycleFinish ==
  ASSUME CycleInv, FinishCycle
  PROVE  CycleInv'
<1>1. cycling' = FALSE /\ UNCHANGED <<stack, live, type, inrefs, output>>
  BY DEF FinishCycle, graphVars
<1> QED
  BY <1>1, FramesSame, VisitedIdle, InsWithinSame DEF CycleInv

LEMMA CycleEnterAgain ==
  ASSUME RunInv, CycleInv, EnterAgain
  PROVE  CycleInv' /\ TicksBefore' = TicksBefore
<1>1. /\ stack # <<>> /\ Top.pc = "enter" /\ stack' = Tail(stack)
      /\ UNCHANGED <<live, type, inrefs, output, updateID, updatePool, sampleTick, signal, kept,
                     keptBefore, cycling>>
  BY DEF EnterAgain, At, graphVars, gateVars
<1>2. FramesOK'
  BY <1>1, FramesReturn DEF RunInv, CycleInv
<1>3. \A g : Running(g)' <=> Running(g)
  <2>1. \A g : Running(g)' => Running(g)
    BY <1>1, PopKeeps DEF RunInv
  <2>2. \A g : Running(g) => Running(g)'
    BY <1>1, RunningStays DEF RunInv
  <2> QED
    BY <2>1, <2>2
<1>4. VisitedOK' /\ DoneOK' /\ TicksBefore' = TicksBefore
  BY <1>1, <1>3, VisitedSame DEF CycleInv
<1> QED
  BY <1>1, <1>2, <1>4, InsWithinSame DEF CycleInv

(* The loop goes on within an activation that was entered before. *)
LEMMA CycleGoesOn ==
  ASSUME RunInv, CycleInv, stack # <<>>, Top.pc # "enter",
         NEW f \in Frame, FrameOK(f), Continue(f), f.gate = Top.gate, f.pc # "enter", FrameReads(f),
         UNCHANGED <<live, type, inrefs, output, updateID, updatePool, sampleTick, signal, kept,
                     keptBefore, cycling>>
  PROVE  CycleInv' /\ TicksBefore' = TicksBefore
<1>0. StackOK
  BY DEF RunInv
<1>1. FramesOK'
  BY <1>0, FramesContinue DEF CycleInv
<1>2. Running(Top.gate) /\ Marked(Top.gate)
  BY <1>0, TopRuns
<1>3. \A g : Running(g)' => Running(g)
  <2>1. updateID'[f.gate] = updatePool /\ \A g \in Gate : Marked(g) => updateID'[g] = updatePool
    BY <1>2 DEF Marked
  <2>2. \A g : Running(g)' => Running(g) \/ g = f.gate
    BY <1>0, <1>2, <2>1, ContinueKeeps
  <2> QED
    BY <1>2, <2>2
<1>4. \A g : Running(g) => Running(g)'
  <2>1. \A g : Running(g) /\ stack' # Tail(stack) => Running(g)'
    BY <1>0, RunningStays
  <2>2. stack' # Tail(stack)
    <3> DEFINE n == Len(stack)
               m == Len(Tail(stack))
    <3>1. m = n - 1 /\ n \in Nat
      BY <1>0, PopIs DEF StackOK
    <3> HIDE DEF m, n
    <3>2. m # n
      BY <3>1
    <3>3. Len(<<f>> \o Tail(stack)) = n
      BY <1>0, ContinueIs DEF StackOK, n
    <3> QED
      BY <3>2, <3>3, Zenon DEF Continue, m
  <2> QED
    BY <2>1, <2>2
<1>5. VisitedOK' /\ DoneOK' /\ TicksBefore' = TicksBefore
  BY <1>3, <1>4, VisitedSame DEF CycleInv
<1> QED
  BY <1>1, <1>5, InsWithinSame DEF CycleInv

(* A fault leaves all as it is. *)
LEMMA CycleSame ==
  ASSUME RunInv, CycleInv,
         UNCHANGED <<stack, live, type, inrefs, output, updateID, updatePool, sampleTick, signal,
                     kept, keptBefore, cycling>>
  PROVE  CycleInv' /\ TicksBefore' = TicksBefore
<1>1. \A g : Running(g)' <=> Running(g)
  BY SameStack DEF RunInv
<1> QED
  BY <1>1, FramesSame, VisitedSame, InsWithinSame DEF CycleInv

LEMMA CycleTestIn ==
  ASSUME RunInv, CycleInv, TestIn
  PROVE  CycleInv' /\ TicksBefore' = TicksBefore
<1>1. /\ stack # <<>> /\ Top.pc = "test" /\ Top.i < nins(Top.gate)
      /\ UNCHANGED <<live, type, inrefs, output, updateID, updatePool, sampleTick, signal, kept,
                     keptBefore, cycling>>
  BY DEF TestIn, At, graphVars, gateVars
<1>2. /\ Top \in Frame /\ Top.i \in Nat /\ Top.i \in Slot /\ Top = stack[1] /\ FrameOK(Top)
      /\ Top.gate \in live /\ Len(stack) \in Nat /\ Len(stack) >= 1
  BY <1>1, TopIs, TopSlot DEF RunInv, Frame, FrameOK
<1>3. FrameReads(Top) /\ nins(Top.gate) \in Nat
  BY <1>2, GateTypes DEF CycleInv, FramesOK, RunInv
<1>4. PICK e, j, b : e = Top /\ j = Top.i /\ b = NULL
  OBVIOUS
<1>5. PICK f, h : f = [e EXCEPT !.pc = "call"] /\ h = GoneOn(e, j, b)
  OBVIOUS
<1>6. /\ e \in Frame /\ e.pc = "test" /\ j \in Slot /\ b \in Pointer \cup {NULL} /\ e.i = j
      /\ FrameReads(e) /\ e.gate = Top.gate /\ j \in Nat /\ j < nins(e.gate) /\ nins(e.gate) \in Nat
      /\ e.gate \in live
  BY <1>1, <1>2, <1>3, <1>4
<1>7. f \in Frame /\ f.gate = e.gate /\ f.pc = "call" /\ f.i = j /\ f.ins = e.ins
  BY <1>5, <1>6 DEF Frame
<1>8. h \in Frame /\ h.gate = e.gate /\ h.pc = "test" /\ h.i = j + 1 /\ h.ins = [e.ins EXCEPT ![j] = b]
  BY <1>5, <1>6, GoneOnIs
<1>9. Continue(f) \/ Continue(h)
  BY <1>4, <1>5 DEF TestIn, GoneOn
<1>10. FrameReads(f) /\ FrameOK(f)
  BY <1>6, <1>7 DEF FrameReads, FrameOK
<1>11. FrameReads(h) /\ FrameOK(h)
  <2>1. \A i \in Slot : h.ins[i] = IF i = j THEN NULL ELSE e.ins[i]
    BY <1>4, <1>6, <1>8 DEF Frame
  <2> QED
    BY <1>6, <1>8, <2>1 DEF FrameReads, FrameOK
<1>12. Top.pc # "enter" /\ f.gate = Top.gate /\ h.gate = Top.gate /\ f.pc # "enter" /\ h.pc # "enter"
  BY <1>1, <1>6, <1>7, <1>8
<1> QED
  BY <1>1, <1>7, <1>8, <1>9, <1>10, <1>11, <1>12, CycleGoesOn

LEMMA CycleFetchIn ==
  ASSUME RunInv, CycleInv, FetchIn
  PROVE  CycleInv' /\ TicksBefore' = TicksBefore
<1>1. /\ stack # <<>> /\ Top.pc = "fetch"
      /\ UNCHANGED <<live, type, inrefs, output, updateID, updatePool, sampleTick, signal, kept,
                     keptBefore>>
  BY DEF FetchIn, At, graphVars, gateVars
<1>2. /\ Top \in Frame /\ Top = stack[1] /\ Top.gate \in live /\ Top.i < nins(Top.gate)
      /\ Len(stack) \in Nat /\ Len(stack) >= 1 /\ Top.i \in Nat
  BY <1>1, TopIs DEF RunInv, FrameOK, Frame
<1>3. FrameReads(Top) /\ Top.i \in Slot /\ nins(Top.gate) \in Nat
  <2>1. FrameReads(Top)
    BY <1>2 DEF CycleInv, FramesOK
  <2> QED
    BY <1>1, <1>2, <2>1, TopSlot, GateTypes DEF RunInv
<1>4. PICK h : h = inrefs[Top.gate][Top.i]
  OBVIOUS
<1>5. cycling' = cycling
  BY <1>4 DEF FetchIn, Crash
<1>6. CASE h = NULL
  <2>1. stack' = stack
    BY <1>4, <1>6 DEF FetchIn, Crash
  <2> QED
    BY <1>1, <1>5, <2>1, CycleSame
<1>7. CASE h # NULL
  <2>1. h \in Gate
    BY <1>2, <1>3, <1>4, <1>7, GateTypes DEF RunInv
  <2>2. PICK e, j, b, f : e = Top /\ j = Top.i /\ b = BufferOf(h) /\ f = Fetched(e, j, b)
    OBVIOUS
  <2>3. /\ e \in Frame /\ j \in Slot /\ j \in Nat /\ e.i = j /\ FrameReads(e) /\ e.gate = Top.gate
        /\ b \in Pointer \cup {NULL} /\ j < nins(e.gate) /\ nins(e.gate) \in Nat /\ e.gate \in live
    BY <1>2, <1>3, <2>1, <2>2, BufferIs DEF RunInv
  <2>4. f \in Frame /\ f.gate = e.gate /\ f.pc = "test" /\ f.i = j + 1 /\ f.ins = [e.ins EXCEPT ![j] = b]
    BY <2>2, <2>3, FetchedIs
  <2>5. Continue(f)
    BY <1>4, <1>7, <2>2 DEF FetchIn, Fetched
  <2>6. b # NULL => b[1] = inrefs[e.gate][j]
    BY <1>4, <2>2 DEF BufferOf
  <2>7. FrameReads(f) /\ FrameOK(f)
    <3>1. \A i \in Slot : f.ins[i] = IF i = j THEN b ELSE e.ins[i]
      BY <2>3, <2>4 DEF Frame
    <3> QED
      BY <2>3, <2>4, <2>6, <3>1 DEF FrameReads, FrameOK
  <2>8. Top.pc # "enter" /\ f.gate = Top.gate /\ f.pc # "enter"
    BY <1>1, <2>3, <2>4
  <2> QED
    BY <1>1, <1>5, <2>4, <2>5, <2>7, <2>8, CycleGoesOn
<1> QED
  BY <1>6, <1>7

LEMMA CycleCallIn ==
  ASSUME RunInv, CycleInv, CallIn
  PROVE  CycleInv' /\ TicksBefore' = TicksBefore
<1>1. /\ stack # <<>> /\ Top.pc = "call"
      /\ UNCHANGED <<live, type, inrefs, output, updateID, updatePool, sampleTick, signal, kept,
                     keptBefore>>
  BY DEF CallIn, At, graphVars, gateVars
<1>2. /\ Top \in Frame /\ Top = stack[1] /\ Top.gate \in live /\ Top.i < nins(Top.gate)
      /\ Len(stack) \in Nat /\ Len(stack) >= 1
  BY <1>1, TopIs DEF RunInv, FrameOK
<1>3. FrameReads(Top) /\ Top.gate \in Reachable /\ Top.i \in Slot
  <2>1. FrameReads(Top) /\ Top.gate \in Reachable
    BY <1>2 DEF CycleInv, FramesOK
  <2> QED
    BY <1>1, <1>2, <2>1, TopSlot
<1>4. PICK h : h = inrefs[Top.gate][Top.i]
  OBVIOUS
<1>5. cycling' = cycling
  BY <1>4 DEF CallIn, Crash
<1>6. CASE h = NULL
  <2>1. stack' = stack
    BY <1>4, <1>6 DEF CallIn, Crash
  <2> QED
    BY <1>1, <1>5, <2>1, CycleSame
<1>7. CASE h # NULL
  <2>1. h \in live /\ h \in Gate /\ h \in Reachable /\ nins(h) \in Nat
    <3>1. h \in live /\ h \in Gate /\ nins(h) \in Nat
      BY <1>2, <1>3, <1>4, <1>7, GateTypes DEF RunInv
    <3>2. h \in Feeders(Top.gate)
      BY <1>3, <1>4, <1>7 DEF Feeders
    <3> QED
      BY <1>3, <3>1, <3>2, ReachableIs DEF RunInv, Closed
  <2>2. PICK a, b : a = Activation(h) /\ b = [Top EXCEPT !.pc = "fetch"]
    OBVIOUS
  <2>3. a \in Frame /\ a.gate = h /\ \A i \in Slot : a.ins[i] = NULL
    BY <2>1, <2>2 DEF Activation, NoBuffers, Frame
  <2>4. b \in Frame /\ b.gate = Top.gate /\ b.pc = "fetch" /\ b.ins = Top.ins
    BY <1>2, <2>2 DEF Frame
  <2>5. FrameReads(a) /\ FrameReads(b)
    BY <1>3, <2>3, <2>4 DEF FrameReads
  <2>6. stack' = <<a, b>> \o Tail(stack)
    BY <1>4, <1>7, <2>2 DEF CallIn
  <2>7. FramesOK'
    BY <1>1, <2>1, <2>3, <2>4, <2>5, <2>6, FramesCall DEF RunInv, CycleInv
  <2>8. \A g : Running(g)' <=> Running(g)
    <3>1. \A g : Running(g)' => Running(g)
      <4>1. stack' = <<Activation(h), [Top EXCEPT !.pc = "fetch"]>> \o Tail(stack)
        BY <2>2, <2>6
      <4> QED
        BY <1>1, <2>1, <4>1, CallKeeps DEF RunInv
    <3>2. \A g : Running(g) => Running(g)'
      <4>1. \A g : Running(g) => Running(g)' \/ (g = Top.gate /\ Top.pc # "enter")
        BY <1>1, <2>3, <2>4, <2>6, RunningStays DEF RunInv
      <4>2. stack' # Tail(stack)
        <5> DEFINE n == Len(stack)
                   m == Len(Tail(stack))
        <5>1. m = n - 1 /\ n \in Nat
          BY <1>1, PopIs DEF RunInv, StackOK
        <5> HIDE DEF m, n
        <5>2. m # n + 1
          BY <5>1
        <5>3. Len(<<a, b>> \o Tail(stack)) = n + 1
          BY <1>1, <2>3, <2>4, CallIs DEF RunInv, StackOK, n
        <5> QED
          BY <2>6, <5>2, <5>3, Zenon DEF m
      <4> QED
        BY <1>1, <2>3, <2>4, <2>6, <4>2, RunningStays DEF RunInv
    <3> QED
      BY <3>1, <3>2
  <2>9. VisitedOK' /\ DoneOK' /\ TicksBefore' = TicksBefore
    BY <1>1, <1>5, <2>8, VisitedSame DEF CycleInv
  <2> QED
    BY <1>1, <2>7, <2>9, InsWithinSame DEF CycleInv
<1> QED
  BY <1>6, <1>7

LEMMA CycleEnter ==
  ASSUME RunInv, CycleInv, Enter
  PROVE  CycleInv' /\ TicksBefore' = TicksBefore
<1>0. StackOK /\ GraphInv
  BY DEF RunInv
<1>1. /\ stack # <<>> /\ Top.pc = "enter" /\ ~Marked(Top.gate)
      /\ UNCHANGED <<live, type, inrefs, output, updatePool, sampleTick, kept, keptBefore, cycling>>
  BY DEF Enter, At, Marked, graphVars
<1>2. PICK g, f : g = Top.gate /\ f = [Top EXCEPT !.pc = "test"]
  OBVIOUS
<1>3. /\ Top \in Frame /\ Top = stack[1] /\ FrameOK(Top) /\ g \in Gate /\ g \in live
      /\ updateID \in [Gate -> 0 .. IdMod - 1] /\ signal \in [Gate -> SUBSET Gate]
      /\ Len(stack) \in Nat /\ Len(stack) >= 1
  BY <1>1, <1>2, TopIs, GateTypes DEF RunInv, FrameOK, ValuesOK
<1>4. f \in Frame /\ f.gate = Top.gate /\ f.pc = "test" /\ f.i = Top.i /\ f.ins = Top.ins
  BY <1>2, <1>3 DEF Frame
<1>5. NeedsBuffer(g)
  BY RunAssumption DEF NeedsBuffer, SampleBufferSize
<1>6. /\ Continue(f) /\ updateID' = [updateID EXCEPT ![g] = updatePool]
      /\ signal' = [signal EXCEPT ![g] = {}]
  BY <1>2, <1>5 DEF Enter
<1>7. /\ updateID'[g] = updatePool /\ signal'[g] = {}
      /\ \A h \in Gate : h # g => updateID'[h] = updateID[h] /\ signal'[h] = signal[h]
  BY <1>3, <1>6
<1>8. ~Marked(g) /\ Marked(g)' /\ \A h \in Gate : h # g => (Marked(h)' <=> Marked(h))
  BY <1>1, <1>2, <1>7 DEF Marked
<1>9. FrameReads(f) /\ g \in Reachable
  <2>1. FrameReads(Top) /\ Top.gate \in Reachable
    BY <1>3 DEF CycleInv, FramesOK
  <2> QED
    BY <1>2, <1>4, <2>1 DEF FrameReads
<1>10. FramesOK'
  BY <1>0, <1>1, <1>4, <1>6, <1>9, FramesContinue DEF CycleInv
<1>11. /\ Running(g)'
       /\ \A h \in Gate : h # g => (Running(h)' <=> Running(h))
  <2>1. \A h : Running(h)' => Running(h) \/ h = g
    <3>1. FrameOK(f) /\ f.gate = g /\ f.pc # "enter"
      BY <1>2, <1>3, <1>4 DEF FrameOK
    <3>2. \A h \in Gate : Marked(h) => updateID'[h] = updatePool
      BY <1>7, <1>8 DEF Marked
    <3>3. UNCHANGED <<live, type, updatePool>> /\ updateID'[f.gate] = updatePool
      BY <1>1, <1>7, <3>1
    <3>4. (Top.pc = "enter" => ~Marked(f.gate)) /\ f.gate = Top.gate
      BY <1>1, <1>4
    <3>5. \A h : Running(h)' => Running(h) \/ h = f.gate
      BY <1>0, <1>1, <1>4, <1>6, <3>1, <3>2, <3>3, <3>4, ContinueKeeps
    <3> QED
      BY <3>1, <3>5
  <2>2. \A h : Running(h) => Running(h)' \/ (h = Top.gate /\ Top.pc # "enter")
    <3>1. f.gate = Top.gate /\ f.pc # "enter"
      BY <1>4
    <3> QED
      BY <1>0, <1>1, <1>4, <1>6, <3>1, RunningStays
  <2>3. PICK s : s = <<f>> \o Tail(stack)
    OBVIOUS
  <2>4. Len(s) \in Nat /\ Len(s) >= 1 /\ s[1] = f
    BY <1>0, <1>1, <1>4, <2>3, ContinueIs DEF StackOK
  <2>5. s = stack' /\ 1 \in 1 .. Len(s) /\ s[1].gate = g /\ s[1].pc # "enter"
    <3>1. s = stack'
      BY <1>6, <2>3 DEF Continue
    <3>2. 1 \in 1 .. Len(s)
      BY <2>4
    <3> QED
      BY <1>2, <1>4, <2>4, <3>1, <3>2
  <2>6. Running(g)'
    BY <2>5 DEF Running
  <2> QED
    BY <1>1, <2>1, <2>2, <2>6
<1>12. \A h \in Gate : Done(h)' <=> Done(h)
  BY <1>8, <1>11 DEF Done
<1>13. /\ \A h : Feeders(h)' = Feeders(h)
       /\ Reachable' = Reachable /\ (Acyclic' <=> Acyclic)
  BY <1>1, SameGraph
<1>14. \A h \in Gate : Feeders(h) \subseteq Gate
  BY <1>0, FeedersAre
<1>15. VisitedOK'
  <2> SUFFICES ASSUME cycling'
               PROVE  /\ \A h \in Gate : Marked(h)' => /\ h \in Reachable
                                                       /\ signal'[h] \subseteq Echoes
                                                       /\ kept[h] \subseteq Echoes
                      /\ \A h \in Gate : Running(h)' => signal'[h] = {}
                      /\ \A h \in Gate : Done(h)' => \A x \in Feeders(h) : Marked(x)'
                      /\ \A h \in Gate : ~Done(h)' => kept[h] = keptBefore[h]
    <3>1. Echoes' = Echoes
      BY <1>1, <1>13 DEF Echoes
    <3> QED
      BY <1>1, <1>13, <3>1 DEF VisitedOK
  <2>1. /\ \A h \in Gate : Marked(h) => /\ h \in Reachable
                                        /\ signal[h] \subseteq Echoes
                                        /\ kept[h] \subseteq Echoes
        /\ \A h \in Gate : Running(h) => signal[h] = {}
        /\ \A h \in Gate : Done(h) => \A x \in Feeders(h) : Marked(x)
        /\ \A h \in Gate : ~Done(h) => kept[h] = keptBefore[h]
    BY <1>1 DEF CycleInv, VisitedOK
  <2>2. kept[g] \subseteq Echoes
    <3>1. kept[g] = keptBefore[g]
      BY <1>3, <1>8, <2>1 DEF Done
    <3> QED
      BY <1>9, <3>1 DEF Echoes
  <2>3. \A h \in Gate : Marked(h)' => /\ h \in Reachable
                                      /\ signal'[h] \subseteq Echoes
                                      /\ kept[h] \subseteq Echoes
    BY <1>7, <1>8, <1>9, <2>1, <2>2
  <2>4. \A h \in Gate : Running(h)' => signal'[h] = {}
    BY <1>7, <1>11, <2>1
  <2>5. \A h \in Gate : Done(h)' => \A x \in Feeders(h) : Marked(x)'
    BY <1>8, <1>12, <1>14, <2>1
  <2> QED
    BY <1>12, <2>1, <2>3, <2>4, <2>5
<1>16. DoneOK'
  <2> SUFFICES ASSUME cycling', Acyclic, NEW h \in Gate, Done(h)
               PROVE  (\A x \in Feeders(h) : Done(x)') /\ Settled(h)'
    BY <1>12, <1>13 DEF DoneOK
  <2>1. (\A x \in Feeders(h) : Done(x)) /\ Settled(h)
    BY <1>1 DEF CycleInv, DoneOK
  <2>2. \A x \in Feeders(h) : Done(x)' /\ signal'[x] = signal[x]
    BY <1>7, <1>8, <1>12, <1>14, <2>1 DEF Done
  <2>3. h \in live /\ h # g
    <3>1. h \in Reachable
      BY <1>1 DEF CycleInv, VisitedOK, Done
    <3> QED
      BY <1>0, <1>8, <3>1, ReachableIs DEF Done
  <2>4. Settled(h)'
    BY <1>0, <1>1, <1>7, <2>1, <2>2, <2>3, SettledStays
  <2> QED
    BY <2>2, <2>4
<1>17. TicksBefore' = TicksBefore
  BY <1>1, <1>12, TicksSame
<1> QED
  BY <1>1, <1>10, <1>15, <1>16, <1>17, InsWithinSame DEF CycleInv

(* When every IN has been gathered, the gates gathered are the INs, and    *)
(* all of them have been entered.                                          *)
LEMMA GatheredAre ==
  ASSUME NoWrap, RunInv, HeldOK, CycleInv, stack # <<>>, Top.i >= nins(Top.gate)
  PROVE  /\ Gathered = inrefs[Top.gate]
         /\ \A x \in Feeders(Top.gate) : Marked(x)
<1>1. /\ Top \in Frame /\ Top = stack[1] /\ Top.gate \in live /\ Top.gate \in Gate /\ Top.i \in Nat
      /\ Len(stack) \in Nat /\ Len(stack) >= 1 /\ nins(Top.gate) \in Nat
  BY TopIs, GateTypes DEF RunInv, FrameOK, Frame
<1>2. FrameHeld(Top) /\ FrameReads(Top)
  BY <1>1 DEF HeldOK, CycleInv, FramesOK
<1>3. inrefs[Top.gate] \in [Slot -> Gate \cup {NULL}]
  BY <1>1, FeedersAre DEF RunInv
<1>4. ASSUME NEW i \in Slot
      PROVE  /\ (IF Top.ins[i] = NULL THEN NULL ELSE Top.ins[i][1]) = inrefs[Top.gate][i]
             /\ inrefs[Top.gate][i] # NULL => Marked(inrefs[Top.gate][i])
  <2>1. CASE i >= nins(Top.gate)
    <3>1. inrefs[Top.gate][i] = NULL
      BY <1>1, <2>1 DEF CycleInv, InsWithin
    <3>2. Top.ins[i] = NULL
      <4>1. CASE Top.ins[i] # NULL
        <5>1. Top.ins[i] \in Pointer
          BY <1>1, <4>1 DEF Frame
        <5>2. Top.ins[i][1] \in Gate
          BY <5>1 DEF Pointer
        <5>3. Top.ins[i][1] = NULL
          BY <1>2, <3>1, <4>1 DEF FrameReads
        <5> QED
          BY <5>2, <5>3, GraphAssumption
      <4> QED
        BY <4>1
    <3> QED
      BY <3>1, <3>2
  <2>2. CASE ~(i >= nins(Top.gate))
    <3>1. i < Top.i
      <4>1. PICK m, n : m = Top.i /\ n = nins(Top.gate)
        OBVIOUS
      <4>2. i \in Nat
        BY DEF Slot
      <4> QED
        BY <1>1, <2>2, <4>1, <4>2
    <3>2. Top.ins[i] = NULL => inrefs[Top.gate][i] = NULL
      BY <1>2, <3>1 DEF FrameHeld
    <3>3. Top.ins[i] # NULL => Top.ins[i][1] = inrefs[Top.gate][i] /\ Marked(Top.ins[i][1])
      BY <1>2 DEF FrameHeld, FrameReads
    <3> QED
      BY <3>2, <3>3
  <2> QED
    BY <2>1, <2>2
<1>5. Gathered = inrefs[Top.gate]
  BY <1>3, <1>4 DEF Gathered
<1>6. \A x \in Feeders(Top.gate) : Marked(x)
  BY <1>4 DEF Feeders
<1> QED
  BY <1>5, <1>6

LEMMA CycleUpdate ==
  ASSUME NoWrap, RunInv, HeldInv, CycleInv, Update
  PROVE  CycleInv' /\ TicksBefore' = TicksBefore
<1>0. StackOK /\ GraphInv /\ HeldOK
  BY DEF RunInv, HeldInv
<1>1. /\ stack # <<>> /\ Top.pc = "test" /\ Top.i >= nins(Top.gate)
      /\ UNCHANGED <<live, type, inrefs, output, updatePool, keptBefore>>
  BY DEF Update, At, graphVars
<1>2. PICK g, what : g = Top.gate /\ what = Faulty(Kind[type[Top.gate]], Top.ins)
  OBVIOUS
<1>3. CASE what # ""
  <2>1. UNCHANGED <<stack, cycling, updateID, sampleTick, signal, kept>>
    BY <1>2, <1>3 DEF Update, Crash, gateVars
  <2> QED
    BY <1>1, <2>1, CycleSame
<1>4. CASE what = ""
  <2>1. PICK o \in Outcomes(g, Gathered, signal, signal[g], kept[g]) :
        /\ signal' = [signal EXCEPT ![g] = o.block]
        /\ kept' = [kept EXCEPT ![g] = o.kept]
        /\ sampleTick' = [sampleTick EXCEPT ![g] = @ + 1]
        /\ stack' = Tail(stack) /\ UNCHANGED <<updateID, cycling>>
    BY <1>2, <1>4 DEF Update
  <2>2. /\ g \in live /\ g \in Gate /\ Marked(g) /\ Running(g) /\ cycling
        /\ signal \in [Gate -> SUBSET Gate] /\ kept \in [Gate -> SUBSET Gate]
    BY <1>0, <1>1, <1>2, TopRuns, GateTypes DEF RunInv, ValuesOK, CountsOK
  <2>3. /\ \A h \in Gate : Marked(h) => /\ h \in Reachable
                                        /\ signal[h] \subseteq Echoes
                                        /\ kept[h] \subseteq Echoes
        /\ \A h \in Gate : Running(h) => signal[h] = {}
        /\ \A h \in Gate : Done(h) => \A x \in Feeders(h) : Marked(x)
        /\ \A h \in Gate : ~Done(h) => kept[h] = keptBefore[h]
    BY <2>2 DEF CycleInv, VisitedOK
  <2>4. Gathered = inrefs[g] /\ \A x \in Feeders(g) : Marked(x)
    BY <1>0, <1>1, <1>2, GatheredAre
  <2>5. /\ signal[g] = {} /\ kept[g] = keptBefore[g]
        /\ o \in Outcomes(g, inrefs[g], signal, {}, keptBefore[g])
        /\ signal'[g] = o.block /\ kept'[g] = o.kept
        /\ \A h \in Gate : h # g => signal'[h] = signal[h] /\ kept'[h] = kept[h]
    <3>1. signal[g] = {} /\ kept[g] = keptBefore[g]
      BY <2>2, <2>3 DEF Done
    <3>2. o \in Outcomes(g, inrefs[g], signal, {}, keptBefore[g])
      BY <2>1, <2>4, <3>1
    <3> QED
      BY <2>1, <2>2, <3>1, <3>2
  <2>6. \A h \in Gate : Feeders(h) \subseteq Gate
    BY <1>0, FeedersAre
  <2>7. signal'[g] \subseteq Echoes /\ kept'[g] \subseteq Echoes
    <3>1. \A x \in Feeders(g) : signal[x] \subseteq Echoes
      BY <2>2, <2>3, <2>4, <2>6
    <3>2. g \in Echoes /\ keptBefore[g] \subseteq Echoes
      BY <2>2, <2>3 DEF Echoes
    <3>3. o.block \subseteq Echoes /\ o.kept \subseteq Echoes
      BY <1>0, <2>2, <2>5, <3>1, <3>2, OutcomeOfFeeders
    <3> QED
      BY <2>5, <3>3
  <2>8. \A h : Marked(h)' <=> Marked(h)
    BY <1>1, <2>1 DEF Marked
  <2>9. ~Running(g)' /\ \A h \in Gate : h # g => (Running(h)' <=> Running(h))
    <3>1. \A h : Running(h)' => Running(h)
      BY <1>0, <1>1, <2>1, PopKeeps
    <3>2. ~Running(g)'
      <4>1. Top.pc # "enter"
        BY <1>1
      <4> QED
        BY <1>0, <1>1, <1>2, <2>1, <4>1, PopKeeps
    <3>3. \A h : Running(h) => Running(h)' \/ h = g
      BY <1>0, <1>1, <1>2, <2>1, RunningStays
    <3> QED
      BY <3>1, <3>2, <3>3
  <2>10. Done(g)' /\ ~Done(g) /\ \A h \in Gate : h # g => (Done(h)' <=> Done(h))
    BY <2>2, <2>8, <2>9 DEF Done
  <2>11. /\ \A h : Feeders(h)' = Feeders(h)
         /\ Reachable' = Reachable /\ (Acyclic' <=> Acyclic)
    BY <1>1, SameGraph
  <2>12. FramesOK'
    BY <1>0, <1>1, <2>1, FramesReturn DEF CycleInv
  <2>13. VisitedOK'
    <3>1. \A h \in Gate : Marked(h)' => /\ h \in Reachable
                                        /\ signal'[h] \subseteq Echoes
                                        /\ kept'[h] \subseteq Echoes
      BY <2>2, <2>3, <2>5, <2>7, <2>8
    <3>2. \A h \in Gate : Running(h)' => signal'[h] = {}
      BY <2>3, <2>5, <2>9
    <3>3. \A h \in Gate : Done(h)' => \A x \in Feeders(h) : Marked(x)'
      BY <2>3, <2>4, <2>8, <2>10
    <3>4. \A h \in Gate : ~Done(h)' => kept'[h] = keptBefore'[h]
      BY <1>1, <2>3, <2>5, <2>10
    <3>5. Echoes' = Echoes
      BY <1>1, <2>11 DEF Echoes
    <3> QED
      BY <2>11, <3>1, <3>2, <3>3, <3>4, <3>5 DEF VisitedOK
  <2>14. DoneOK'
    <3> SUFFICES ASSUME Acyclic, NEW h \in Gate, Done(h)'
                 PROVE  (\A x \in Feeders(h) : Done(x)') /\ Settled(h)'
      BY <2>11 DEF DoneOK
    <3>1. CASE h = g
      <4>1. \A x \in Feeders(g) : Done(x)
        <5>1. ASSUME NEW x \in Feeders(g), Running(x)
              PROVE  FALSE
          BY <1>0, <1>1, <1>2, <5>1, NoFeedback DEF CycleInv
        <5> QED
          BY <2>4, <5>1 DEF Done
      <4>2. \A x \in Feeders(g) : x # g /\ signal'[x] = signal[x] /\ Done(x)'
        BY <2>2, <2>5, <2>6, <2>10, <4>1
      <4>3. PICK V, old : V = signal' /\ old = keptBefore[g]
        OBVIOUS
      <4>4. Outcomes(g, inrefs[g], V, {}, old) = Outcomes(g, inrefs[g], signal, {}, old)
        BY <1>0, <2>2, <4>2, <4>3, OutcomesDepend
      <4>5. Outcomes(g, inrefs[g], signal, {}, keptBefore[g])' = Outcomes(g, inrefs[g], V, {}, old)
        BY <1>1, <4>3 DEF Outcomes, Mixer, Through, Glider, Wave, Tuned, Pitch, Scaled, Heard
      <4>6. Settled(g)'
        BY <2>5, <4>3, <4>4, <4>5 DEF Settled
      <4> QED
        BY <3>1, <4>2, <4>6
    <3>2. CASE h # g
      <4>1. Done(h) /\ h \in Reachable
        BY <2>3, <2>10, <3>2 DEF Done
      <4>2. (\A x \in Feeders(h) : Done(x)) /\ Settled(h) /\ h \in live
        BY <1>0, <2>2, <4>1, ReachableIs DEF CycleInv, DoneOK
      <4>3. \A x \in Feeders(h) : x # g /\ signal'[x] = signal[x] /\ Done(x)'
        BY <2>5, <2>6, <2>10, <4>2
      <4>4. Settled(h)'
        BY <1>0, <1>1, <2>5, <3>2, <4>2, <4>3, SettledStays
      <4> QED
        BY <4>3, <4>4
    <3> QED
      BY <3>1, <3>2
  <2>15. TicksBefore' = TicksBefore
    <3>1. /\ sampleTick \in [Gate -> Nat] /\ cycling'
          /\ \A n \in Nat : (n + 1) - 1 = n
      BY <2>1, <2>2 DEF RunInv, CountsOK
    <3>2. \A h \in Gate : sampleTick'[h] = IF h = g THEN sampleTick[h] + 1 ELSE sampleTick[h]
      BY <2>1, <3>1
    <3>3. \A h \in Gate :
            (IF cycling' /\ Done(h)' THEN sampleTick'[h] - 1 ELSE sampleTick'[h])
              = (IF cycling /\ Done(h) THEN sampleTick[h] - 1 ELSE sampleTick[h])
      BY <2>2, <2>10, <3>1, <3>2
    <3> QED
      BY <3>3, TicksAre, Zenon
  <2> QED
    BY <1>1, <2>12, <2>13, <2>14, <2>15, InsWithinSame DEF CycleInv
<1> QED
  BY <1>3, <1>4

LEMMA CycleCommand ==
  ASSUME RunInv, CycleInv, ~cycling, Command
  PROVE  CycleInv' /\ TicksBefore' = TicksBefore
<1>1. /\ stack' = <<>> /\ cycling = FALSE /\ UNCHANGED <<cycling, sampleTick>> /\ GraphNext
  BY DEF Command, gateVars, cycleVars, RunInv, CountsOK, ValuesOK
<1>2. Len(stack') = 0
  BY <1>1
<1>3. 1 .. Len(stack') = {}
  BY <1>2
<1>4. FramesOK'
  BY <1>3 DEF FramesOK
<1>5. TicksBefore' = TicksBefore
  BY <1>1, TicksSame
<1> QED
  BY <1>1, <1>4, <1>5, VisitedIdle, InsWithinKeeps DEF CycleInv, RunInv

LEMMA CycleInvStep ==
  ASSUME NoWrap, RunInv, OutputOK, HeldInv, CycleInv, [SeqNext]_vars
  PROVE  CycleInv' /\ (FinishCycle \/ TicksBefore' = TicksBefore)
<1>1. CASE UNCHANGED vars
  BY <1>1, CycleSame DEF vars, graphVars, runVars, gateVars, cycleVars
<1>2. CASE SeqNext
  BY <1>2, CycleStart, CycleFinish, CycleEnterAgain, CycleEnter, CycleTestIn, CycleCallIn,
     CycleFetchIn, CycleUpdate, CycleCommand DEF SeqNext, Audio
<1> QED
  BY <1>1, <1>2

(* Until the update identifiers wrap, and while no command comes in        *)
(* between: what the walk has visited and computed is what the connections *)
(* say.                                                                    *)
THEOREM CycleInvariant ==
  ASSUME NoWrap
  PROVE  SeqSpec => [](RunInv /\ OutputOK /\ HeldInv /\ CycleInv)
<1>1. RunInit => RunInv /\ OutputOK /\ HeldInv /\ CycleInv
  BY RunInitHolds, OutputInit, HeldInit, CycleInit
<1>2. RunInv /\ OutputOK /\ HeldInv /\ CycleInv /\ [SeqNext]_vars
        => RunInv' /\ OutputOK' /\ HeldInv' /\ CycleInv'
  <2>1. [SeqNext]_vars => [ConcNext]_vars
    BY DEF SeqNext, ConcNext
  <2> QED
    BY <2>1, RunStep, OutputStep, HeldStep, CycleInvStep
<1> QED
  BY <1>1, <1>2, PTL DEF SeqSpec

(* At the end of the walk just the gates behind the output have run. *)
LEMMA WalkedIs ==
  ASSUME RunInv, OutputOK, CycleInv, cycling, stack = <<>>
  PROVE  \A g \in Gate : (Done(g) <=> g \in Reachable) /\ (Marked(g) <=> g \in Reachable)
<1>1. Len(stack) = 0
  OBVIOUS
<1>2. \A g : ~Running(g)
  <2>1. 1 .. Len(stack) = {}
    BY <1>1
  <2> QED
    BY <2>1 DEF Running
<1> DEFINE M == {g \in Gate : Marked(g)}
<1>3. output \in M
  BY GateTypes DEF OutputOK, RunInv
<1>4. \A g \in M : Feeders(g) \subseteq M
  <2> SUFFICES ASSUME NEW g \in M, NEW h \in Feeders(g)
               PROVE  h \in M
    OBVIOUS
  <2>1. Done(g)
    BY <1>2 DEF Done
  <2>2. h \in Gate
    BY FeedersAre DEF RunInv
  <2> QED
    BY <2>1, <2>2 DEF CycleInv, VisitedOK
<1>5. Reachable \subseteq M
  <2>1. M \in SUBSET Gate
    OBVIOUS
  <2>2. Closed(M)
    BY <1>3, <1>4 DEF Closed
  <2> HIDE DEF M
  <2> QED
    BY <2>1, <2>2, ReachableIs DEF RunInv
<1>6. \A g \in Gate : Marked(g) => g \in Reachable
  BY DEF CycleInv, VisitedOK
<1> QED
  BY <1>2, <1>5, <1>6 DEF Done

(* Whatever the buffers held, and in whatever order the walk comes upon    *)
(* the gates: on a graph without feedback, every signal behind the output  *)
(* is one that the connections, with the pitch of a wave and the last      *)
(* sample of a glider, define.                                             *)
THEOREM OutputFollowsGraph ==
  ASSUME NoWrap
  PROVE  SeqSpec => []OutputIsGraph
<1>1. RunInv /\ OutputOK /\ HeldInv /\ CycleInv => OutputIsGraph
  <2> SUFFICES ASSUME RunInv, OutputOK, CycleInv, Walked, Acyclic, NEW g \in Reachable
               PROVE  Settled(g)
    BY DEF OutputIsGraph, Sound, Settled
  <2>1. g \in Gate /\ cycling /\ stack = <<>>
    BY ReachableIs DEF Walked, RunInv
  <2>2. Done(g)
    BY <2>1, WalkedIs
  <2> QED
    BY <2>1, <2>2 DEF CycleInv, DoneOK
<1> QED
  BY <1>1, CycleInvariant, PTL

-----------------------------------------------------------------------------
(* One cycle is one step of WaveCycle. *)

LEMMA ConnectedIs ==
  ASSUME GraphInv
  PROVE  OneStep!Connected = Reachable
<1>1. \A S \in SUBSET Gate : OneStep!Closed(S) <=> Closed(S)
  BY DEF OneStep!Closed, Closed
<1> QED
  BY <1>1 DEF OneStep!Connected, Reachable

(* What the gates remember, for the caller, until a cycle is over. *)
Remembered == IF cycling THEN keptBefore ELSE kept

(* The end of the cycle is the one step. *)
LEMMA FinishIsCycle ==
  ASSUME RunInv, OutputOK, CycleInv, FinishCycle
  PROVE  OneStep!Cycle
<1>1. /\ cycling /\ stack = <<>> /\ cycling' = FALSE /\ samplesOut' = signal[output]
      /\ UNCHANGED <<inrefs, output, sampleTick, kept, keptBefore>>
  BY DEF FinishCycle, graphVars, gateVars
<1>2. \A g \in Gate : (Done(g) <=> g \in Reachable) /\ (Marked(g) <=> g \in Reachable)
  BY <1>1, WalkedIs
<1>3. TicksBefore = [g \in Gate |-> IF g \in Reachable THEN sampleTick[g] - 1 ELSE sampleTick[g]]
  BY <1>1, <1>2, TicksAre
<1>4. TicksBefore' = [g \in Gate |-> sampleTick[g]]
  BY <1>1, TicksAre
<1>5. \A g \in Gate : sampleTick[g] \in Nat
  BY OutputTypes
<1>6. \A g \in Gate : sampleTick[g] = IF g \in Reachable THEN TicksBefore[g] + 1 ELSE TicksBefore[g]
  BY <1>3, <1>5
<1>7. TicksBefore' = [g \in Gate |-> IF g \in OneStep!Connected THEN TicksBefore[g] + 1
                                     ELSE TicksBefore[g]]
  <2>1. OneStep!Connected = Reachable
    BY ConnectedIs DEF RunInv
  <2> QED
    BY <1>4, <1>6, <2>1, Zenon
<1>8. /\ OneStep!Connected = Reachable /\ OneStep!Echoes = Echoes
      /\ Remembered = keptBefore /\ Remembered' = kept
  <2>1. Remembered = keptBefore /\ Remembered' = kept
    BY <1>1 DEF Remembered
  <2>2. OneStep!Connected = Reachable
    BY ConnectedIs DEF RunInv
  <2> QED
    BY <2>1, <2>2 DEF OneStep!Echoes, Echoes, Remembered
<1>9. samplesOut' \subseteq OneStep!Echoes
  <2>1. output \in Gate /\ output \in Reachable
    BY GateTypes, ReachableIs DEF RunInv, Closed
  <2>2. signal[output] \subseteq Echoes
    BY <1>1, <1>2, <2>1 DEF CycleInv, VisitedOK
  <2> QED
    BY <1>1, <1>8, <2>2
<1>10. /\ kept \in [Gate -> SUBSET Gate]
       /\ \A g \in Gate : IF g \in OneStep!Connected
                          THEN kept[g] \subseteq OneStep!Echoes
                          ELSE kept[g] = Remembered[g]
  <2>1. kept \in [Gate -> SUBSET Gate]
    BY DEF RunInv, ValuesOK
  <2>2. \A g \in Gate : /\ g \in Reachable => kept[g] \subseteq Echoes
                        /\ g \notin Reachable => kept[g] = keptBefore[g]
    BY <1>1, <1>2 DEF CycleInv, VisitedOK
  <2>3. \A g \in Gate : Remembered[g] = keptBefore[g]
    BY <1>8
  <2>4. \A g \in Gate : IF g \in Reachable THEN kept[g] \subseteq Echoes
                       ELSE kept[g] = Remembered[g]
    BY <2>2, <2>3
  <2> QED
    BY <1>8, <2>1, <2>4, Zenon
<1>11. [g \in Gate |-> Feeders(g)]' = [g \in Gate |-> Feeders(g)]
  BY <1>1, SameGraph
<1> QED
  <2>1. cycling /\ ~cycling' /\ kept' = kept
    BY <1>1
  <2> QED
    BY <1>1, <1>7, <1>9, <1>10, <1>11, <2>1 DEF OneStep!Cycle, Remembered

(* No other step is seen, but for a command that changes the connections.  *)
LEMMA StepIsOneStep ==
  ASSUME NoWrap, RunInv, RunInv', OutputOK, HeldInv, CycleInv, [SeqNext]_vars
  PROVE  OneStep!Next
<1>1. CASE FinishCycle
  BY <1>1, FinishIsCycle DEF OneStep!Next
<1>2. CASE ~FinishCycle
  <2>1. TicksBefore' = TicksBefore
    BY <1>2, CycleInvStep
  <2>2. output' = output
    <3>1. GraphNext => output' = output
      BY CommandLeaves DEF RunInv
    <3> QED
      BY <3>1 DEF vars, graphVars, SeqNext, Audio, StartCycle, FinishCycle, EnterAgain, Enter, TestIn,
         CallIn, FetchIn, Update, Command
  <2>3. samplesOut' = samplesOut
    BY <1>2 DEF vars, runVars, cycleVars, SeqNext, Audio, StartCycle, EnterAgain, Enter, TestIn,
       CallIn, FetchIn, Update, Crash, Command
  <2>4. [g \in Gate |-> Feeders(g)]' \in [Gate -> SUBSET Gate]
    <3>1. inrefs' \in [Gate -> [Slot -> Gate \cup {NULL}]]
      BY DEF RunInv, GraphInv, GraphTypeOK
    <3>2. \A g \in Gate : Feeders(g)' \subseteq Gate
      BY <3>1 DEF Feeders
    <3> QED
      BY <3>2
  <2>5. Remembered' = Remembered
    <3>1. CASE StartCycle
      BY <3>1 DEF Remembered, StartCycle
    <3>2. CASE EnterAgain \/ Enter \/ TestIn \/ CallIn \/ FetchIn \/ Update
      <4>1. cycling
        BY <3>2 DEF RunInv, CountsOK, EnterAgain, Enter, TestIn, CallIn, FetchIn, Update, At
      <4>2. UNCHANGED <<cycling, keptBefore>>
        BY <3>2 DEF EnterAgain, Enter, TestIn, CallIn, FetchIn, Update, Crash
      <4> QED
        BY <4>1, <4>2 DEF Remembered
    <3>3. CASE Command \/ UNCHANGED vars
      <4>1. UNCHANGED <<cycling, keptBefore, kept>>
        BY <3>3 DEF Command, vars, runVars, gateVars, cycleVars
      <4> QED
        BY <4>1 DEF Remembered
    <3> QED
      BY <1>2, <3>1, <3>2, <3>3 DEF SeqNext, Audio
  <2> QED
    BY <2>1, <2>2, <2>3, <2>4, <2>5 DEF OneStep!Next, OneStep!Rewire, Remembered
<1> QED
  BY <1>1, <1>2

(* gensyn_generate_waveform keeps its promise, feedback or not: between    *)
(* commands a cycle advances just the gates behind the output, each by one *)
(* block, and nothing else is heard than these and what they remember.     *)
THEOREM CycleIsOneStepHolds ==
  ASSUME NoWrap
  PROVE  SeqSpec => CycleIsOneStep
<1>1. RunInit => OneStep!Init
  <2> SUFFICES ASSUME RunInit
               PROVE  OneStep!Init
    OBVIOUS
  <2>1. GraphInv
    BY RunInitHolds DEF RunInv
  <2>2. [g \in Gate |-> Feeders(g)] \in [Gate -> SUBSET Gate] /\ output \in Gate
    BY <2>1, FeedersAre, GateTypes
  <2>3. TicksBefore = [g \in Gate |-> 0] /\ samplesOut = {}
    BY TicksAre DEF RunInit, RunVarsInit
  <2>4. Remembered = [g \in Gate |-> {}]
    BY DEF RunInit, RunVarsInit, Remembered
  <2> QED
    BY <2>2, <2>3, <2>4 DEF OneStep!Init, Remembered
<1>2. RunInv /\ RunInv' /\ OutputOK /\ HeldInv /\ CycleInv /\ [SeqNext]_vars
        => [OneStep!Next]_<<[g \in Gate |-> Feeders(g)], output, TicksBefore, Remembered, samplesOut>>
  BY StepIsOneStep
<1>3. SeqSpec => [][SeqNext]_vars
  BY PTL DEF SeqSpec
<1>4. SeqSpec => RunInit
  BY PTL DEF SeqSpec
<1> QED
  BY <1>1, <1>2, <1>3, <1>4, CycleInvariant, PTL DEF CycleIsOneStep, OneStep!Spec, Remembered
=============================================================================
