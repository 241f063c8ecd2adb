------------------------------- MODULE WaveCycle -------------------------------
(***************************************************************************)
(* What gensyn_generate_waveform promises its caller: a cycle is one step, *)
(* in which exactly the gates that feed the output, directly or not,       *)
(* advance by one block of samples, and nothing else is heard than these   *)
(* and what they remember of what they heard in earlier cycles.            *)
(***************************************************************************)
EXTENDS Naturals, FiniteSets

CONSTANT Gate

VARIABLES
  feeders,      \* feeders[g]: the gates connected to the INs of g
  output,
  tick,         \* tick[g]: the blocks g has computed
  kept,         \* kept[g]: the gates g remembers
  heard         \* the gates audible in the last block handed over

Closed(S) == output \in S /\ \A g \in S : feeders[g] \subseteq S

(* What the output gate hears of, directly or not, and itself. *)
Connected == {g \in Gate : \A S \in SUBSET Gate : Closed(S) => g \in S}

(* These, and what they remember. *)
Echoes == Connected \cup UNION {kept[g] : g \in Connected}

Init ==
  /\ feeders \in [Gate -> SUBSET Gate]
  /\ output \in Gate
  /\ tick = [g \in Gate |-> 0]
  /\ kept = [g \in Gate |-> {}]
  /\ heard = {}

Rewire ==
  /\ feeders' \in [Gate -> SUBSET Gate]
  /\ UNCHANGED <<output, tick, kept, heard>>

Cycle ==
  /\ tick' = [g \in Gate |-> IF g \in Connected THEN tick[g] + 1 ELSE tick[g]]
  /\ kept' \in [Gate -> SUBSET Gate]
  /\ \A g \in Gate : IF g \in Connected THEN kept'[g] \subseteq Echoes ELSE kept'[g] = kept[g]
  /\ heard' \subseteq Echoes
  /\ UNCHANGED <<feeders, output>>

Next == Rewire \/ Cycle

Spec == Init /\ [][Next]_<<feeders, output, tick, kept, heard>>
=============================================================================
