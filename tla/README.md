# Verification of gensyn

gensyn is a modular synthesizer in C. Scripts add *gates* (oscillators, mixers,
inputs) to a context and connect them; an output cycle asks the output gate for
a block of samples, and every gate first asks the gates connected to its INs.
This directory models the program in TLA+, checks the models with TLC and
proves with TLAPS every safety property that the passing runs check, the three
refinements among them. Line numbers refer to `src/`; `PROJECT.json` maps every
definition to the lines it stands for.

## Inventory

| Component | State | Operations | Interacts with | Correct when |
|---|---|---|---|---|
| Gate graph (`src/gate.c`) | gates on the heap; per gate `inrefs`, `outrefs`, `nouts` | register a type, create (clone a prefab), connect, disconnect, destroy, set and get a parameter | command processor; waveform generation reads `inrefs` | both ends of every connection agree; no reference leaves the live gates; limits hold; a parameter reads as it was last set |
| Command processor (`src/gensyn.c`, the ECMAScript library in it) | table of named gates, output gate, last result | `gate-add`, `gate-connect`, `gate-disconnect`, parameters, queries | gate graph, hash table, Duktape | names are unique and every gate has one; answers tell errors |
| Waveform generation (`gensyn_generate_waveform`, `gensyn_gate_run`) | `updatePool`, per gate `updateID`, `sampleTick`, `isActive`, `sampleBuffer` | one output cycle, a recursive walk of the INs | runs on the audio thread or in the command line's `@` | exactly the connected gates compute one block; the walk ends, shallow; no freed or missing buffer is used |
| Gate types (`src/gates/*.h`) | per gate: private data | `onUpdate` | read IN buffers, write their own | silent or computed, never left over |
| Audio thread (`src/system/system_linux.c`) | callback | generate 256 samples, write them | shares the graph with the main thread, no lock | the walk survives commands at any point |
| Hash table (`src/table.c`) | buckets of chains, size; iterator | insert, find, remove, clear, resize; start, proceed | names, commands, prefabs, contexts | it is a map; an iteration visits every entry once |
| Input thread, event queues (`system_linux.c`, `gensyn.c`) | devices, one queue per device and one per system, gates that take input | query devices, parse MIDI, move events, deliver | rings from the main thread; `send_event` from any | every event is delivered once; a device keeps its index |
| Command rings (`src/ring.c`) | read and write index | push, pop, has_pending | main thread to input thread | FIFO, nothing lost |
| Strings (`src/string.c`) | buffer, position of its chain of links; a pool of 128 temporaries | concat, chain, temporary | everything | the links are the non-empty fields; a temporary lives until it is used |
| Arrays (`src/array.c`) | growable buffer | push, insert, remove | input gates, devices, names | contents as asked |
| MIDI test tool, rendering stubs, Duktape, SRGS | | | | not modelled: a printing loop, empty functions, vendored code |

The build (`makefile`) has sanitizers and no optimisation; there are no tests and
no documents besides the comments. What the comments promise is checked
against the code where it can be stated.

What is hard here: two or three threads share everything without a lock; a graph
with feedback, sharing and fan-out limits is updated in three places per
connection; a walk re-reads shared slots; buffers are reallocated while
pointers to them are on the stack; queues and rings index their storage
inconsistently. `PROJECT.json` lists each at its line under `hazards`.

## The modules

    GateGraph <----------- GateParams: types and parameters (shares only the gates)
        ^  ^
        |  +------- GateDestroy          the C interface's destroy, with heap reuse
        |
     GateRun  ----implements---> WaveCycle
        the walk, one step per load       a cycle as one step

    HashTable ----implements---> Dictionary     Array ----implements---> List

    InputDevices: devices, MIDI     --events-->     InputLoop: the event queue
    StringChain: the links of a string              TempStrings: the pool

`GateParams` and `GateGraph` are two views of the same gates and are not
composed: no parameter depends on a connection, and no connection on a
parameter. The proofs about a module `M` are in `MProofs`, those about
`StringChain`, `TempStrings` and `MCParts` in `PartsProofs`; the instances for
TLC, where they need definitions, in `MCM`. `MCParts` puts the four parts that
share no state (`Array`, `StringChain`, `TempStrings`, `GateParams`) into one
run: a behaviour is one of one of them.

**GateGraph** models one context. A gate is an address in `Gate`; `type` is the
prefab it was cloned from, `inrefs[g][i]`, `outrefs[g][k]` and `nouts[g]` are
the fields of `struct gensyn_gate_t`, `gates` is the table of names. Actions:
`GateAdd` and `GateAddRefused` (`gensyn_create_named_gate` through `gate-add`),
`GateConnect`, `GateDisconnect` and `NoSuchGate` (the two commands).
`gensyn_gate_connect` is `Refuses` (its early exits), `OutsLeft` and
`NoutsLeft` (the removal of the old connection, with the loop that fills the
gap as `WithoutOut`), and `Relink` (the append to the new producer, and the
store). Disconnecting is connecting to `NULL`, as in the code. A command that
is silently refused still answers `""`. The registered types are the constant
`Nins`; how they are registered is in GateParams. Left out: position, texture
and description; the order of the arguments' checks.

**GateParams** is the registration of a gate type, `gensyn_gate_register`, as the
loop over its variable arguments that it is: `Register` starts it,
`PropertyConnection` and `PropertyParam` take one IN or one parameter each, with
the refusals of a full or a repeated one, `PropertyEnd` adds the prefab.
`CreateNamedGate` clones a prefab with its defaults, `SetParamOf` and
`GetParamOf` are the commands and the calls of a script object
(`ScriptAdd`, `ScriptGet`), whose only link to its gate is the name.

**GateRun** adds an output cycle. `stack` is the C stack of
`gensyn_gate_run__internal`; an activation has the gate, the loop index and the
buffers gathered so far. `StartCycle` is `gensyn_generate_waveform` up to the
first call, `EnterAgain` and `Enter` the test against `updateID` and the
buffer's replacement, `TestIn`, `CallIn` and `FetchIn` the three loads of an IN
slot, `Update` the gate's `onUpdate` and the return, `FinishCycle` the final
copy. A pointer to a buffer is the gate and the number of the allocation, so
that a use of a freed one shows. A signal is the set of gates that have a part
in it. `Outcomes` is what the `onUpdate` of each kind of gate may leave in the
buffer and in the data that the gate keeps between cycles, `kept`: the pitch to
which a wave is tuned (`lastFreq`, which follows IN 0 only where a period begins;
where that is in a block is left open, so that after a new connection the wave
may sound the old pitch for any number of blocks), and the last sample of a
glider, which fades. `keptBefore` is a history, `kept` as the last cycle found
it. `SeqSpec` lets commands run only between cycles (the command line), `ConcSpec`
at any point of one (after `gensyn_start_audio`). A command is one step: of its
stores, only the last one, to the IN slot, can be seen by the walk.

**WaveCycle** is what a caller of `gensyn_generate_waveform` may assume: a cycle
is one step that advances exactly the gates connected to the output, and lets
nothing be heard but these and what they keep of earlier cycles.

**GateDestroy** adds `gensyn_destroy_named_gate`, which no command reaches, with
the loops of `gensyn_gate_destroy` as they are, and the reuse of freed memory.
`ConnectLeft` and `DisconnectLeft` are the commands on what is left: they end the
program where `gensyn_gate_connect` gets as far as the list of a freed gate.

**HashTable** is `src/table.c`: `buckets` is the sequence of chains of entries
with their hashes, `size` the counter. `Insert` looks the key up and updates or
adds; a chain that got too long starts a resize, whose phases are steps of their
own (`Gather` the entries, `Rebuild` the buckets, `Redistribute`,
`InsertAgain`), because the code inserts the same key a second time after it
and may then resize again. `Find`, `Remove`, `Clear`, `IterStart` and
`IterProceed` are the other operations. The hash is the constant `Hash`; its
kinds of key are left out. **Dictionary** is a map with the same operations,
each one step; `IsMap` is `HashTable`'s refinement of it.

**Array** is `src/array.c`: `data` is the memory of `alloc` elements, of which
`size` are in use. A call begins with its arguments (`Begin`) and ends with the
change it makes: one that needs room (`push`, `insert`, `set_size`) grows
the memory turn by turn (`Grow`) and then stores (`Store`, with the move of the
elements behind), `CloseGap` and `Empty` are the ends of `remove` and `clear`, and
`lower_bound` halves its range turn by turn (`Halve`, `Found`). `Clone` is one
step. An insertion whose `memmove` reaches past the memory ends the program there
(`Overrun`), as the address sanitizer of the build does. **List** is what
`array.h` promises: a list is asked for an operation and then does that one, with
those arguments; `asked` is the array's call under way, and one that overran is
one that never returns.

**StringChain** walks the links of a string: `ChainStart` sets the delimiters,
`SkipDelimiter` and `Gather` are the two loops over the characters, one turn a
step, `ConcatChunk` is the append of a chunk to the link, which waits until
`GrowLink`, a turn of the loop that allocates, has made room for it; `LinkEnds`
and `UseLink` are the end of a turn of the caller's loop. The reference is
`Fields`: a field starts wherever a character that is no delimiter has none of
its kind before it, and the fields are numbered by counting the starts.

**TempStrings** is `GENSYN_STR_CAST`. A call is taken apart at its loads and
stores of `tempIter`: `Cast`, `Wrap`, `LoadIter`, `StoreIter`, `SetText`, and
`Use`, where the caller reads what it was given. `held` has the strings that a
thread was given and may still be using, as many as the pool has.

**InputLoop** is the queue in `src/system/system_linux.c` between
`gensyn_system_input_send_event`, which may be called on another thread, and the
loop of the input thread in `src/gensyn.c`. `ptr` and `alloc` are the queue's
fields, `q` its array. A push is `Push` (the test for space, with the growth),
`LoadPtr`, `StorePtr` and `WriteEvent`; a pop is `Pop`, `Decrement` and `Read`,
in the order in which the unoptimised build executes `q->q[q->ptr++] = *ev` and
`return q->q[q->ptr--]`. `GetEvents`, `TestEmpty` and `Return` are
`gensyn_system_input_get_events` and the `while` around it. Left out: the rings,
which nothing pushes to, and the gates that would get the events, which only a
ring can add; `processed` is what would reach them. `ev_queue_create` has no
return statement; the model is of a build in which its result arrives. Growing
the array is one step.

**InputDevices** is the rest of the input thread's turn. `QueryDevices` takes the
listing that `amidi` printed (external: any listing, or none) and `Tokens` what
the words of one line leave in the loop's variables, which the line after it
finds there; `AddDevice` and `FindDevice` add a device or open it again under its
new path. `UpdateDevice`, `Read`, `ReadError`, `ReadNone` and `ReadDead` read a
device's bytes (ALSA is external: an open may fail; a read gives a byte, an error
or nothing), `Process` is the parser with its running status, `MoveEvent` and
`NextQueue` hand the device's events to the system's queue. The unwritten memory
that the parser's first event and a pop may return is the value `UNWRITTEN`. `got` and
`parsed` are histories, of the bytes of an update and of the events of a turn;
`WholeMessages` says of the bytes that they begin with a status and that none
comes between the two data bytes of a message, `DataByte(n)` is the place of the
n-th data byte and `StatusOf(n)` that of the status it runs under.

Several modules also hold *mistakes*: an operator that is a definition of the
model with one plausible bug (a dropped guard, an off-by-one), named for it and
commented with the property that rejects it. No other definition refers to them; they keep
on record that every property can fail.

## The runs

| Run | Bounds | Shows |
|---|---|---|
| `graph` | 3 gates, 3 names, types with 0, 1 and 2 INs, `MAX_CX` 2 | all command sequences; `Mirror`, `NoDangling`, `OneName`, `Bystanders` |
| `run_sequential` | 4 gates, 2 cycles, 1 command, `MAX_CX` 3, from every wiring | the walk implements `WaveCycle`; buffers gathered are never freed; the output is that of the connections and of what a wave and a glider kept; only a wave without a pitch ends the program |
| `run_concurrent` | 3 gates, 2 cycles, 1 command at any point, `MAX_CX` 2 | one block per gate and cycle, bounded recursion, every cycle ends |
| `run_active` | as `run_concurrent`, commands between cycles | violation: `gensyn_gate_get_is_active` after a disconnection (`gate.h:187`) |
| `run_fault` | as `run_concurrent` | violation: a disconnection between two loads (`gate.c:13-15`) |
| `destroy` | as `graph` | violation: references left behind (`gensyn.h:51`) |
| `table` | 4 keys, at most 3 entries counted, chains of 1 before a resize, 2 then 4 buckets | the table implements `Dictionary`; the count covers what a resize gathers; an iteration visits every old entry once while entries are added; every insertion ends |
| `input` | 1 sender, 6 events, an array of 4 that grows, batches of 2 | no index leaves an array, the loop of the input thread ends |
| `input_dropped` | same | violation: the last batch is not passed on (`gate.h:74`) |
| `devices` | 2 names, 2 paths, listings of up to 2 lines, 6 bytes or errors read, 2 status and 2 data bytes; names, paths and data bytes are symmetric | a device keeps its index and name; the end line of a listing adds nothing; the events are those of the bytes; of a turn's events only the first is lost |
| `parts` | arrays of up to 3 elements out of 2, in a memory for 2 that grows to 6; strings of up to 6 characters, chunks of 3; a pool of 3, 1 thread; 1 gate type with up to 2 INs and 2 parameters, 2 gates, 2 words, 2 values | every call of the array does to the list what it was asked for, and ends; the links are the fields; a temporary lasts; parameters read back |
| `temps_shared` | 2 threads, a pool of 2 | violation: two threads get the same temporary (`string.h:71`) |

Why the bounds are enough. In `graph`, three gates give a loser, a winner and
a bystander of every slot, feedback of length one to three, and two equal
entries in one OUT list; a list of two has a first, a last and a full state,
which are all the cases of the gap loop and the limit. `MAX_CX` is 8 in the
code; the theorems below hold for every value. In the runs of the walk the
context starts out with every gate added and in every way connected, so one
command reaches everything that a command can do to a cycle; two cycles are
what it takes for something to be left over from the one before. The
sequential run's four gates make a diamond, a loop that does not contain the
output gate, and a wave with each of its three INs connected or not and a
glider before, behind or beside it, each with or without something kept of the
first cycle. `IdMod` stands for 2^32 and is not reached; see the hazard at
`gate.c:203`. In `table` the keys collide for ever, until a resize, or not at
all, which are the ways two hashes can stand to each other; a chain longer
than the limit takes one key more than the limit. In `input` the array fills
and grows, the senders can overtake any point of a pop, and a batch is filled,
left half full, and followed by another. With two senders `InBounds` does not
hold: between the test for space and the load of `ptr` another push can use
the space. The program has no thread that sends yet; the hazard is listed. In
`devices` two devices can be listed in either order, alone, twice, under each
other's paths or with nothing but the header, a message of three bytes can
follow another with and without a new status byte, be cut by an error, and
stay unfinished at the end of a turn; six reads are two messages. The two
symmetric devices, and the two data bytes, are never told apart by a
definition. In `parts` an array grows and is full, an insertion has elements
behind it or not, fits or runs past the memory, the range of a search is odd
and even; a string has a link longer than a chunk, one of exactly a chunk,
empty ones, and delimiters at both ends; the pool wraps round; a second IN or
parameter can repeat the first, and a third is refused.

Fairness. `CycleEnds` assumes that a cycle that has started goes on
(`WF_vars(CycleStep)`): the audio thread runs in a loop and takes no lock, and
`@` runs the cycle to its end. Nothing is assumed about commands or about a
next cycle. `InsertEnds` assumes that a resize that has begun goes on
(`WF(Resize)`), and `OperationsEnd` the same of a call of an array: both are
sequential code. `OperationsEnd` leaves out the array without memory that the
clone of an empty one is: the first push to it waits for ever (`array.c:138`).
`ComesAround` assumes that the input thread runs and that a thread inside a
push finishes it: neither takes a lock or waits. It says that the loop ends
once the senders pause: the bound on events is that pause, a sender that never
pauses can keep the loop going.

Deadlock checking is off in every configuration but `input`'s and
`input_dropped`'s, where the input thread never stops, because the bounds on
cycles, commands, heap cells, reads and sizes stop the models.

## Where the code differs from what is written of it

The five violation runs show one each: `is_active` is reset in the first cycle
only, a disconnection can end the audio thread, destruction leaves references,
the last batch of events is dropped, temporaries are asked for on three threads.
The models were written to what the code does in these places too, without a run
of their own:

- `gate.h:53-56` says that the sample buffer has the last block when `onUpdate`
  gets it; `gate.c:222` replaces the buffer whenever its size is not larger than
  asked for, that is, always (`NeedsBuffer`).
- `gensyn_table_is_empty` (`table.c:504`) returns `size != 0`: that there are
  entries, as the comment says (`table.h:128`), and the opposite of its name. A
  cleared table keeps its count (`HashTable`'s `Clear`), so that the answer is then
  that there are some. Nothing calls it.
- A resize allocates a whole entry for each pointer it gathers (`table.c:197`),
  several times what is needed: `GatherFits` says that the count covers what is
  gathered, and a count that were short by one would not yet overrun anything.
- `gate-disconnect` looks up the gate it is told to disconnect from and then
  ignores it (`gate.c:335`, against `gate.h:216`): whichever gate is in the slot
  loses it. `GateDisconnect` does the same, and `Bystanders` does not count the
  loser among the bystanders.
- `Sine_Wave` registers its INs as pitch, velocity and phase, and reads the second
  as the phase and the third as the velocity (`sine_wave.h:26`, `27`, `98`, `99`): what is
  connected as velocity silences the wave, what is connected as phase scales it.
  The model goes by the index.
- The pop of an event queue (`system_linux.c:70`, `511`) reads the entry after
  the last one; the first event of a batch is one that was never written, and of
  the events of a device's turn the first stays behind (`OnlyFirstLost`).
- `object.getParam` of the script library calls `Number.parse`, which does not
  exist, and so always throws; `object.remove` calls the command `gate-remove`,
  which is not registered, and drops the error.
- A listing of the header alone adds a device without a name (`AddDevice` with
  blank words).
- `gensyn_array_push_n` raises `size` by one whatever its count is (every caller
  pushes single elements), and an insertion (`array.c:106`) has raised `size`
  before its `memmove` counts what lies behind the place, so that it moves as
  many elements too many as it inserts, past the memory if there is no room for
  these (`Overrun`). Nothing in the program inserts into an array.
- A repeated parameter name, which `gate.c:133` calls an error, is accepted: the
  loop behind it counts the OUTs, of which a prefab has none.

## What is proved

Eight modules of proofs, for every value of the constants that the assumptions
beside them allow (their types, that `NULL` and the like are no values, limits
of at least 1, a queue of at least 3 as created). What is said of threads is
said of one: `InputLoopProofs` assumes one sender, and what `PartsProofs` says of
the temporaries one thread; with two, the properties fail, and `temps_shared`
shows it. Five theorems about the walk assume `NoWrap`, that the update
identifiers do not wrap: after a wrap to 0 a gate that was never entered looks
marked, and what they say need not hold.

Every invariant and action property of a passing run is the statement of a
theorem, and so are the three refinements.

**GateGraphProofs.** `GraphInv` is `GraphTypeOK /\ Mirror /\ NoDangling /\
OneName`. None of the middle two is inductive alone: `Mirror` needs `NoDangling`
(the old producer of a slot is a live gate, so that its list is one of those
`Mirror` speaks of) and `Mirror` is what guarantees that the old producer's list
has an entry to remove. The argument counts: `RemoveCount` says that removing the
first entry for a gate from an OUT list lowers that gate's count by one and no
other, `AppendCount` that the append raises one, `RelinkKeeps` puts them together
according to which of old producer, new producer and consumer coincide, and
`ConnectsKeeps` shows in addition that `nouts` stays within the array.
`GateAddKeeps` uses that no live gate refers to a free cell. `BystandersSpared`
proves the action property from the same invariant.

**GateRunProofs.** With commands at any point of the walk (`ConcSpec`), `RunInv`
is `GraphInv` with `StackOK`, `CountsOK` and the types. `StackOK`: every
activation is of a live gate and within its INs, all but the innermost wait for a
call, an activation past its entry is marked with the cycle's number, and no two
of these are of one gate. `CountsOK`: a gate that is not marked, or that is still
on the stack, has computed a block less than there were cycles. Together they are
inductive because a gate is entered only when it is not marked, and give
`RunTypeCorrect` and `StackBounded` (activations of distinct gates inject into
the live gates). A wrap of the identifiers harms neither. `OncePerCycleHolds`
needs `NoWrap`: `OutputOK` says that the update identifiers are at most the pool's,
so that the output gate is not marked when a cycle starts, and that it is done
once it is marked and off the stack. Between commands (`SeqSpec`), `HeldInv` adds
that what an activation waits for is connected, that every activation runs the
gate that the next one out waits for, and that a gathered buffer is the present
one of a marked gate: marked gates are not entered, so their buffers are not
replaced. That is `BuffersStayHeld`. With `NoWrap` a marked gate has a buffer, so
that a wave whose pitch is missing is one whose IN 0 is not connected:
`OnlyPitchFaults`.

That a cycle computes what the connections say, `OutputIsGraph` and the
refinement `CycleIsOneStep`, needs `CycleInv` on top of these. `FramesOK`: an
activation is of a gate behind the output, and what it has gathered came from
the gates at its INs. `VisitedOK`: only gates behind the output are marked,
and all that feed a gate are marked before it is done, so that at the end of a
cycle the marked gates are closed under `Feeders` and contain the output: they
are all of `Reachable`, which is the least such set. What is heard or kept by
then comes of these gates and of what they kept before (`Echoes`), and a gate
that is not done still keeps just that (`Remembered`). `DoneOK`: on a graph
without feedback the gates that feed a gate are *done* before it is, so that
its signal is one that it may make of theirs, which do not change any more.
The step that needs the absence of feedback is `Update`: the feeders of the
gate are marked, and one that was not done would be on the stack itself; the
gates from there inward would each feed the next one out, and the innermost be
fed by the outermost, a set without the gate that `Acyclic` asks for.
Reachability and the absence of feedback are stated by quantifying over sets
of gates, not by recursion, which is what lets them be reasoned about: an
invariant set is given in place of an induction. `SoundIsUnique` is the check
on the property itself: `Sound` states a rule for each gate, given what it
kept before the cycle, and on a graph without feedback the rules have one
solution as long as no wave still sounds an earlier pitch (`InTune`), so that
`OutputIsGraph` says what is heard and not only that something consistent is.
A wave between two pitches may go either way at each block, which is all that
is left open. In `CycleIsOneStepHolds` the walk's steps stutter, all but the
last, of which `VisitedOK` says that every connected gate, and no other, has
computed one block since the cycle began; feedback does no harm to it.

**GateParamsProofs.** `ParamInv` says of a prefab, finished or under registration,
that it fits the limits, has as many defaults as parameters and no IN twice, and
of every gate that each value is the last one given to its parameter's name, or
the default; names that repeat are set together, which is why reading the first
of them is enough.

**ArrayProofs.** `MemoryOK` (what is in use lies in the memory), `CallFits` (the
call under way has a place and a size that fit its elements and the array, which
nothing changes meanwhile) and `PlaceIsBetween`, the search's own invariant.
`ArrayImplementsList` maps the array to its first `size` elements and the call
under way to what the list was asked for: that the change at the end of a call is
the one that belongs to its operation and arguments needs `CallFits`, and, for an
insertion, that its `memmove` stayed within the memory.

**HashTableProofs.** `TableInv` says for each phase of a resize where the entries
are: in the chain of their hash, no key twice (`BucketsOK`); gathered, as far as
the first `n` buckets (`GatherOK`); handed out, as far as the `n`-th
(`RedistributeOK`). `TableImplementsDictionary` reads the contents off the
buckets and, during a resize, off the gathered entries. `FullInv` adds that the
count covers the stored keys (`CountOK`; it may be larger, after a `Clear`), which
bounds what is gathered, and `VisitOK`: the iteration follows the order of
buckets and of places in them, and what is to be visited was seen or lies ahead.
An insertion adds at the end of a chain, and a removal stops being looked at, so
that the order of the rest stays; a resize does not keep it, and is excluded, as
in the property.

**InputLoopProofs.** `IndicesOK` says of each of the two threads, at each of its
steps, what its loaded index can be; the room that a push has made stays until
its store because only the other thread's pops come in between, which lower `ptr`.

**InputDevicesProofs.** `DeviceInv`: names are distinct, a queue belongs to every
device and has no more events than were read, and the line that the loop's
variables still hold is that of a device it has added: that is why the end line
is harmless. `TurnOK` follows a turn's events from the parser to the system's
queue. They lie in `parsed` in blocks, one for each device in the order of the
devices: there is an `f` for which the block of device `k` goes from `f[k] + 1` to
`f[k + 1]` (`Ordered`). While bytes are read, a queue has the events of its block;
while they are moved, the queues before the present one are empty, and of this
one the events above its top have been handed over, but for the first of the
block, in whose place came an entry nobody wrote (`Moving`). Where a second data
byte is read the block of the present device grows by one, and those behind it,
still empty, move up. `OnlyFirstEventLost` is what is left when the last queue is
empty. `MessagesOK` is about one update: `local.index` is the number of data bytes
read, half of it (rounded down) the number of events in the queue, the status
kept is that of the last status byte, and every event in the queue has three
places in `got` where its status and its data bytes are (`BytesOK`).
`StreamGivesMessages` shows those places to be the ones that the property names:
they are the only ones with that many data bytes before them. A stream that is
not, or no longer, made of whole messages promises nothing, and a prefix of one
that is, is one.

**PartsProofs.** Of the temporaries, `PoolRound`: the strings that are held are the
last ones before `tempIter`, in their order, round the pool; so the next one to be
given out is the oldest. Of the chain of links, `ChainInv`: the links given so far
are the fields that start before a place (`Seen`), which is the position itself
while delimiters are skipped; in a link, the field that starts at some `s` is
under way, the text from `s` to the position has no delimiter, and the link
with the chunk behind it is that text (`Gathering`); a link that was returned
ends where the field does. The fields are numbered by counting their starts, so
that a start behind `n` others is field `n + 1`: with counts instead of recursion
`LinksFollowText` is provable for any text. `LinkAlwaysFits` needs that the append
waits for its room, and that growth by a factor of 1.4 never leaves less, from an
allocation of at least 3 on (`ChainAssumption`; `prealloc_size` is 32).
`PartsInv` puts the invariants of the four parts together.

**Only model-checked.** Liveness: `CycleEnds`, `InsertEnds`, `OperationsEnd` and
`ComesAround`, fairness and ENABLED being out of this prover's reach. No other
property of a passing run lacks a theorem. The five violations are TLC's too.
There is no RECURSIVE operator in any module; what would be defined by recursion
is stated by sets that are closed under a step (`Reachable`), by equations
(`Sound`), or by counting (`Fields`, `DataByte`).

## Not modelled

- **Command rings** (`src/ring.c`): nothing pushes to either of the two rings, so
  that the loops that empty them never turn. The file is not ready for one that
  does: `gensyn_ring_push_p` multiplies the write index twice, and
  `gensyn_ring_pop_p` never takes the read index modulo the size.
- **The amplifier**, which is never registered.
- Sample arithmetic: floating point. How long a wave keeps its pitch, and how fast
  a glider forgets, is therefore left open.
- The texts of `gate-list`, `gate-summary` and `help`, formatting, substrings and
  comparison of strings: they change no state but their own.
- Vendored code (the script engine, a renderer), the MIDI test tool (a printing
  loop), the rendering stubs (empty functions).

## Plan

1. The safety half of the liveness properties, which a prover can reach: a measure
   that every step of a cycle, of a resize, of an array's growth lowers, as
   theorems about the actions.
2. Theorems about `GateDestroy`: what does survive a destruction (the types, the
   limits and `Mirror` among the gates that are left), beside the run that shows
   what does not.
3. The event queue with more than one sender: which of the bounds of `InBounds`
   hold then, and which do not.
4. Compositions: destruction of the output gate under a running cycle; the
   table's iterator on the audio thread against insertion; the growth of the
   event queue's array against the load of its address.
5. A run that starts just below the wrap of the update identifiers, for the block
   that `NoWrap` excludes.
6. A ring module, when something pushes to a ring.
