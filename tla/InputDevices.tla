------------------------------ MODULE InputDevices -----------------------------
(***************************************************************************)
(* The MIDI devices of the input thread (src/system/system_linux.c): once  *)
(* a second it reads what amidi lists, adds the devices that are new and   *)
(* reopens those that have moved; in every turn it reads each device's     *)
(* bytes, makes events of them, and hands these to the system's queue.     *)
(*                                                                         *)
(* External: amidi, which prints a header and one line for each device, or *)
(* nothing; and ALSA, whose open may fail and whose read gives a byte, an  *)
(* error, or 0 when there is no byte, as the loop expects.  (ALSA's own    *)
(* read blocks and never gives 0, so that the loop does not end.)          *)
(*                                                                         *)
(* Abstracted: the growth of a device's queue and the loads of its fields, *)
(* which no other thread sees (InputLoop); the system's queue is what was  *)
(* handed to it in this turn.                                              *)
(***************************************************************************)
EXTENDS Naturals, Sequences, FiniteSets

CONSTANTS
  DevName, DevPath,
  BLANK,       \* the empty string
  Status,      \* bytes with the high bit
  Data,        \* the other bytes
  MaxLines,    \* bound: the devices in a listing
  MaxReads,    \* bound: the bytes and errors read in all
  UNWRITTEN    \* memory that was never written

ASSUME DeviceAssumption ==
  /\ BLANK \notin DevName \cup DevPath
  /\ Status \cap Data = {}
  /\ 0 \notin Status
  /\ UNWRITTEN \notin Status \cup Data
  /\ MaxLines \in Nat /\ MaxReads \in Nat

VARIABLES
  devices,    \* the array of devices: name, path and whether the handle is open
  queues,     \* their events: ptr, and the array q
  pc,         \* where the input thread is
  lines,      \* the lines of the listing that are left
  token,      \* midiPath and midiName
  at,         \* the device that is updated, or emptied
  local,      \* index, code and ev of the device's update
  handed,     \* the events handed to the system's queue in this turn
  got,        \* the bytes this update has read, if there was no error
  parsed,     \* the events that were made in this turn
  reads       \* how many were read in all

listing    == <<lines, token>>
update     == <<local, got, parsed, reads>>
deviceVars == <<devices, queues, pc, listing, at, handed, update>>

Byte == Status \cup Data

(* Neither path nor name. *)
None == [path |-> BLANK, name |-> BLANK]

NewLocal == [index |-> 0, code |-> UNWRITTEN, ev |-> [input |-> 0, data1 |-> 0, data2 |-> 0]]
NewQueue == [ptr |-> 0, q |-> [k \in 0 .. MaxReads |-> UNWRITTEN]]

DeviceInit ==
  /\ devices = <<>> /\ queues = <<>>
  /\ pc = "top"
  /\ lines = <<>> /\ token = None
  /\ at = 1
  /\ local = NewLocal
  /\ handed = <<>>
  /\ got = <<>> /\ parsed = <<>> /\ reads = 0

-----------------------------------------------------------------------------
(* gensyn_system_input_query_devices. *)

Listed == [path : DevPath, name : DevName]

(* exec_capture_output appends what fgetc gives at the end of the output:  *)
(* a last line of a single word, with neither path nor name.               *)
EndLine == None

(* What amidi printed has a header, and behind it at least the last line;  *)
(* if it printed nothing, the last line is taken for the header.           *)
QueryDevices ==
  /\ pc = "top"
  /\ \E n \in 0 .. MaxLines : \E s \in [1 .. n -> Listed] :
       lines' \in {<<>>, Append(s, EndLine)}
  /\ token' = None
  /\ pc' = "query"
  /\ UNCHANGED <<devices, queues, at, handed, update>>

(* The second has not passed. *)
SkipQuery ==
  /\ pc = "top"
  /\ pc' = "update" /\ at' = 1
  /\ UNCHANGED <<devices, queues, listing, handed, update>>

(* Mistake: the name that is left from an earlier line is forgotten. *)
TokensForgotten(line) == line

(* The words of a line; a line without a word leaves what was there. *)
Tokens(line) == IF line = EndLine THEN token ELSE line

Known(d) == {k \in DOMAIN devices : devices[k].name = d.name}

(* Mistake: the new device is not given a queue. *)
AddDeviceOnly(d) ==
  /\ Known(d) = {}
  /\ \E h \in {"open", "dead"} :
       devices' = Append(devices, [name |-> d.name, path |-> d.path, midi |-> h])
  /\ UNCHANGED <<queues, pc>>

(* A device that is not found is added, whether or not it can be opened. *)
AddDevice(d) ==
  /\ Known(d) = {}
  /\ \E h \in {"open", "dead"} :
       devices' = Append(devices, [name |-> d.name, path |-> d.path, midi |-> h])
  /\ queues' = Append(queues, NewQueue)
  /\ UNCHANGED pc

(* Mistake: a device that has moved is taken for a new one. *)
FindDeviceMoved(d) ==
  \E k \in Known(d) :
    IF devices[k].path = d.path
    THEN UNCHANGED <<devices, queues, pc>>
    ELSE /\ devices' = Append(devices, [name |-> d.name, path |-> d.path, midi |-> "open"])
         /\ queues' = Append(queues, NewQueue)
         /\ UNCHANGED pc

(* One that has moved is closed and opened again, at its index; closing a  *)
(* handle that was never opened ends the program.                          *)
FindDevice(d) ==
  \E k \in Known(d) :
    /\ \A j \in Known(d) : k <= j
    /\ UNCHANGED queues
    /\ CASE devices[k].path = d.path ->
              UNCHANGED <<devices, pc>>
         [] devices[k].path # d.path /\ devices[k].midi = "open" ->
              /\ \E h \in {"open", "dead"} :
                   devices' = [devices EXCEPT ![k].path = d.path, ![k].midi = h]
              /\ UNCHANGED pc
         [] OTHER -> pc' = "fault" /\ UNCHANGED devices

Assemble ==
  /\ pc = "query" /\ lines # <<>>
  /\ token' = Tokens(Head(lines))
  /\ lines' = Tail(lines)
  /\ AddDevice(token') \/ FindDevice(token')
  /\ UNCHANGED <<at, handed, update>>

QueryEnd ==
  /\ pc = "query" /\ lines = <<>>
  /\ pc' = "update" /\ at' = 1
  /\ token' = None
  /\ UNCHANGED <<devices, queues, lines, handed, update>>

-----------------------------------------------------------------------------
(* gensyn_system_input_update: first every device is read. *)

UpdateDevice ==
  /\ pc = "update"
  /\ IF at <= Len(devices)
     THEN pc' = "read" /\ UNCHANGED at
     ELSE pc' = "move" /\ at' = 1
  /\ UNCHANGED <<devices, queues, listing, handed, update>>

Pushed(queue, e) == [ptr |-> queue.ptr + 1, q |-> [queue.q EXCEPT ![queue.ptr] = e]]

(* A status is kept for the events that follow. *)
ProcessStatus(b) ==
  /\ b \in Status
  /\ local' = [local EXCEPT !.code = b, !.ev.input = b]
  /\ UNCHANGED <<queues, parsed>>

FirstData(b) ==
  /\ b \in Data
  /\ local.index % 2 = 0
  /\ local' = [local EXCEPT !.index = @ + 1, !.code = b, !.ev.data1 = b]
  /\ UNCHANGED <<queues, parsed>>

Event(ev) == [deviceID |-> at - 1, input |-> ev.input, data1 |-> ev.data1, data2 |-> ev.data2]

(* Mistake: the event is pushed before the second byte is put into it. *)
SecondDataLate(b) ==
  /\ b \in Data
  /\ local.index % 2 = 1
  /\ local' = [local EXCEPT !.index = @ + 1, !.code = b, !.ev.data2 = b]
  /\ queues' = [queues EXCEPT ![at] = Pushed(@, Event(local.ev))]
  /\ parsed' = Append(parsed, Event(local.ev))

(* The second data byte completes an event. *)
SecondData(b) ==
  /\ b \in Data
  /\ local.index % 2 = 1
  /\ local' = [local EXCEPT !.index = @ + 1, !.code = b, !.ev.data2 = b]
  /\ queues' = [queues EXCEPT ![at] = Pushed(@, Event(local'.ev))]
  /\ parsed' = Append(parsed, Event(local'.ev))

Process(b) == ProcessStatus(b) \/ FirstData(b) \/ SecondData(b)

Read ==
  /\ pc = "read" /\ devices[at].midi = "open"
  /\ reads < MaxReads
  /\ reads' = reads + 1
  /\ \E b \in Byte : Process(b) /\ got' = Append(got, b)
  /\ UNCHANGED <<devices, pc, listing, at, handed>>

(* An error is not told from a byte: the last one is taken again, or what  *)
(* the variable held before there was any.                                 *)
ReadError ==
  /\ pc = "read" /\ devices[at].midi = "open"
  /\ reads < MaxReads
  /\ reads' = reads + 1
  /\ \E b \in IF local.code = UNWRITTEN THEN Byte ELSE {local.code} : Process(b)
  /\ got' = <<UNWRITTEN>> \o got
  /\ UNCHANGED <<devices, pc, listing, at, handed>>

ReadNone ==
  /\ pc = "read" /\ devices[at].midi = "open"
  /\ pc' = "update" /\ at' = at + 1
  /\ local' = NewLocal /\ got' = <<>>
  /\ UNCHANGED <<devices, queues, listing, handed, parsed, reads>>

ReadDead ==
  /\ pc = "read" /\ devices[at].midi = "dead"
  /\ pc' = "fault"
  /\ UNCHANGED <<devices, queues, listing, at, handed, update>>

-----------------------------------------------------------------------------
(* Then their queues are emptied into the system's, from the last event on *)
(* and each time one entry above it, as ev_queue_pop reads.                *)

Popped(queue) == queue.q[queue.ptr]

(* Mistake: the queue is emptied only down to its first entry. *)
MoveEventBut ==
  /\ pc = "move" /\ at <= Len(devices)
  /\ queues[at].ptr # 0
  /\ handed' = Append(handed, Popped(queues[at]))
  /\ queues' = [queues EXCEPT ![at].ptr = IF @ = 2 THEN 0 ELSE @ - 1]
  /\ UNCHANGED <<devices, pc, listing, at, update>>

MoveEvent ==
  /\ pc = "move" /\ at <= Len(devices)
  /\ queues[at].ptr # 0
  /\ handed' = Append(handed, Popped(queues[at]))
  /\ queues' = [queues EXCEPT ![at].ptr = @ - 1]
  /\ UNCHANGED <<devices, pc, listing, at, update>>

NextQueue ==
  /\ pc = "move" /\ at <= Len(devices)
  /\ queues[at].ptr = 0
  /\ at' = at + 1
  /\ UNCHANGED <<devices, queues, pc, listing, handed, update>>

(* The rest of the loop of gensyn_input_loop_thread__main (InputLoop). *)
GetEvents ==
  /\ pc = "move" /\ at > Len(devices)
  /\ handed' = <<>> /\ parsed' = <<>>
  /\ pc' = "top" /\ at' = 1
  /\ UNCHANGED <<devices, queues, listing, local, got, reads>>

DeviceNext ==
  \/ QueryDevices \/ SkipQuery \/ Assemble \/ QueryEnd
  \/ UpdateDevice \/ Read \/ ReadError \/ ReadNone \/ ReadDead
  \/ MoveEvent \/ NextQueue \/ GetEvents

DeviceSpec == DeviceInit /\ [][DeviceNext]_deviceVars

-----------------------------------------------------------------------------
(* Properties. *)

DeviceTypeOK ==
  /\ \A k \in DOMAIN devices :
       /\ devices[k].name \in DevName \cup {BLANK}
       /\ devices[k].path \in DevPath \cup {BLANK}
       /\ devices[k].midi \in {"open", "dead"}
  /\ Len(queues) = Len(devices)
  /\ \A k \in DOMAIN queues : queues[k].ptr \in 0 .. MaxReads
  /\ pc \in {"top", "query", "update", "read", "move", "fault"}
  /\ at \in 1 .. Len(devices) + 1
  /\ reads \in 0 .. MaxReads

(* An event names its device by its index (system.h:68), so a device has   *)
(* one, and keeps it, wherever it is plugged in (the comment of line 263). *)
IDsIdentify ==
  [][/\ \A k \in DOMAIN devices :
          k \in DOMAIN devices' /\ devices'[k].name = devices[k].name
     /\ \A j, k \in DOMAIN devices' :
          devices'[j].name = devices'[k].name => j = k]_deviceVars

(* The byte that fgetc gives at the end of the file becomes a line of its  *)
(* own (line 548).  Where a device was listed before it, it adds none and  *)
(* moves none: it repeats the last one (lines 233-255).                    *)
EndLineAddsNothing ==
  [][pc = "query" /\ token # None /\ lines = <<EndLine>> => UNCHANGED devices]_deviceVars

DataBefore(k) == Cardinality({j \in 1 .. k - 1 : got[j] \in Data})

(* A stream that begins with a status, and in which a status comes only    *)
(* after a pair of data bytes, so that an update neither begins within a   *)
(* message nor meets one with a single data byte.                          *)
WholeMessages ==
  /\ got # <<>> /\ got[1] \in Status
  /\ \A k \in DOMAIN got : got[k] \in Status => DataBefore(k) % 2 = 0

DataByte(n) == CHOOSE k \in DOMAIN got : got[k] \in Data /\ DataBefore(k) = n - 1

StatusOf(n) ==
  CHOOSE k \in DOMAIN got :
    /\ got[k] \in Status /\ k < DataByte(n)
    /\ \A j \in k + 1 .. DataByte(n) : got[j] \in Data

(* Such a stream gives its messages: what the queue of the device holds is *)
(* each pair with the status before it, in their order (lines 139-160).    *)
MessagesParsed ==
  pc = "read" /\ WholeMessages =>
    /\ queues[at].ptr = DataBefore(Len(got) + 1) \div 2
    /\ \A m \in 1 .. queues[at].ptr :
         queues[at].q[m - 1] =
           [deviceID |-> at - 1, input |-> got[StatusOf(2 * m - 1)],
            data1 |-> got[DataByte(2 * m - 1)], data2 |-> got[DataByte(2 * m)]]

(* The pop's read above the last event (line 511) costs the first event of *)
(* a device in a turn, and only that one: the system's queue gets as many  *)
(* entries as events were made, and all the others are among them.         *)
OnlyFirstLost ==
  pc = "move" /\ at > Len(devices) =>
    /\ Len(handed) = Len(parsed)
    /\ \A m \in DOMAIN parsed :
         \/ \E k \in DOMAIN handed : handed[k] = parsed[m]
         \/ \A j \in 1 .. m - 1 : parsed[j].deviceID # parsed[m].deviceID
=============================================================================
