--------------------------- MODULE InputDevicesProofs --------------------------
(***************************************************************************)
(* Proofs about InputDevices, for any listings of any length and any bytes *)
(* read: a device is found again at its index, and the line that the end   *)
(* of the output leaves behind adds and moves none; a stream of whole      *)
(* messages gives these; and a turn loses no event but the first of each   *)
(* device.                                                                 *)
(***************************************************************************)
EXTENDS InputDevices, SequenceTheorems, FiniteSetTheorems, TLAPS

-----------------------------------------------------------------------------
(* The inductive invariant. *)

Device == [name : DevName \cup {BLANK}, path : DevPath \cup {BLANK}, midi : {"open", "dead"}]

Line == [path : DevPath \cup {BLANK}, name : DevName \cup {BLANK}]

DevicesOK ==
  /\ devices \in Seq(Device)
  /\ \A j, k \in 1 .. Len(devices) : devices[j].name = devices[k].name => j = k

(* The words that are left from the line before are those of a device. *)
ListingOK ==
  /\ lines \in Seq(Line) /\ token \in Line
  /\ pc = "query" /\ token # None =>
       \E k \in 1 .. Len(devices) :
         devices[k].name = token.name /\ devices[k].path = token.path

Field  == Byte \cup {0}
Event3 == [input : Field, data1 : Field, data2 : Field]
Event4 == [deviceID : Int, input : Field, data1 : Field, data2 : Field]
Queue  == [ptr : Nat, q : [0 .. MaxReads -> Event4 \cup {UNWRITTEN}]]

(* No queue has more events than were read. *)
QueuesOK ==
  /\ queues \in Seq(Queue) /\ Len(queues) = Len(devices)
  /\ \A k \in 1 .. Len(queues) : queues[k].ptr <= reads
  /\ reads \in Nat /\ reads <= MaxReads

UpdateOK ==
  /\ local \in [index : Nat, code : Byte \cup {UNWRITTEN}, ev : Event3]
  /\ at \in Nat /\ 1 <= at /\ at <= Len(devices) + 1
  /\ pc \in {"top", "query", "update", "read", "move", "fault"}
  /\ pc = "read" => at <= Len(devices)

DeviceInv == DevicesOK /\ ListingOK /\ QueuesOK /\ UpdateOK

-----------------------------------------------------------------------------

LEMMA InvGivesDeviceTypes == DeviceInv => DeviceTypeOK
<1> SUFFICES ASSUME DeviceInv
             PROVE  DeviceTypeOK
  OBVIOUS
<1> USE DEF DeviceInv, DevicesOK, QueuesOK, UpdateOK
<1>1. \A k \in DOMAIN devices : devices[k] \in Device /\ Len(devices) \in Nat
  OBVIOUS
<1>2. \A k \in DOMAIN queues : queues[k].ptr \in 0 .. MaxReads
  <2> SUFFICES ASSUME NEW k \in DOMAIN queues
               PROVE  queues[k].ptr \in 0 .. MaxReads
    OBVIOUS
  <2>1. k \in 1 .. Len(queues) /\ queues[k] \in Queue
    OBVIOUS
  <2>2. queues[k].ptr \in Nat /\ queues[k].ptr <= reads
    BY <2>1 DEF Queue
  <2> QED
    BY <2>2, DeviceAssumption
<1> QED
  BY <1>1, <1>2, DeviceAssumption DEF DeviceTypeOK, Device

(* What the words of a listing do to the array of devices. *)
LEMMA AssembleSteps ==
  ASSUME DeviceInv, Assemble
  PROVE  /\ \A k \in 1 .. Len(devices) :
              k \in 1 .. Len(devices') /\ devices'[k].name = devices[k].name
         /\ Len(devices) \in Nat /\ Len(devices') >= Len(devices)
         /\ token' \in Line
         /\ DevicesOK'
         /\ queues' \in Seq(Queue) /\ Len(queues') = Len(devices')
         /\ \A k \in 1 .. Len(queues') : queues'[k].ptr <= reads
         /\ pc' \in {"query", "fault"}
         /\ pc' = "query" =>
              \E k \in 1 .. Len(devices') :
                devices'[k].name = token'.name /\ devices'[k].path = token'.path
<1> USE DEF DeviceInv, DevicesOK, QueuesOK
<1>1. /\ token' \in Line /\ token'.name \in DevName \cup {BLANK}
      /\ token'.path \in DevPath \cup {BLANK}
  <2>1. lines \in Seq(Line) /\ token \in Line /\ lines # <<>> /\ token' = Tokens(Head(lines))
    BY DEF ListingOK, Assemble
  <2>2. Head(lines) \in Line
    BY <2>1
  <2>3. token' \in Line
    BY <2>1, <2>2 DEF Tokens
  <2> QED
    BY <2>3 DEF Line
<1>2. CASE AddDevice(token')
  <2>1. PICK h \in {"open", "dead"} :
          devices' = Append(devices, [name |-> token'.name, path |-> token'.path, midi |-> h])
    BY <1>2 DEF AddDevice
  <2> DEFINE d == [name |-> token'.name, path |-> token'.path, midi |-> h]
  <2>2. d \in Device /\ d.name = token'.name /\ d.path = token'.path
    BY <1>1 DEF Device
  <2>3. \A k \in 1 .. Len(devices) : devices[k].name # token'.name
    BY <1>2 DEF AddDevice, Known
  <2>4. queues' = Append(queues, NewQueue) /\ pc' = "query"
    BY <1>2 DEF AddDevice, Assemble
  <2>5. NewQueue \in Queue /\ NewQueue.ptr = 0
    BY DEF NewQueue, Queue
  <2> HIDE DEF d
  <2>6. /\ devices' \in Seq(Device) /\ Len(devices') = Len(devices) + 1 /\ Len(devices) \in Nat
        /\ devices'[Len(devices) + 1] = d
        /\ \A k \in 1 .. Len(devices) : devices'[k] = devices[k]
    BY <2>1, <2>2, AppendProperties DEF d
  <2>7. /\ queues' \in Seq(Queue) /\ Len(queues') = Len(queues) + 1
        /\ queues'[Len(queues) + 1] = NewQueue
        /\ \A k \in 1 .. Len(queues) : queues'[k] = queues[k]
    BY <2>4, <2>5, AppendProperties
  <2>8. \A k \in 1 .. Len(queues') : queues'[k].ptr <= reads
    BY <2>5, <2>6, <2>7
  <2>9. \A j, k \in 1 .. Len(devices') : devices'[j].name = devices'[k].name => j = k
    BY <2>2, <2>3, <2>6
  <2>10. DevicesOK'
    BY <2>6, <2>9
  <2>11. \A k \in 1 .. Len(devices) :
           k \in 1 .. Len(devices') /\ devices'[k].name = devices[k].name
    BY <2>6
  <2>12. Len(devices) + 1 \in 1 .. Len(devices')
    BY <2>6
  <2>13. \E k \in 1 .. Len(devices') :
           devices'[k].name = token'.name /\ devices'[k].path = token'.path
    BY <2>2, <2>6, <2>12
  <2>14. Len(devices') >= Len(devices) /\ Len(queues') = Len(devices')
    BY <2>6, <2>7
  <2> QED
    BY <1>1, <2>4, <2>6, <2>7, <2>8, <2>10, <2>11, <2>13, <2>14
<1>3. CASE FindDevice(token')
  <2>1. PICK k \in Known(token') :
          /\ queues' = queues
          /\ \/ devices[k].path = token'.path /\ UNCHANGED <<devices, pc>>
             \/ /\ UNCHANGED pc
                /\ \E h \in {"open", "dead"} :
                     devices' = [devices EXCEPT ![k].path = token'.path, ![k].midi = h]
             \/ pc' = "fault" /\ UNCHANGED devices
    BY <1>3 DEF FindDevice
  <2>2. k \in 1 .. Len(devices) /\ devices[k].name = token'.name /\ pc = "query"
    BY <2>1 DEF Known, Assemble
  <2>3. ASSUME NEW h \in {"open", "dead"}, UNCHANGED pc,
               devices' = [devices EXCEPT ![k].path = token'.path, ![k].midi = h]
        PROVE  /\ devices' \in Seq(Device) /\ Len(devices') = Len(devices) /\ Len(devices) \in Nat
               /\ \A j \in 1 .. Len(devices) : devices'[j].name = devices[j].name
               /\ devices'[k].path = token'.path
    <3> DEFINE d == [devices[k] EXCEPT !.path = token'.path, !.midi = h]
    <3>1. devices[k] \in Device
      BY <2>2
    <3>2. d \in Device /\ d.name = devices[k].name /\ d.path = token'.path
      BY <1>1, <3>1 DEF Device
    <3>3. devices' = [devices EXCEPT ![k] = d]
      BY <2>2, <2>3
    <3> HIDE DEF d
    <3>4. /\ devices' \in Seq(Device) /\ Len(devices') = Len(devices)
          /\ \A j \in 1 .. Len(devices) : devices'[j] = IF j = k THEN d ELSE devices[j]
      BY <2>2, <3>2, <3>3, ExceptSeq
    <3>5. Len(devices) \in Nat /\ devices'[k].path = token'.path
      BY <2>2, <3>2, <3>4
    <3>6. \A j \in 1 .. Len(devices) : devices'[j].name = devices[j].name
      BY <3>2, <3>4
    <3> QED
      BY <3>4, <3>5, <3>6
  <2>4. /\ devices' \in Seq(Device) /\ Len(devices') = Len(devices) /\ Len(devices) \in Nat
        /\ \A j \in 1 .. Len(devices) : devices'[j].name = devices[j].name
        /\ pc' \in {"query", "fault"}
        /\ pc' = "query" => devices'[k].path = token'.path
    <3>1. CASE devices[k].path = token'.path /\ UNCHANGED <<devices, pc>>
      BY <2>2, <3>1
    <3>2. ASSUME UNCHANGED pc, NEW h \in {"open", "dead"},
                 devices' = [devices EXCEPT ![k].path = token'.path, ![k].midi = h]
          PROVE  /\ devices' \in Seq(Device) /\ Len(devices') = Len(devices) /\ Len(devices) \in Nat
                 /\ \A j \in 1 .. Len(devices) : devices'[j].name = devices[j].name
                 /\ devices'[k].path = token'.path /\ pc' = "query"
      BY <2>2, <2>3, <3>2
    <3>3. CASE pc' = "fault" /\ UNCHANGED devices
      BY <2>2, <3>3
    <3> QED
      BY <2>1, <3>1, <3>2, <3>3
  <2>5. DevicesOK'
    BY <2>4
  <2>6. pc' = "query" =>
          \E j \in 1 .. Len(devices') :
            devices'[j].name = token'.name /\ devices'[j].path = token'.path
    BY <2>2, <2>4
  <2>7. /\ queues' \in Seq(Queue) /\ Len(queues') = Len(devices')
        /\ \A j \in 1 .. Len(queues') : queues'[j].ptr <= reads
    BY <2>1, <2>4
  <2>8. /\ \A j \in 1 .. Len(devices) :
             j \in 1 .. Len(devices') /\ devices'[j].name = devices[j].name
        /\ Len(devices') >= Len(devices)
    BY <2>4
  <2> QED
    BY <1>1, <2>4, <2>5, <2>6, <2>7, <2>8
<1> QED
  BY <1>2, <1>3 DEF Assemble

LEMMA AssembleKeeps ==
  ASSUME DeviceInv, Assemble
  PROVE  DeviceInv'
<1>1. lines' = Tail(lines) /\ lines # <<>> /\ UNCHANGED <<at, local, reads>>
  BY DEF Assemble, update
<1>2. lines' \in Seq(Line)
  BY <1>1 DEF DeviceInv, ListingOK
<1>3. ListingOK'
  BY <1>2, AssembleSteps DEF ListingOK
<1>4. QueuesOK'
  BY <1>1, AssembleSteps DEF DeviceInv, QueuesOK
<1>5. UpdateOK'
  <2>1. /\ Len(devices) \in Nat /\ Len(devices') \in Nat /\ Len(devices') >= Len(devices)
        /\ pc' \in {"query", "fault"}
    BY AssembleSteps DEF DevicesOK
  <2> QED
    BY <1>1, <2>1 DEF DeviceInv, UpdateOK
<1> QED
  BY <1>3, <1>4, <1>5, AssembleSteps DEF DeviceInv

LEMMA QueuesTyped ==
  ASSUME queues \in Seq(Queue)
  PROVE  /\ Len(queues) \in Nat
         /\ \A k \in 1 .. Len(queues) : queues[k] \in Queue /\ queues[k].ptr \in Nat
<1>1. \A k \in 1 .. Len(queues) : queues[k] \in Queue
  OBVIOUS
<1>2. \A u \in Queue : u.ptr \in Nat
  BY DEF Queue
<1> QED
  BY <1>1, <1>2

Local == [index : Nat, code : Byte \cup {UNWRITTEN}, ev : Event3]

LEMMA LocalTyped ==
  ASSUME NEW u \in Local, NEW c \in Byte, NEW v \in Event3
  PROVE  [u EXCEPT !.index = @ + 1, !.code = c, !.ev = v] \in Local
<1>1. u.index + 1 \in Nat
  BY DEF Local
<1> QED
  BY <1>1 DEF Local

(* A byte fills its field, and may complete an event. *)
LEMMA ProcessTyped ==
  ASSUME DeviceInv, pc = "read", NEW b \in Byte, Process(b), reads < MaxReads
  PROVE  /\ local' \in [index : Nat, code : Byte \cup {UNWRITTEN}, ev : Event3]
         /\ queues' \in Seq(Queue) /\ Len(queues') = Len(queues)
         /\ \A k \in 1 .. Len(queues) : queues'[k].ptr <= reads + 1
<1> USE DEF DeviceInv, QueuesOK, UpdateOK
<1>1. /\ local.index \in Nat /\ local.ev \in Event3 /\ reads \in Nat
      /\ local \in [index : Nat, code : Byte \cup {UNWRITTEN}, ev : Event3]
  OBVIOUS
<1>2. \A k \in 1 .. Len(queues) : queues[k] \in Queue /\ queues[k].ptr \in Nat
  BY QueuesTyped
<1>3. ASSUME UNCHANGED queues
      PROVE  /\ queues' \in Seq(Queue) /\ Len(queues') = Len(queues)
             /\ \A k \in 1 .. Len(queues) : queues'[k].ptr <= reads + 1
  BY <1>1, <1>2, <1>3
<1>4. b \in Field /\ b \in Byte \cup {UNWRITTEN}
  BY DEF Field
<1>5. CASE ProcessStatus(b)
  <2>1. local' = [local EXCEPT !.code = b, !.ev.input = b] /\ UNCHANGED queues
    BY <1>5 DEF ProcessStatus
  <2>2. [local.ev EXCEPT !.input = b] \in Event3
    BY <1>1, <1>4 DEF Event3
  <2>3. local' \in [index : Nat, code : Byte \cup {UNWRITTEN}, ev : Event3]
    BY <1>1, <1>4, <2>1, <2>2
  <2> QED
    BY <1>3, <2>1, <2>3
<1>6. CASE FirstData(b)
  <2> DEFINE v == [local.ev EXCEPT !.data1 = b]
  <2>1. /\ local' = [local EXCEPT !.index = @ + 1, !.code = b, !.ev = v]
        /\ UNCHANGED queues
    BY <1>1, <1>6 DEF FirstData
  <2>2. v \in Event3
    BY <1>1, <1>4 DEF Event3
  <2> HIDE DEF v
  <2>3. local' \in [index : Nat, code : Byte \cup {UNWRITTEN}, ev : Event3]
    BY <1>1, <2>1, <2>2, LocalTyped DEF Local
  <2> QED
    BY <1>3, <2>1, <2>3
<1>7. CASE SecondData(b)
  <2> DEFINE v == [local.ev EXCEPT !.data2 = b]
  <2>1. /\ local' = [local EXCEPT !.index = @ + 1, !.code = b, !.ev = v]
        /\ queues' = [queues EXCEPT ![at] = Pushed(queues[at], Event(local'.ev))]
    BY <1>1, <1>7 DEF SecondData
  <2>2. v \in Event3
    BY <1>1, <1>4 DEF Event3
  <2> HIDE DEF v
  <2>3. /\ local' \in [index : Nat, code : Byte \cup {UNWRITTEN}, ev : Event3]
        /\ local'.ev \in Event3
    <3>1. local' \in [index : Nat, code : Byte \cup {UNWRITTEN}, ev : Event3]
      BY <1>1, <2>1, <2>2, LocalTyped DEF Local
    <3> QED
      BY <3>1
  <2> DEFINE e == Event(local'.ev)
             u == Pushed(queues[at], e)
  <2>4. e \in Event4
    BY <2>3 DEF Event, Event3, Event4
  <2>5. at \in 1 .. Len(queues)
    OBVIOUS
  <2>6. queues[at] \in Queue /\ queues[at].ptr \in Nat /\ queues[at].ptr <= reads
    BY <1>2, <2>5
  <2>7. u \in Queue /\ u.ptr = queues[at].ptr + 1
    <3> HIDE DEF e
    <3>1. [queues[at].q EXCEPT ![queues[at].ptr] = e] \in [0 .. MaxReads -> Event4 \cup {UNWRITTEN}]
      BY <2>4, <2>6 DEF Queue
    <3> QED
      BY <2>6, <3>1 DEF Pushed, Queue
  <2> HIDE DEF u
  <2>8. /\ queues' \in Seq(Queue) /\ Len(queues') = Len(queues)
        /\ \A k \in 1 .. Len(queues) : queues'[k] = IF k = at THEN u ELSE queues[k]
    BY <2>1, <2>5, <2>7, ExceptSeq DEF u
  <2>9. \A k \in 1 .. Len(queues) : queues'[k].ptr <= reads + 1
    <3> TAKE k \in 1 .. Len(queues)
    <3>1. queues[k].ptr \in Nat /\ queues[k].ptr <= reads
      BY <1>2
    <3>2. queues'[k].ptr = queues[k].ptr \/ queues'[k].ptr = queues[at].ptr + 1
      <4>1. CASE k = at
        BY <2>7, <2>8, <4>1
      <4>2. CASE k # at
        BY <2>8, <4>2
      <4> QED
        BY <4>1, <4>2
    <3>3. reads \in Nat
      BY <1>1
    <3> QED
      BY <2>6, <3>1, <3>2, <3>3
  <2> QED
    BY <2>3, <2>8, <2>9
<1> QED
  BY <1>5, <1>6, <1>7 DEF Process

LEMMA ReadKeeps ==
  ASSUME DeviceInv, Read \/ ReadError
  PROVE  DeviceInv'
<1> USE DEF DeviceInv, QueuesOK, UpdateOK
<1>1. /\ pc = "read" /\ reads < MaxReads /\ reads' = reads + 1
      /\ \E b \in Byte : Process(b)
      /\ UNCHANGED <<devices, pc, lines, token, at>>
  <2>1. CASE Read
    BY <2>1 DEF Read, listing
  <2>2. CASE ReadError
    <3>1. local.code \in Byte \cup {UNWRITTEN}
      OBVIOUS
    <3> QED
      BY <2>2, <3>1 DEF ReadError, listing
  <2> QED
    BY <2>1, <2>2
<1>2. /\ local' \in [index : Nat, code : Byte \cup {UNWRITTEN}, ev : Event3]
      /\ queues' \in Seq(Queue) /\ Len(queues') = Len(queues)
      /\ \A k \in 1 .. Len(queues) : queues'[k].ptr <= reads + 1
  BY <1>1, ProcessTyped
<1>3. DevicesOK' /\ ListingOK'
  BY <1>1 DEF DevicesOK, ListingOK
<1>4. QueuesOK'
  <2>1. reads' \in Nat /\ reads' <= MaxReads
    BY <1>1, DeviceAssumption
  <2> QED
    BY <1>1, <1>2, <2>1
<1> QED
  BY <1>1, <1>2, <1>3, <1>4

LEMMA MoveKeeps ==
  ASSUME DeviceInv, MoveEvent
  PROVE  DeviceInv'
<1> USE DEF DeviceInv, QueuesOK, UpdateOK
<1>1. /\ at \in 1 .. Len(queues) /\ queues[at].ptr # 0 /\ pc = "move"
      /\ queues' = [queues EXCEPT ![at].ptr = @ - 1]
      /\ UNCHANGED <<devices, pc, lines, token, at, local, reads>>
  BY DEF MoveEvent, listing, update, DevicesOK
<1> DEFINE u == [queues[at] EXCEPT !.ptr = @ - 1]
<1>2. queues[at] \in Queue /\ queues[at].ptr \in Nat /\ queues[at].ptr <= reads
  BY <1>1, QueuesTyped
<1>3. u \in Queue /\ u.ptr = queues[at].ptr - 1
  <2>1. queues[at].ptr - 1 \in Nat
    BY <1>1, <1>2
  <2> QED
    BY <1>2, <2>1 DEF Queue
<1>4. queues' = [queues EXCEPT ![at] = u]
  BY <1>1
<1> HIDE DEF u
<1>5. /\ queues' \in Seq(Queue) /\ Len(queues') = Len(queues)
      /\ \A k \in 1 .. Len(queues) : queues'[k] = IF k = at THEN u ELSE queues[k]
  <2>1. at \in 1 .. Len(queues) /\ queues \in Seq(Queue)
    BY <1>1
  <2> QED
    BY <1>3, <1>4, <2>1, ExceptSeq
<1>6. \A k \in 1 .. Len(queues) : queues'[k].ptr <= reads
  BY <1>2, <1>3, <1>5
<1>7. DevicesOK' /\ ListingOK'
  BY <1>1 DEF DevicesOK, ListingOK
<1> QED
  BY <1>1, <1>5, <1>6, <1>7

(* The steps that only move on. *)
LEMMA OtherKeeps ==
  ASSUME DeviceInv,
         \/ QueryDevices \/ SkipQuery \/ QueryEnd \/ UpdateDevice
         \/ ReadNone \/ ReadDead \/ NextQueue \/ GetEvents
         \/ UNCHANGED deviceVars
  PROVE  DeviceInv'
<1> USE DEF DeviceInv, DevicesOK, QueuesOK, UpdateOK
<1>0. Len(devices) \in Nat /\ None \in Line
  BY DEF None, Line
<1>1. CASE QueryDevices
  <2>1. PICK n \in 0 .. MaxLines : \E s \in [1 .. n -> Listed] : lines' \in {<<>>, Append(s, EndLine)}
    BY <1>1 DEF QueryDevices
  <2>2. PICK s \in [1 .. n -> Listed] : lines' \in {<<>>, Append(s, EndLine)}
    BY <2>1
  <2>3. Listed \subseteq Line
    BY DEF Listed, Line
  <2>4. s \in Seq(Line) /\ EndLine \in Line
    <3>1. s \in [1 .. n -> Line] /\ n \in Nat
      BY <2>3, DeviceAssumption
    <3> QED
      BY <1>0, <3>1 DEF EndLine
  <2>5. Append(s, EndLine) \in Seq(Line) /\ <<>> \in Seq(Line)
    BY <2>4
  <2>6. lines' \in Seq(Line)
    BY <2>2, <2>5
  <2>7. token' = None /\ pc' = "query" /\ UNCHANGED <<devices, queues, at, local, reads>>
    BY <1>1 DEF QueryDevices, update
  <2> QED
    BY <1>0, <2>6, <2>7 DEF ListingOK
<1>2. CASE SkipQuery
  BY <1>0, <1>2 DEF SkipQuery, listing, update, ListingOK
<1>3. CASE QueryEnd
  BY <1>0, <1>3 DEF QueryEnd, update, ListingOK
<1>4. CASE UpdateDevice
  BY <1>0, <1>4 DEF UpdateDevice, listing, update, ListingOK
<1>5. CASE ReadNone
  <2>1. local' = NewLocal /\ at' = at + 1 /\ pc' = "update" /\ pc = "read"
        /\ UNCHANGED <<devices, queues, lines, token, reads>>
    BY <1>5 DEF ReadNone, listing
  <2>2. NewLocal \in [index : Nat, code : Byte \cup {UNWRITTEN}, ev : Event3]
    BY DEF NewLocal, Event3, Field
  <2> QED
    BY <1>0, <2>1, <2>2 DEF ListingOK
<1>6. CASE ReadDead
  BY <1>6 DEF ReadDead, listing, update, ListingOK
<1>7. CASE NextQueue
  BY <1>0, <1>7 DEF NextQueue, listing, update, ListingOK
<1>8. CASE GetEvents
  BY <1>0, <1>8 DEF GetEvents, listing, update, ListingOK
<1>9. CASE UNCHANGED deviceVars
  BY <1>9 DEF deviceVars, listing, update, ListingOK
<1> QED
  BY <1>1, <1>2, <1>3, <1>4, <1>5, <1>6, <1>7, <1>8, <1>9

LEMMA DeviceInitHolds == DeviceInit => DeviceInv
<1> SUFFICES ASSUME DeviceInit
             PROVE  DeviceInv
  OBVIOUS
<1>1. <<>> \in Seq(Device) /\ <<>> \in Seq(Queue) /\ <<>> \in Seq(Line) /\ Len(<<>>) = 0
  OBVIOUS
<1>2. NewLocal \in [index : Nat, code : Byte \cup {UNWRITTEN}, ev : Event3]
  BY DEF NewLocal, Event3, Field
<1>3. None \in Line
  BY DEF None, Line
<1> QED
  BY <1>1, <1>2, <1>3, DeviceAssumption
  DEF DeviceInit, DeviceInv, DevicesOK, ListingOK, QueuesOK, UpdateOK

LEMMA DeviceNextKeeps == DeviceInv /\ [DeviceNext]_deviceVars => DeviceInv'
BY AssembleKeeps, ReadKeeps, MoveKeeps, OtherKeeps DEF DeviceNext

-----------------------------------------------------------------------------

(* Whatever amidi lists and whatever is read, in whatever turns.           *)
THEOREM DeviceInvariant == DeviceSpec => []DeviceInv
<1> QED
  BY DeviceInitHolds, DeviceNextKeeps, PTL DEF DeviceSpec

(* Every device has its queue, and no queue more events than were read.    *)
THEOREM DeviceTypeCorrect == DeviceSpec => []DeviceTypeOK
<1> QED
  BY InvGivesDeviceTypes, DeviceInvariant, PTL

(* A device keeps the index by which its events name it, and no other is   *)
(* ever added under its name.                                              *)
THEOREM DevicesIdentified == DeviceSpec => IDsIdentify
<1> DEFINE Step == /\ \A k \in DOMAIN devices :
                        k \in DOMAIN devices' /\ devices'[k].name = devices[k].name
                   /\ \A j, k \in DOMAIN devices' :
                        devices'[j].name = devices'[k].name => j = k
<1>1. ASSUME DeviceInv, DeviceInv', [DeviceNext]_deviceVars
      PROVE  Step
  <2>1. DOMAIN devices = 1 .. Len(devices) /\ DOMAIN devices' = 1 .. Len(devices')
    BY <1>1 DEF DeviceInv, DevicesOK
  <2>2. \A j, k \in DOMAIN devices' : devices'[j].name = devices'[k].name => j = k
    BY <1>1, <2>1 DEF DeviceInv, DevicesOK
  <2>3. CASE Assemble
    BY <1>1, <2>1, <2>2, <2>3, AssembleSteps
  <2>4. CASE UNCHANGED devices
    BY <2>2, <2>4
  <2> QED
    BY <1>1, <2>3, <2>4
    DEF DeviceNext, deviceVars, QueryDevices, SkipQuery, QueryEnd, UpdateDevice,
        Read, ReadError, ReadNone, ReadDead, MoveEvent, NextQueue, GetEvents
<1>2. DeviceInv /\ DeviceInv' /\ [DeviceNext]_deviceVars => [Step]_deviceVars
  BY <1>1
<1> QED
  BY <1>2, DeviceInvariant, PTL DEF DeviceSpec, IDsIdentify

(* The end of the output of amidi, taken for a line, adds no device behind *)
(* the ones that were listed, and reopens none.                            *)
THEOREM EndLineHarmless == DeviceSpec => EndLineAddsNothing
<1> DEFINE Step == pc = "query" /\ token # None /\ lines = <<EndLine>> => UNCHANGED devices
<1>1. ASSUME DeviceInv, [DeviceNext]_deviceVars
      PROVE  Step
  <2> SUFFICES ASSUME pc = "query", token # None, lines = <<EndLine>>
               PROVE  UNCHANGED devices
    OBVIOUS
  <2>1. CASE Assemble
    <3>1. Head(lines) = EndLine
      OBVIOUS
    <3>2. token' = token
      BY <2>1, <3>1 DEF Assemble, Tokens
    <3>3. PICK k \in 1 .. Len(devices) :
            devices[k].name = token.name /\ devices[k].path = token.path
      BY <1>1 DEF DeviceInv, ListingOK
    <3>4. /\ DOMAIN devices = 1 .. Len(devices)
          /\ \A j \in Known(token) : j = k
          /\ Known(token) # {}
      BY <1>1, <3>3 DEF DeviceInv, DevicesOK, Known
    <3>5. FindDevice(token)
      BY <2>1, <3>2, <3>4 DEF Assemble, AddDevice
    <3> QED
      BY <3>3, <3>4, <3>5 DEF FindDevice
  <2>2. CASE ~Assemble
    BY <1>1, <2>2
    DEF DeviceNext, deviceVars, QueryDevices, SkipQuery, QueryEnd, UpdateDevice,
        Read, ReadError, ReadNone, ReadDead, MoveEvent, NextQueue, GetEvents
  <2> QED
    BY <2>1, <2>2
<1>2. DeviceInv /\ [DeviceNext]_deviceVars => [Step]_deviceVars
  BY <1>1
<1> QED
  BY <1>2, DeviceInvariant, PTL DEF DeviceSpec, EndLineAddsNothing

-----------------------------------------------------------------------------
(* The events of a turn: the invariant. *)

(* The events of device k are the ones of parsed behind the first f[k], as *)
(* the devices are read in their order.                                    *)
Ordered(f) ==
  /\ f \in [1 .. Len(devices) + 1 -> 0 .. Len(parsed)]
  /\ f[1] = 0 /\ f[Len(devices) + 1] = Len(parsed)
  /\ \A j \in 1 .. Len(parsed) :
       /\ parsed[j].deviceID \in 0 .. Len(devices) - 1
       /\ \A k \in 1 .. Len(devices) + 1 : j <= f[k] <=> parsed[j].deviceID < k - 1

(* The queue of device k holds its events. *)
Kept(f, k) ==
  /\ f[k] <= f[k + 1]
  /\ \A i \in 0 .. f[k + 1] - f[k] - 1 : queues[k].q[i] = parsed[f[k] + i + 1]

(* Before and while the devices are read, from device n on none has any.   *)
ReadUpTo(f, n) ==
  /\ handed = <<>>
  /\ \A k \in 1 .. Len(devices) : queues[k].ptr = f[k + 1] - f[k]
  /\ \A k \in n .. Len(devices) + 1 : f[k] = Len(parsed)

IsHanded(e) == \E h \in 1 .. Len(handed) : handed[h] = e

(* The devices before this one are emptied, but for the first event of     *)
(* each; of this one the events above the top of its queue are handed.     *)
Moving(f) ==
  /\ \A k \in 1 .. Len(devices) :
       /\ k < at => queues[k].ptr = 0
       /\ k = at => queues[k].ptr <= f[k + 1] - f[k] /\ Len(handed) = f[k + 1] - queues[k].ptr
       /\ k > at => queues[k].ptr = f[k + 1] - f[k]
  /\ at = Len(devices) + 1 => Len(handed) = Len(parsed)
  /\ \A m \in 1 .. Len(parsed) : \A k \in 1 .. Len(devices) :
       parsed[m].deviceID = k - 1 =>
         /\ k < at /\ m > f[k] + 1 => IsHanded(parsed[m])
         /\ k = at /\ m > f[k] + queues[k].ptr + 1 => IsHanded(parsed[m])

TurnOf(f) ==
  /\ Ordered(f)
  /\ \A k \in 1 .. Len(devices) : Kept(f, k)
  /\ pc = "update" => ReadUpTo(f, at)
  /\ pc = "read" => ReadUpTo(f, at + 1)
  /\ pc = "move" => Moving(f)

Untouched ==
  /\ handed = <<>> /\ parsed = <<>>
  /\ \A k \in 1 .. Len(queues) : queues[k].ptr = 0

TurnOK ==
  /\ parsed \in Seq(Event4) /\ handed \in Seq(Event4 \cup {UNWRITTEN})
  /\ pc \in {"top", "query"} => Untouched
  /\ pc \in {"update", "read", "move"} =>
       \E f \in [1 .. Len(devices) + 1 -> Nat] : TurnOf(f)

LEMMA TurnBounds ==
  ASSUME DeviceInv
  PROVE  /\ Len(devices) \in Nat /\ Len(queues) = Len(devices)
         /\ at \in Nat /\ 1 <= at /\ at <= Len(devices) + 1
         /\ pc = "read" => at \in 1 .. Len(devices)
         /\ reads \in Nat /\ reads <= MaxReads /\ MaxReads \in Nat
         /\ queues \in Seq(Queue)
         /\ \A k \in 1 .. Len(devices) :
              queues[k] \in Queue /\ queues[k].ptr \in Nat /\ queues[k].ptr <= reads
<1>1. Len(devices) \in Nat
  BY DEF DeviceInv, DevicesOK
<1> QED
  BY <1>1, QueuesTyped, DeviceAssumption DEF DeviceInv, QueuesOK, UpdateOK

(* The second data byte puts an event on top of the device's queue. *)
LEMMA SecondDataSteps ==
  ASSUME DeviceInv, pc = "read", reads < MaxReads, NEW b \in Byte, SecondData(b)
  PROVE  \E e \in Event4 :
           /\ e = [deviceID |-> at - 1, input |-> local.ev.input,
                   data1 |-> local.ev.data1, data2 |-> b]
           /\ parsed' = Append(parsed, e)
           /\ Len(queues') = Len(queues)
           /\ \A k \in 1 .. Len(queues) : k # at => queues'[k] = queues[k]
           /\ queues'[at].ptr = queues[at].ptr + 1
           /\ queues'[at].q[queues[at].ptr] = e
           /\ \A i \in 0 .. MaxReads :
                i # queues[at].ptr => queues'[at].q[i] = queues[at].q[i]
<1>1. local.ev \in Event3 /\ local \in Local
  BY DEF DeviceInv, UpdateOK, Local
<1>2. local'.ev = [local.ev EXCEPT !.data2 = b]
  BY <1>1 DEF SecondData, Local
<1>3. PICK e : e = [deviceID |-> at - 1, input |-> local.ev.input,
                    data1 |-> local.ev.data1, data2 |-> b]
  OBVIOUS
<1>4. e = Event(local'.ev)
  BY <1>1, <1>2, <1>3 DEF Event, Event3
<1>5. e \in Event4
  BY <1>1, <1>3, TurnBounds DEF Event3, Event4, Field
<1>6. PICK u : u = Pushed(queues[at], e)
  OBVIOUS
<1>7. /\ queues' = [queues EXCEPT ![at] = u] /\ parsed' = Append(parsed, e)
  BY <1>4, <1>6 DEF SecondData
<1>8. /\ at \in 1 .. Len(queues) /\ queues[at] \in Queue
      /\ queues[at].ptr \in 0 .. MaxReads
  BY TurnBounds
<1>9. /\ u.ptr = queues[at].ptr + 1 /\ u.q[queues[at].ptr] = e
      /\ \A i \in 0 .. MaxReads : i # queues[at].ptr => u.q[i] = queues[at].q[i]
  BY <1>6, <1>8 DEF Pushed, Queue
<1>10. /\ Len(queues') = Len(queues) /\ queues'[at] = u
       /\ \A k \in 1 .. Len(queues) : k # at => queues'[k] = queues[k]
  BY <1>7, <1>8, TurnBounds
<1> QED
  BY <1>3, <1>5, <1>7, <1>9, <1>10

LEMMA MoveEventSteps ==
  ASSUME DeviceInv, MoveEvent
  PROVE  /\ at \in 1 .. Len(devices) /\ queues[at].ptr # 0
         /\ handed' = Append(handed, queues[at].q[queues[at].ptr])
         /\ queues[at].q[queues[at].ptr] \in Event4 \cup {UNWRITTEN}
         /\ Len(queues') = Len(queues)
         /\ \A k \in 1 .. Len(queues) :
              /\ queues'[k].ptr = IF k = at THEN queues[k].ptr - 1 ELSE queues[k].ptr
              /\ queues'[k].q = queues[k].q
<1>1. /\ at \in 1 .. Len(queues) /\ queues[at].ptr # 0
      /\ queues' = [queues EXCEPT ![at].ptr = @ - 1]
      /\ handed' = Append(handed, queues[at].q[queues[at].ptr])
  BY TurnBounds DEF MoveEvent, Popped
<1>2. queues[at] \in Queue /\ queues[at].ptr \in 0 .. MaxReads
  BY <1>1, TurnBounds
<1>3. queues[at].q[queues[at].ptr] \in Event4 \cup {UNWRITTEN}
  BY <1>2 DEF Queue
<1>4. ASSUME NEW k \in 1 .. Len(queues)
      PROVE  /\ queues'[k].ptr = IF k = at THEN queues[k].ptr - 1 ELSE queues[k].ptr
             /\ queues'[k].q = queues[k].q
  <2>1. CASE k = at
    BY <1>1, <1>2, <2>1, TurnBounds DEF Queue
  <2>2. CASE k # at
    BY <1>1, <2>2, TurnBounds
  <2> QED
    BY <2>1, <2>2
<1>5. Len(queues') = Len(queues)
  BY <1>1, TurnBounds
<1> QED
  BY <1>1, <1>3, <1>4, <1>5, TurnBounds

LEMMA BlocksTyped ==
  ASSUME DeviceInv, NEW f \in [1 .. Len(devices) + 1 -> Nat], NEW k \in 1 .. Len(devices)
  PROVE  /\ k \in 1 .. Len(devices) + 1 /\ k + 1 \in 1 .. Len(devices) + 1
         /\ k \in Nat /\ f[k] \in Nat /\ f[k + 1] \in Nat
         /\ queues[k].ptr \in Nat /\ at \in Nat
<1>1. Len(devices) \in Nat
  BY TurnBounds
<1>2. k \in 1 .. Len(devices) + 1 /\ k + 1 \in 1 .. Len(devices) + 1 /\ k \in Nat
  BY <1>1
<1> QED
  BY <1>2, TurnBounds

(* A turn begins without events. *)
LEMMA TurnBegins ==
  ASSUME DeviceInv, TurnOK, Untouched, pc' = "update", at' = 1,
         UNCHANGED <<devices, queues, handed, parsed>>
  PROVE  TurnOK'
<1> DEFINE f == [k \in 1 .. Len(devices) + 1 |-> 0]
<1>1. handed = <<>> /\ parsed = <<>> /\ Len(parsed) = 0
  BY DEF Untouched
<1>2. \A k \in 1 .. Len(devices) : queues[k].ptr = 0
  BY TurnBounds DEF Untouched
<1>3. f \in [1 .. Len(devices) + 1 -> Nat] /\ \A k \in 1 .. Len(devices) + 1 : f[k] = 0
  OBVIOUS
<1>4. PICK g \in [1 .. Len(devices) + 1 -> Nat] : \A k \in 1 .. Len(devices) + 1 : g[k] = 0
  BY <1>3
<1>5. Ordered(g)'
  BY <1>1, <1>4, TurnBounds DEF Ordered
<1>6. ASSUME NEW k \in 1 .. Len(devices) PROVE Kept(g, k)'
  <2>1. g[k] = 0 /\ g[k + 1] = 0
    BY <1>4, BlocksTyped
  <2> QED
    BY <2>1 DEF Kept
<1>7. ReadUpTo(g, at)'
  BY <1>1, <1>2, <1>4, TurnBounds DEF ReadUpTo
<1>8. TurnOf(g)'
  BY <1>5, <1>6, <1>7 DEF TurnOf
<1> QED
  BY <1>8 DEF TurnOK

LEMMA ListingKeepsTurn ==
  ASSUME DeviceInv, TurnOK, QueryDevices \/ SkipQuery \/ Assemble \/ QueryEnd
  PROVE  TurnOK'
<1>1. pc \in {"top", "query"} /\ Untouched
  BY DEF QueryDevices, SkipQuery, Assemble, QueryEnd, TurnOK
<1>2. UNCHANGED <<handed, parsed>>
  BY DEF QueryDevices, SkipQuery, Assemble, QueryEnd, update
<1>3. CASE SkipQuery \/ QueryEnd
  BY <1>1, <1>2, <1>3, TurnBegins DEF SkipQuery, QueryEnd
<1>4. CASE QueryDevices
  BY <1>1, <1>2, <1>4 DEF QueryDevices, TurnOK, Untouched
<1>5. CASE Assemble
  <2>1. pc' \in {"query", "fault"}
    BY <1>5, AssembleSteps
  <2>2. \A k \in 1 .. Len(queues') : queues'[k].ptr = 0
    <3>1. queues' = queues \/ queues' = Append(queues, NewQueue)
      BY <1>5 DEF Assemble, AddDevice, FindDevice
    <3>2. NewQueue.ptr = 0
      BY DEF NewQueue
    <3>3. CASE queues' = Append(queues, NewQueue)
      <4>1. \A k \in 1 .. Len(queues') :
              queues'[k] = IF k = Len(queues) + 1 THEN NewQueue ELSE queues[k]
        BY <3>3, TurnBounds
      <4>2. Len(queues') = Len(queues) + 1 /\ Len(queues) \in Nat
        BY <3>3, TurnBounds
      <4> QED
        BY <1>1, <3>2, <4>1, <4>2 DEF Untouched
    <3> QED
      BY <1>1, <3>1, <3>3 DEF Untouched
  <2> QED
    BY <1>1, <1>2, <2>1, <2>2 DEF TurnOK, Untouched
<1> QED
  BY <1>3, <1>4, <1>5

LEMMA UpdateDeviceKeepsTurn ==
  ASSUME DeviceInv, TurnOK, UpdateDevice
  PROVE  TurnOK'
<1>1. pc = "update" /\ UNCHANGED <<devices, queues, handed, parsed>>
  BY DEF UpdateDevice, update
<1>2. PICK f \in [1 .. Len(devices) + 1 -> Nat] : TurnOf(f)
  BY <1>1 DEF TurnOK
<1>3. /\ Ordered(f) /\ ReadUpTo(f, at)
      /\ \A k \in 1 .. Len(devices) : Kept(f, k)
  BY <1>1, <1>2 DEF TurnOf
<1>4. Ordered(f)' /\ \A k \in 1 .. Len(devices) : Kept(f, k)'
  BY <1>1, <1>3 DEF Ordered, Kept
<1>5. CASE at <= Len(devices)
  <2>1. pc' = "read" /\ at' = at
    BY <1>5 DEF UpdateDevice
  <2>2. ReadUpTo(f, at + 1)'
    BY <1>1, <1>3, <2>1, TurnBounds DEF ReadUpTo
  <2>3. TurnOf(f)'
    BY <1>1, <1>4, <2>1, <2>2 DEF TurnOf
  <2> QED
    BY <1>1, <2>1, <2>3 DEF TurnOK
<1>6. CASE ~(at <= Len(devices))
  <2>1. pc' = "move" /\ at' = 1
    BY <1>6 DEF UpdateDevice
  <2>2. handed' = <<>> /\ Len(handed') = 0 /\ Len(parsed) \in Nat
    BY <1>1, <1>3 DEF ReadUpTo, TurnOK
  <2>3. Moving(f)'
    <3>1. ASSUME NEW k \in 1 .. Len(devices)
          PROVE  /\ ~(k < 1)
                 /\ k = 1 => queues[k].ptr <= f[k + 1] - f[k] /\ 0 = f[k + 1] - queues[k].ptr
                 /\ queues[k].ptr = f[k + 1] - f[k]
      <4>1. queues[k].ptr = f[k + 1] - f[k] /\ k \in Nat /\ k >= 1 /\ ~(k < 1)
        BY <1>3, TurnBounds DEF ReadUpTo
      <4>2. f[1] = 0
        BY <1>3 DEF Ordered
      <4>3. PICK s : s = f[k]
        OBVIOUS
      <4>4. PICK t : t = f[k + 1]
        OBVIOUS
      <4>5. PICK u : u = queues[k].ptr
        OBVIOUS
      <4>6. s \in Nat /\ t \in Nat /\ u \in Nat /\ u = t - s
        BY <1>2, <4>1, <4>3, <4>4, <4>5, BlocksTyped
      <4>7. k = 1 => s = 0
        BY <4>2, <4>3
      <4>8. k = 1 => u <= t - s /\ 0 = t - u
        BY <4>6, <4>7
      <4> QED
        BY <4>1, <4>3, <4>4, <4>5, <4>8
    <3>2. 1 = Len(devices) + 1 => Len(parsed) = 0
      BY <1>3, TurnBounds DEF Ordered
    <3>3. ASSUME NEW m \in 1 .. Len(parsed), NEW k \in 1 .. Len(devices),
                 parsed[m].deviceID = k - 1
          PROVE  ~(k < 1) /\ ~(k = 1 /\ m > f[k] + queues[k].ptr + 1)
      <4>1. k + 1 \in 1 .. Len(devices) + 1 /\ parsed[m].deviceID < (k + 1) - 1
        BY <3>3, TurnBounds
      <4>2. m <= f[k + 1]
        BY <1>3, <4>1 DEF Ordered
      <4> QED
        BY <1>2, <2>2, <3>1, <4>2, BlocksTyped
    <3> QED
      BY <1>1, <2>1, <2>2, <3>1, <3>2, <3>3 DEF Moving
  <2>4. TurnOf(f)'
    BY <1>1, <1>4, <2>1, <2>3 DEF TurnOf
  <2> QED
    BY <1>1, <2>1, <2>4 DEF TurnOK
<1> QED
  BY <1>5, <1>6

LEMMA ReadNoneKeepsTurn ==
  ASSUME DeviceInv, TurnOK, ReadNone
  PROVE  TurnOK'
<1>1. pc = "read" /\ pc' = "update" /\ at' = at + 1 /\ UNCHANGED <<devices, queues, handed, parsed>>
  BY DEF ReadNone
<1>2. PICK f \in [1 .. Len(devices) + 1 -> Nat] : TurnOf(f)
  BY <1>1 DEF TurnOK
<1>3. TurnOf(f)'
  BY <1>1, <1>2 DEF TurnOf, Ordered, Kept, ReadUpTo
<1> QED
  BY <1>1, <1>3 DEF TurnOK

(* A byte that completes no event. *)
LEMMA QuietKeepsTurn ==
  ASSUME DeviceInv, TurnOK, UNCHANGED <<devices, queues, handed, parsed, pc, at>>
  PROVE  TurnOK'
<1>1. ASSUME NEW f, TurnOf(f) PROVE TurnOf(f)'
  <2>1. Ordered(f) => Ordered(f)'
    BY DEF Ordered
  <2>2. (\A k \in 1 .. Len(devices) : Kept(f, k))
          => (\A k \in 1 .. Len(devices) : Kept(f, k))'
    BY DEF Kept
  <2>3. ReadUpTo(f, at) => ReadUpTo(f, at)'
    BY DEF ReadUpTo
  <2>4. ReadUpTo(f, at + 1) => ReadUpTo(f, at + 1)'
    BY DEF ReadUpTo
  <2>5. Moving(f) => Moving(f)'
    BY DEF Moving, IsHanded
  <2> QED
    BY <1>1, <2>1, <2>2, <2>3, <2>4, <2>5 DEF TurnOf
<1>2. Untouched => Untouched'
  BY DEF Untouched
<1>3. pc \in {"update", "read", "move"} =>
        (\E f \in [1 .. Len(devices) + 1 -> Nat] : TurnOf(f))'
  BY <1>1 DEF TurnOK
<1> QED
  BY <1>2, <1>3 DEF TurnOK

LEMMA FaultKeepsTurn ==
  ASSUME TurnOK, pc' = "fault", UNCHANGED <<handed, parsed>>
  PROVE  TurnOK'
BY DEF TurnOK

LEMMA GetEventsKeepsTurn ==
  ASSUME DeviceInv, TurnOK, GetEvents
  PROVE  TurnOK'
<1>1. /\ pc = "move" /\ at > Len(devices) /\ handed' = <<>> /\ parsed' = <<>> /\ pc' = "top"
      /\ UNCHANGED <<devices, queues>>
  BY DEF GetEvents
<1>2. PICK f \in [1 .. Len(devices) + 1 -> Nat] : TurnOf(f)
  BY <1>1 DEF TurnOK
<1>3. \A k \in 1 .. Len(devices) : queues[k].ptr = 0
  BY <1>1, <1>2, TurnBounds DEF TurnOf, Moving
<1> QED
  BY <1>1, <1>3, TurnBounds DEF TurnOK, Untouched

LEMMA NextQueueKeepsTurn ==
  ASSUME DeviceInv, TurnOK, NextQueue
  PROVE  TurnOK'
<1>1. /\ pc = "move" /\ at \in 1 .. Len(devices) /\ queues[at].ptr = 0 /\ at' = at + 1
      /\ UNCHANGED <<devices, queues, pc, handed, parsed>>
  BY TurnBounds DEF NextQueue, update
<1>2. PICK f \in [1 .. Len(devices) + 1 -> Nat] : TurnOf(f)
  BY <1>1 DEF TurnOK
<1>3. /\ Ordered(f) /\ Moving(f)
      /\ \A k \in 1 .. Len(devices) : Kept(f, k)
  BY <1>1, <1>2 DEF TurnOf
<1>4. Ordered(f)' /\ \A k \in 1 .. Len(devices) : Kept(f, k)'
  BY <1>1, <1>3 DEF Ordered, Kept
<1>5. Len(handed) = f[at + 1]
  <2>1. Len(handed) = f[at + 1] - queues[at].ptr
    BY <1>1, <1>3 DEF Moving
  <2>2. f[at + 1] \in Nat
    <3>1. at \in 1 .. Len(devices)
      BY <1>1
    <3> QED
      BY <1>2, <3>1, BlocksTyped
  <2> QED
    BY <1>1, <2>1, <2>2
<1>6. Moving(f)'
  <2>1. ASSUME NEW k \in 1 .. Len(devices)
        PROVE  /\ k < at + 1 => queues[k].ptr = 0
               /\ k = at + 1 => /\ queues[k].ptr <= f[k + 1] - f[k]
                                /\ Len(handed) = f[k + 1] - queues[k].ptr
               /\ k > at + 1 => queues[k].ptr = f[k + 1] - f[k]
    <3>1. /\ k < at => queues[k].ptr = 0
          /\ k > at => queues[k].ptr = f[k + 1] - f[k]
      BY <1>3 DEF Moving
    <3>2. f[k] \in Nat /\ f[k + 1] \in Nat /\ k \in Nat /\ at \in Nat
      BY <1>2, BlocksTyped
    <3>3. k = at + 1 => Len(handed) = f[k]
      BY <1>5
    <3> QED
      BY <1>1, <3>1, <3>2, <3>3
  <2>2. at + 1 = Len(devices) + 1 => Len(handed) = Len(parsed)
    BY <1>3, <1>5, TurnBounds DEF Ordered
  <2>3. ASSUME NEW m \in 1 .. Len(parsed), NEW k \in 1 .. Len(devices),
               parsed[m].deviceID = k - 1
        PROVE  /\ k < at + 1 /\ m > f[k] + 1 => IsHanded(parsed[m])
               /\ k = at + 1 /\ m > f[k] + queues[k].ptr + 1 => IsHanded(parsed[m])
    <3>1. k < at /\ m > f[k] + 1 => IsHanded(parsed[m])
      BY <1>3, <2>3 DEF Moving
    <3>2. k = at /\ m > f[k] + queues[k].ptr + 1 => IsHanded(parsed[m])
      BY <1>3, <2>3 DEF Moving
    <3>3. k = at /\ m > f[k] + 1 => IsHanded(parsed[m])
      BY <1>1, <1>2, <3>2
    <3>4. k = at + 1 => ~(m > f[k] + queues[k].ptr + 1)
      <4> SUFFICES ASSUME k = at + 1 PROVE ~(m > f[k] + queues[k].ptr + 1)
        OBVIOUS
      <4>1. k + 1 \in 1 .. Len(devices) + 1 /\ parsed[m].deviceID < (k + 1) - 1
        BY <2>3, TurnBounds
      <4>2. m <= f[k + 1]
        BY <1>3, <4>1 DEF Ordered
      <4>3. queues[k].ptr = f[k + 1] - f[k]
        BY <1>1, <1>3, TurnBounds DEF Moving
      <4> QED
        BY <1>2, <4>1, <4>2, <4>3, TurnBounds
    <3> QED
      BY <1>1, <3>1, <3>3, <3>4, TurnBounds
  <2> QED
    BY <1>1, <2>1, <2>2, <2>3 DEF Moving, IsHanded
<1>7. TurnOf(f)'
  BY <1>1, <1>4, <1>6 DEF TurnOf
<1> QED
  BY <1>1, <1>7 DEF TurnOK

LEMMA SecondDataKeepsTurn ==
  ASSUME DeviceInv, TurnOK, pc = "read", reads < MaxReads, NEW b \in Byte, SecondData(b),
         UNCHANGED <<devices, pc, at, handed>>
  PROVE  TurnOK'
<1>1. PICK e \in Event4 :
        /\ e = [deviceID |-> at - 1, input |-> local.ev.input,
                data1 |-> local.ev.data1, data2 |-> b]
        /\ parsed' = Append(parsed, e)
        /\ Len(queues') = Len(queues)
        /\ \A k \in 1 .. Len(queues) : k # at => queues'[k] = queues[k]
        /\ queues'[at].ptr = queues[at].ptr + 1
        /\ queues'[at].q[queues[at].ptr] = e
        /\ \A i \in 0 .. MaxReads :
             i # queues[at].ptr => queues'[at].q[i] = queues[at].q[i]
  BY SecondDataSteps
<1>2. PICK f \in [1 .. Len(devices) + 1 -> Nat] : TurnOf(f)
  BY DEF TurnOK
<1>3. /\ Ordered(f) /\ ReadUpTo(f, at + 1)
      /\ \A k \in 1 .. Len(devices) : Kept(f, k)
  BY <1>2 DEF TurnOf
<1> DEFINE N == Len(devices)
           L == Len(parsed)
<1>4. /\ N \in Nat /\ at \in 1 .. N /\ at \in Nat /\ L \in Nat /\ Len(queues) = N
      /\ parsed \in Seq(Event4) /\ e.deviceID = at - 1
  BY <1>1, TurnBounds DEF TurnOK
<1>5. /\ Len(parsed') = L + 1 /\ parsed'[L + 1] = e
      /\ \A j \in 1 .. L : parsed'[j] = parsed[j]
      /\ parsed' \in Seq(Event4)
  <2>1. parsed' = Append(parsed, e)
    BY <1>1
  <2>2. parsed' \in Seq(Event4) /\ Len(parsed') = L + 1
    BY <1>4, <2>1, AppendProperties
  <2>3. parsed'[L + 1] = e
    BY <1>4, <2>1, AppendProperties
  <2>4. \A j \in 1 .. L : parsed'[j] = parsed[j]
    BY <1>4, <2>1, AppendProperties
  <2> QED
    BY <2>2, <2>3, <2>4
<1>6. PICK g \in [1 .. N + 1 -> Nat] :
        \A k \in 1 .. N + 1 : g[k] = IF k > at THEN f[k] + 1 ELSE f[k]
  <2> DEFINE h == [k \in 1 .. N + 1 |-> IF k > at THEN f[k] + 1 ELSE f[k]]
  <2>1. h \in [1 .. N + 1 -> Nat]
    BY <1>2
  <2> QED
    BY <2>1
<1> HIDE DEF N, L
<1>7. /\ f \in [1 .. N + 1 -> Nat] /\ f[1] = 0 /\ f[N + 1] = L
      /\ \A k \in 1 .. N + 1 : f[k] \in Nat /\ f[k] <= L
      /\ \A k \in 1 .. N + 1 : k > at => f[k] = L
  <2>1. \A k \in at + 1 .. N + 1 : f[k] = L
    BY <1>3 DEF ReadUpTo, N, L
  <2>2. f \in [1 .. N + 1 -> 0 .. L] /\ f[1] = 0 /\ f[N + 1] = L
    BY <1>3 DEF Ordered, N, L
  <2>3. ASSUME NEW k \in 1 .. N + 1
        PROVE  f[k] \in Nat /\ f[k] <= L /\ (k > at => f[k] = L)
    <3>1. f[k] \in 0 .. L
      BY <2>2
    <3>2. k > at => k \in at + 1 .. N + 1
      BY <1>4
    <3> QED
      BY <1>4, <2>1, <3>1, <3>2
  <2>4. f \in [1 .. N + 1 -> Nat]
    BY <1>2 DEF N
  <2> QED
    BY <2>2, <2>3, <2>4
<1>8. Ordered(g)'
  <2>1. g \in [1 .. N + 1 -> 0 .. L + 1] /\ g[1] = 0 /\ g[N + 1] = L + 1
    <3>1. 1 \in 1 .. N + 1 /\ N + 1 \in 1 .. N + 1 /\ ~(1 > at) /\ N + 1 > at
      BY <1>4
    <3>2. ASSUME NEW k \in 1 .. N + 1 PROVE g[k] \in 0 .. L + 1
      <4>1. f[k] \in Nat /\ f[k] <= L /\ (g[k] = f[k] \/ g[k] = f[k] + 1)
        BY <1>6, <1>7
      <4> QED
        BY <1>4, <4>1
    <3> QED
      BY <1>6, <1>7, <3>1, <3>2
  <2>2. ASSUME NEW j \in 1 .. L + 1
        PROVE  /\ parsed'[j].deviceID \in 0 .. N - 1
               /\ \A k \in 1 .. N + 1 : j <= g[k] <=> parsed'[j].deviceID < k - 1
    <3>1. CASE j = L + 1
      <4>1. parsed'[j].deviceID = at - 1
        BY <1>4, <1>5, <3>1
      <4>2. ASSUME NEW k \in 1 .. N + 1
            PROVE  j <= g[k] <=> k > at
        <5>1. CASE k > at
          <6>1. g[k] = L + 1
            BY <1>6, <1>7, <5>1
          <6> QED
            BY <1>4, <3>1, <5>1, <6>1
        <5>2. CASE ~(k > at)
          <6>1. g[k] = f[k] /\ f[k] \in Nat /\ f[k] <= L
            BY <1>6, <1>7, <5>2
          <6> QED
            BY <1>4, <3>1, <5>2, <6>1
        <5> QED
          BY <5>1, <5>2
      <4> QED
        BY <1>4, <4>1, <4>2
    <3>2. CASE j # L + 1
      <4>1. j \in 1 .. L /\ parsed'[j] = parsed[j]
        BY <1>4, <1>5, <3>2
      <4>2. /\ parsed[j].deviceID \in 0 .. N - 1
            /\ \A k \in 1 .. N + 1 : j <= f[k] <=> parsed[j].deviceID < k - 1
        BY <1>3, <4>1 DEF Ordered, N, L
      <4>3. ASSUME NEW k \in 1 .. N + 1 PROVE j <= g[k] <=> j <= f[k]
        <5>1. CASE k > at
          <6>1. g[k] = L + 1 /\ f[k] = L
            BY <1>6, <1>7, <5>1
          <6> QED
            BY <1>4, <4>1, <6>1
        <5>2. CASE ~(k > at)
          BY <1>6, <5>2
        <5> QED
          BY <5>1, <5>2
      <4> QED
        BY <4>1, <4>2, <4>3
    <3> QED
      BY <3>1, <3>2
  <2> QED
    BY <1>5, <2>1, <2>2 DEF Ordered, N
<1>9. ASSUME NEW k \in 1 .. N
      PROVE  /\ queues'[k].ptr = g[k + 1] - g[k]
             /\ Kept(g, k)'
  <2>1. queues[k].ptr = f[k + 1] - f[k] /\ f[k] <= f[k + 1]
    BY <1>3 DEF ReadUpTo, Kept, N
  <2>7. \A i \in 0 .. f[k + 1] - f[k] - 1 : queues[k].q[i] = parsed[f[k] + i + 1]
    BY <1>3 DEF Kept, N
  <2>2. /\ k \in Nat /\ k \in 1 .. N + 1 /\ k + 1 \in 1 .. N + 1
        /\ f[k] \in Nat /\ f[k + 1] \in Nat /\ f[k + 1] <= L
    <3>1. k \in Nat /\ k \in 1 .. N + 1 /\ k + 1 \in 1 .. N + 1
      BY <1>4
    <3> QED
      BY <1>7, <3>1
  <2>3. \A i \in 0 .. f[k + 1] - f[k] - 1 :
          queues[k].q[i] = parsed'[f[k] + i + 1]
    <3> TAKE i \in 0 .. f[k + 1] - f[k] - 1
    <3>1. f[k] + i + 1 \in 1 .. L
      <4>1. PICK s : s = f[k]
        OBVIOUS
      <4>2. PICK t : t = f[k + 1]
        OBVIOUS
      <4>3. s \in Nat /\ t \in Nat /\ t <= L /\ L \in Nat /\ i \in 0 .. t - s - 1
        BY <1>4, <2>2, <4>1, <4>2
      <4>4. s + i + 1 \in 1 .. L
        BY <4>3
      <4> QED
        BY <4>1, <4>4
    <3> QED
      BY <1>5, <2>7, <3>1
  <2>4. CASE k < at
    <3>1. g[k] = f[k] /\ g[k + 1] = f[k + 1] /\ queues'[k] = queues[k]
      <4>1. ~(k > at) /\ ~(k + 1 > at) /\ k # at
        BY <1>4, <2>2, <2>4
      <4>2. g[k] = f[k] /\ g[k + 1] = f[k + 1]
        BY <1>6, <2>2, <4>1
      <4>3. queues'[k] = queues[k]
        BY <1>1, <1>4, <4>1 DEF N
      <4> QED
        BY <4>2, <4>3
    <3> QED
      BY <2>1, <2>3, <3>1 DEF Kept
  <2>5. CASE k > at
    <3>1. g[k] = L + 1 /\ g[k + 1] = L + 1 /\ queues'[k] = queues[k]
      <4>1. k > at /\ k + 1 > at /\ k # at
        BY <1>4, <2>2, <2>5
      <4>2. f[k] = L /\ f[k + 1] = L
        BY <1>7, <2>2, <4>1
      <4>3. g[k] = f[k] + 1 /\ g[k + 1] = f[k + 1] + 1
        BY <1>6, <2>2, <4>1
      <4>4. queues'[k] = queues[k]
        BY <1>1, <1>4, <4>1 DEF N
      <4> QED
        BY <4>2, <4>3, <4>4
    <3>2. f[k] = L /\ f[k + 1] = L
      <4>1. k + 1 > at
        BY <1>4, <2>2, <2>5
      <4> QED
        BY <1>7, <2>2, <2>5, <4>1
    <3>3. queues'[k].ptr = g[k + 1] - g[k] /\ g[k] <= g[k + 1]
      <4>1. (L + 1) - (L + 1) = 0 /\ L - L = 0 /\ L + 1 <= L + 1
        BY <1>4
      <4>2. g[k + 1] - g[k] = 0 /\ g[k] <= g[k + 1]
        BY <3>1, <4>1, Zenon
      <4>3. f[k + 1] - f[k] = 0
        BY <3>2, <4>1, Zenon
      <4>4. queues'[k].ptr = 0
        BY <2>1, <3>1, <4>3, Zenon
      <4> QED
        BY <4>2, <4>4, Zenon
    <3>4. 0 .. g[k + 1] - g[k] - 1 = {}
      <4>1. 0 .. (L + 1) - (L + 1) - 1 = {}
        BY <1>4
      <4> QED
        BY <3>1, <4>1
    <3> QED
      BY <3>3, <3>4 DEF Kept
  <2>6. CASE k = at
    <3>1. g[k] = f[k] /\ g[k + 1] = f[k + 1] + 1 /\ f[k + 1] = L
      <4>1. ~(k > at) /\ k + 1 > at
        BY <1>4, <2>2, <2>6
      <4>2. g[k] = f[k]
        BY <1>6, <2>2, <4>1
      <4>3. g[k + 1] = f[k + 1] + 1
        BY <1>6, <2>2, <4>1
      <4>4. f[k + 1] = L
        BY <1>7, <2>2, <4>1
      <4> QED
        BY <4>2, <4>3, <4>4
    <3>2. queues'[k].ptr = g[k + 1] - g[k]
      <4>1. queues'[k].ptr = queues[k].ptr + 1
        BY <1>1, <2>6
      <4> QED
        BY <2>1, <2>2, <3>1, <4>1
    <3>3. ASSUME NEW i \in 0 .. g[k + 1] - g[k] - 1
          PROVE  queues'[k].q[i] = parsed'[g[k] + i + 1]
      <4>0. PICK s : s = f[k]
        OBVIOUS
      <4>5. PICK p : p = queues[k].ptr
        OBVIOUS
      <4>4. /\ s \in Nat /\ L \in Nat /\ p = L - s /\ s <= L /\ p <= reads
            /\ reads \in Nat /\ reads <= MaxReads /\ MaxReads \in Nat
            /\ g[k] = s /\ g[k + 1] = L + 1
        BY <1>4, <2>1, <2>2, <3>1, <4>0, <4>5, TurnBounds DEF N
      <4>1. i \in 0 .. p /\ p \in Nat /\ i \in 0 .. MaxReads
        <5>1. i \in 0 .. L + 1 - s - 1
          BY <4>4
        <5> QED
          BY <1>4, <4>4, <5>1
      <4>2. CASE i = queues[k].ptr
        <5>1. g[k] + i + 1 = L + 1
          <6>1. s + p + 1 = L + 1
            BY <1>4, <4>4
          <6> QED
            BY <4>2, <4>4, <4>5, <6>1
        <5> QED
          BY <1>1, <1>5, <2>6, <4>2, <5>1
      <4>3. CASE i # queues[k].ptr
        <5>1. i \in 0 .. f[k + 1] - f[k] - 1
          <6>1. i \in 0 .. L - s - 1
            <7>1. i # p /\ i \in 0 .. p
              BY <4>1, <4>3, <4>5
            <7> QED
              BY <4>4, <7>1
          <6> QED
            BY <3>1, <4>0, <6>1
        <5>2. queues'[k].q[i] = queues[k].q[i]
          BY <1>1, <2>6, <4>1, <4>3
        <5> QED
          BY <2>3, <3>1, <5>1, <5>2
      <4> QED
        BY <4>2, <4>3
    <3>4. g[k] <= g[k + 1]
      BY <2>1, <2>2, <3>1
    <3> QED
      BY <3>2, <3>3, <3>4 DEF Kept
  <2> QED
    BY <1>4, <2>2, <2>4, <2>5, <2>6
<1>10. ReadUpTo(g, at + 1)'
  <2>1. ASSUME NEW k \in at + 1 .. N + 1 PROVE g[k] = L + 1
    <3>1. k \in 1 .. N + 1 /\ k > at
      BY <1>4
    <3> QED
      BY <1>6, <1>7, <3>1
  <2>2. handed' = <<>>
    BY <1>3 DEF ReadUpTo
  <2> QED
    BY <1>5, <1>9, <2>1, <2>2 DEF ReadUpTo, N
<1>11. TurnOf(g)'
  BY <1>8, <1>9, <1>10 DEF TurnOf, N
<1>12. handed' \in Seq(Event4 \cup {UNWRITTEN})
  BY DEF TurnOK
<1> QED
  BY <1>5, <1>6, <1>11, <1>12 DEF TurnOK, N

LEMMA MoveEventKeepsTurn ==
  ASSUME DeviceInv, TurnOK, MoveEvent
  PROVE  TurnOK'
<1>1. pc = "move" /\ UNCHANGED <<devices, pc, at, parsed>>
  BY DEF MoveEvent, update
<1>2. PICK f \in [1 .. Len(devices) + 1 -> Nat] : TurnOf(f)
  BY <1>1 DEF TurnOK
<1>3. /\ Ordered(f) /\ Moving(f)
      /\ \A k \in 1 .. Len(devices) : Kept(f, k)
  BY <1>1, <1>2 DEF TurnOf
<1> DEFINE p == queues[at].ptr
           x == queues[at].q[p]
           n == f[at + 1] - f[at]
<1>4. /\ at \in 1 .. Len(devices) /\ p # 0 /\ x \in Event4 \cup {UNWRITTEN}
      /\ handed' = Append(handed, x)
      /\ Len(queues') = Len(queues)
      /\ \A k \in 1 .. Len(queues) :
           /\ queues'[k].ptr = IF k = at THEN queues[k].ptr - 1 ELSE queues[k].ptr
           /\ queues'[k].q = queues[k].q
  BY MoveEventSteps
<1>5. /\ p \in Nat /\ f[at] \in Nat /\ f[at + 1] \in Nat /\ at \in Nat
      /\ Len(queues) = Len(devices)
  BY <1>2, <1>4, BlocksTyped, TurnBounds
<1>6. p <= n /\ Len(handed) = f[at + 1] - p
  BY <1>3, <1>4 DEF Moving
<1> HIDE DEF x, p
<1>7. /\ Len(handed') = Len(handed) + 1 /\ handed'[Len(handed) + 1] = x
      /\ \A h \in 1 .. Len(handed) : handed'[h] = handed[h]
      /\ Len(handed) \in Nat
      /\ handed' \in Seq(Event4 \cup {UNWRITTEN})
  <2>1. handed \in Seq(Event4 \cup {UNWRITTEN})
    BY DEF TurnOK
  <2> QED
    BY <1>4, <2>1, AppendProperties
<1>8. Ordered(f)' /\ \A k \in 1 .. Len(devices) : Kept(f, k)'
  <2>1. Ordered(f)'
    BY <1>1, <1>3 DEF Ordered
  <2>2. ASSUME NEW k \in 1 .. Len(devices) PROVE Kept(f, k)'
    <3>1. queues'[k].q = queues[k].q /\ Kept(f, k)
      BY <1>3, <1>4, <1>5
    <3> QED
      BY <1>1, <3>1 DEF Kept
  <2> QED
    BY <2>1, <2>2
<1>9. ASSUME NEW e, IsHanded(e) PROVE IsHanded(e)'
  <2>1. PICK h \in 1 .. Len(handed) : handed[h] = e
    BY <1>9 DEF IsHanded
  <2>2. h \in 1 .. Len(handed') /\ handed'[h] = e
    BY <1>7, <2>1
  <2> QED
    BY <2>2 DEF IsHanded
<1>10. ASSUME NEW e, e = x PROVE IsHanded(e)'
  <2>1. Len(handed) + 1 \in 1 .. Len(handed')
    BY <1>7
  <2> QED
    BY <1>7, <1>10, <2>1 DEF IsHanded
<1>11. Moving(f)'
  <2>1. ASSUME NEW k \in 1 .. Len(devices)
        PROVE  /\ k < at => queues'[k].ptr = 0
               /\ k = at => /\ queues'[k].ptr <= f[k + 1] - f[k]
                            /\ Len(handed') = f[k + 1] - queues'[k].ptr
               /\ k > at => queues'[k].ptr = f[k + 1] - f[k]
    <3>1. CASE k = at
      <4>1. queues'[k].ptr = p - 1
        BY <1>4, <1>5, <3>1 DEF p
      <4>2. Len(handed') = Len(handed) + 1
        BY <1>7
      <4>3. Len(handed') = f[k + 1] - (p - 1)
        BY <1>5, <1>6, <3>1, <4>2
      <4>4. p - 1 <= f[k + 1] - f[k]
        BY <1>5, <1>6, <3>1
      <4>5. ~(k < at) /\ ~(k > at)
        BY <1>5, <3>1
      <4> QED
        BY <4>1, <4>3, <4>4, <4>5
    <3>2. CASE k # at
      <4>1. queues'[k].ptr = queues[k].ptr
        BY <1>4, <1>5, <3>2
      <4> QED
        BY <1>3, <3>2, <4>1 DEF Moving
    <3> QED
      BY <3>1, <3>2
  <2>2. at # Len(devices) + 1
    BY <1>4, TurnBounds
  <2>3. ASSUME NEW m \in 1 .. Len(parsed), NEW k \in 1 .. Len(devices),
               parsed[m].deviceID = k - 1
        PROVE  /\ k < at /\ m > f[k] + 1 => IsHanded(parsed[m])'
               /\ k = at /\ m > f[k] + queues'[k].ptr + 1 => IsHanded(parsed[m])'
    <3>1. k < at /\ m > f[k] + 1 => IsHanded(parsed[m])'
      <4>1. k < at /\ m > f[k] + 1 => IsHanded(parsed[m])
        BY <1>3, <2>3 DEF Moving
      <4>2. PICK e : e = parsed[m]
        OBVIOUS
      <4>3. IsHanded(e) => IsHanded(e)'
        BY <1>9
      <4> QED
        BY <1>1, <4>1, <4>2, <4>3 DEF IsHanded
    <3>2. ASSUME k = at, m > f[k] + queues'[k].ptr + 1
          PROVE  IsHanded(parsed[m])'
      <4>1. PICK e : e = parsed[m]
        OBVIOUS
      <4>2. queues'[k].ptr = p - 1 /\ Len(parsed) \in Nat
        BY <1>4, <1>5, <3>2 DEF p, TurnOK
      <4>3. m \in Nat /\ m >= f[at] + p + 1
        BY <1>5, <3>2, <4>2
      <4>4. CASE m > f[at] + p + 1
        <5>1. IsHanded(e)
          BY <1>3, <2>3, <3>2, <4>1, <4>4 DEF Moving, p
        <5>2. IsHanded(e)'
          BY <1>9, <5>1
        <5> QED
          BY <1>1, <4>1, <5>2 DEF IsHanded
      <4>5. CASE m = f[at] + p + 1
        <5>1. k + 1 \in 1 .. Len(devices) + 1 /\ parsed[m].deviceID < (k + 1) - 1
          BY <1>2, <2>3, BlocksTyped
        <5>2. m <= f[k + 1]
          BY <1>3, <5>1 DEF Ordered
        <5>3. p \in 0 .. f[k + 1] - f[k] - 1
          BY <1>5, <3>2, <4>5, <5>2
        <5>4. queues[k].q[p] = parsed[f[k] + p + 1]
          BY <1>3, <5>3 DEF Kept
        <5>5. e = x
          BY <3>2, <4>1, <4>5, <5>4 DEF x
        <5>6. IsHanded(e)'
          BY <1>10, <5>5
        <5> QED
          BY <1>1, <4>1, <5>6 DEF IsHanded
      <4> QED
        BY <1>5, <4>3, <4>4, <4>5
    <3> QED
      BY <3>1, <3>2
  <2> QED
    BY <1>1, <2>1, <2>2, <2>3 DEF Moving, IsHanded
<1>12. TurnOf(f)'
  BY <1>1, <1>8, <1>11 DEF TurnOf
<1>13. parsed' \in Seq(Event4)
  BY <1>1 DEF TurnOK
<1> QED
  BY <1>1, <1>2, <1>7, <1>12, <1>13 DEF TurnOK

LEMMA TurnInitHolds == DeviceInit => TurnOK
BY DEF DeviceInit, TurnOK, Untouched

LEMMA TurnNextKeeps == DeviceInv /\ TurnOK /\ [DeviceNext]_deviceVars => TurnOK'
<1> SUFFICES ASSUME DeviceInv, TurnOK, [DeviceNext]_deviceVars
             PROVE  TurnOK'
  OBVIOUS
<1>1. CASE Read \/ ReadError
  <2>1. /\ pc = "read" /\ reads < MaxReads
        /\ UNCHANGED <<devices, pc, at, handed>>
        /\ \E b \in Byte : Process(b)
    <3>1. local.code \in Byte \cup {UNWRITTEN}
      BY DEF DeviceInv, UpdateOK
    <3> QED
      BY <1>1, <3>1 DEF Read, ReadError
  <2>2. PICK b \in Byte : Process(b)
    BY <2>1
  <2>3. CASE SecondData(b)
    BY <2>1, <2>3, SecondDataKeepsTurn
  <2>4. CASE ProcessStatus(b) \/ FirstData(b)
    BY <2>1, <2>4, QuietKeepsTurn DEF ProcessStatus, FirstData
  <2> QED
    BY <2>2, <2>3, <2>4 DEF Process
<1>2. CASE UNCHANGED deviceVars
  BY <1>2, QuietKeepsTurn DEF deviceVars, update
<1>3. CASE ReadDead
  BY <1>3, FaultKeepsTurn DEF ReadDead, update
<1> QED
  BY <1>1, <1>2, <1>3, ListingKeepsTurn, UpdateDeviceKeepsTurn, ReadNoneKeepsTurn,
     MoveEventKeepsTurn, NextQueueKeepsTurn, GetEventsKeepsTurn DEF DeviceNext

(* At the end of a turn. *)
LEMMA TurnEndsSo ==
  ASSUME DeviceInv, TurnOK
  PROVE  OnlyFirstLost
<1> SUFFICES ASSUME pc = "move", at > Len(devices)
             PROVE  /\ Len(handed) = Len(parsed)
                    /\ \A m \in DOMAIN parsed :
                         \/ \E k \in DOMAIN handed : handed[k] = parsed[m]
                         \/ \A j \in 1 .. m - 1 : parsed[j].deviceID # parsed[m].deviceID
  BY DEF OnlyFirstLost
<1>1. PICK f \in [1 .. Len(devices) + 1 -> Nat] : Ordered(f) /\ Moving(f)
  BY DEF TurnOK, TurnOf
<1>2. at = Len(devices) + 1 /\ Len(devices) \in Nat /\ Len(parsed) \in Nat
  BY TurnBounds DEF TurnOK
<1>3. Len(handed) = Len(parsed)
  BY <1>1, <1>2 DEF Moving
<1>4. ASSUME NEW m \in 1 .. Len(parsed),
             NEW j \in 1 .. m - 1, parsed[j].deviceID = parsed[m].deviceID
      PROVE  IsHanded(parsed[m])
  <2>1. parsed[m].deviceID \in 0 .. Len(devices) - 1 /\ j \in 1 .. Len(parsed)
    BY <1>1, <1>2 DEF Ordered
  <2>2. PICK k \in 1 .. Len(devices) : k = parsed[m].deviceID + 1
    BY <1>2, <2>1
  <2>3. k \in 1 .. Len(devices) + 1 /\ f[k] \in Nat /\ parsed[m].deviceID = k - 1
    BY <1>1, <2>1, <2>2, BlocksTyped
  <2>4. ~(j <= f[k])
    <3>1. j <= f[k] <=> parsed[j].deviceID < k - 1
      BY <1>1, <2>1, <2>3 DEF Ordered
    <3> QED
      BY <1>4, <2>1, <2>3, <3>1
  <2>5. m > f[k] + 1 /\ k < at
    BY <1>2, <2>3, <2>4
  <2> QED
    BY <1>1, <2>3, <2>5 DEF Moving
<1>5. DOMAIN parsed = 1 .. Len(parsed) /\ DOMAIN handed = 1 .. Len(handed)
  BY DEF TurnOK
<1>6. ASSUME NEW m \in 1 .. Len(parsed)
      PROVE  \/ \E k \in 1 .. Len(handed) : handed[k] = parsed[m]
             \/ \A j \in 1 .. m - 1 : parsed[j].deviceID # parsed[m].deviceID
  BY <1>4 DEF IsHanded
<1> QED
  BY <1>3, <1>5, <1>6

(* Every event of a turn is in the queue of its device until that is       *)
(* emptied, and then handed on, unless it was the device's first.          *)
THEOREM TurnInvariant == DeviceSpec => []TurnOK
<1> QED
  BY DeviceInvariant, TurnInitHolds, TurnNextKeeps, PTL DEF DeviceSpec

(* However many devices there are and whatever they send, the pop's read   *)
(* above the last event loses the first event of each, and no other.       *)
THEOREM OnlyFirstEventLost == DeviceSpec => []OnlyFirstLost
<1> QED
  BY TurnEndsSo, DeviceInvariant, TurnInvariant, PTL

-----------------------------------------------------------------------------
(* The bytes of an update: the invariant. *)

Message(m, a, b, c) ==
  /\ a < b /\ b < c
  /\ got[a] \in Status /\ (\A j \in a + 1 .. b : got[j] \in Data) /\ got[c] \in Data
  /\ DataBefore(b) = 2 * m - 2 /\ DataBefore(c) = 2 * m - 1
  /\ queues[at].q[m - 1] =
       [deviceID |-> at - 1, input |-> got[a], data1 |-> got[b], data2 |-> got[c]]

RunningStatus ==
  \E a \in 1 .. Len(got) :
    /\ got[a] \in Status /\ local.ev.input = got[a]
    /\ \A j \in a + 1 .. Len(got) : got[j] \in Data

BytesOK ==
  /\ local.index = DataBefore(Len(got) + 1)
  /\ queues[at].ptr = local.index \div 2
  /\ local.index % 2 = 1 => got[Len(got)] \in Data /\ local.ev.data1 = got[Len(got)]
  /\ RunningStatus
  /\ \A m \in 1 .. queues[at].ptr : \E a, b, c \in 1 .. Len(got) : Message(m, a, b, c)

MessagesOK ==
  /\ got \in Seq(Byte \cup {UNWRITTEN})
  /\ pc \notin {"read", "fault"} => got = <<>> /\ local = NewLocal
  /\ pc = "read" /\ got = <<>> => local = NewLocal /\ queues[at].ptr = 0
  /\ pc = "read" /\ WholeMessages => BytesOK

(* How many data bytes there are before a place. *)
DataIn(g, k) == Cardinality({j \in 1 .. k - 1 : g[j] \in Data})

LEMMA DataInSteps ==
  ASSUME NEW g, NEW k \in Nat, k >= 1
  PROVE  /\ DataIn(g, k) \in Nat /\ DataIn(g, 1) = 0
         /\ DataIn(g, k + 1) = IF g[k] \in Data THEN DataIn(g, k) + 1 ELSE DataIn(g, k)
<1> DEFINE A(n) == {j \in 1 .. n - 1 : g[j] \in Data}
<1>1. IsFiniteSet(1 .. k - 1)
  BY FS_Interval
<1>2. IsFiniteSet(A(k)) /\ Cardinality(A(k)) \in Nat
  <2>1. A(k) \subseteq 1 .. k - 1
    OBVIOUS
  <2>2. IsFiniteSet(A(k))
    BY <1>1, <2>1, FS_Subset
  <2> QED
    BY <2>2, FS_CardinalityType
<1>3. A(1) = {} /\ Cardinality({}) = 0
  BY FS_EmptySet
<1>4. CASE g[k] \in Data
  <2>1. A(k + 1) = A(k) \cup {k} /\ k \notin A(k)
    BY <1>4
  <2>2. Cardinality(A(k + 1)) = Cardinality(A(k)) + 1
    BY <1>2, <2>1, FS_AddElement
  <2> QED
    BY <1>2, <1>3, <1>4, <2>2 DEF DataIn
<1>5. CASE g[k] \notin Data
  <2>1. A(k + 1) = A(k)
    BY <1>5
  <2> QED
    BY <1>2, <1>3, <1>5, <2>1 DEF DataIn
<1> QED
  BY <1>4, <1>5

(* A data byte counts for all places behind it. *)
LEMMA DataInGrows ==
  ASSUME NEW g, NEW b \in Nat, b >= 1, NEW c \in Nat, b < c, g[b] \in Data
  PROVE  DataIn(g, b) < DataIn(g, c)
<1> DEFINE A(n) == {j \in 1 .. n - 1 : g[j] \in Data}
<1>1. A(b) \subseteq A(c) /\ b \in A(c) /\ b \notin A(b)
  OBVIOUS
<1>2. IsFiniteSet(A(c))
  <2>1. A(c) \subseteq 1 .. c - 1 /\ IsFiniteSet(1 .. c - 1)
    BY FS_Interval
  <2> QED
    BY <2>1, FS_Subset
<1>3. Cardinality(A(b)) <= Cardinality(A(c)) /\ Cardinality(A(b)) # Cardinality(A(c))
  <2>1. A(b) # A(c)
    BY <1>1
  <2> QED
    BY <1>1, <1>2, <2>1, FS_Subset
<1>4. DataIn(g, b) \in Nat /\ DataIn(g, c) \in Nat
  BY DataInSteps
<1> QED
  BY <1>3, <1>4 DEF DataIn

(* What comes behind does not count. *)
LEMMA DataInPrefix ==
  ASSUME NEW g, NEW h, NEW n \in Nat, \A j \in 1 .. n : h[j] = g[j],
         NEW k \in 1 .. n + 1
  PROVE  DataIn(h, k) = DataIn(g, k)
<1>1. {j \in 1 .. k - 1 : h[j] \in Data} = {j \in 1 .. k - 1 : g[j] \in Data}
  OBVIOUS
<1> QED
  BY <1>1 DEF DataIn

(* The messages that were found are the ones that are asked for. *)
LEMMA MessageIsThere ==
  ASSUME NEW m \in Nat, m >= 1, got \in Seq(Byte \cup {UNWRITTEN}),
         NEW a \in 1 .. Len(got), NEW b \in 1 .. Len(got), NEW c \in 1 .. Len(got),
         Message(m, a, b, c)
  PROVE  /\ DataByte(2 * m - 1) = b /\ DataByte(2 * m) = c
         /\ StatusOf(2 * m - 1) = a
<1>1. /\ a < b /\ b < c /\ got[a] \in Status /\ got[b] \in Data /\ got[c] \in Data
      /\ \A j \in a + 1 .. b : got[j] \in Data
      /\ DataBefore(b) = 2 * m - 2 /\ DataBefore(c) = 2 * m - 1
  <2>1. b \in a + 1 .. b
    BY DEF Message
  <2> QED
    BY <2>1 DEF Message
<1>2. ASSUME NEW k \in 1 .. Len(got), got[k] \in Data,
             NEW l \in 1 .. Len(got), got[l] \in Data, DataBefore(k) = DataBefore(l)
      PROVE  k = l
  <2>1. k \in Nat /\ l \in Nat /\ k >= 1 /\ l >= 1
    OBVIOUS
  <2>2. DataIn(got, k) = DataIn(got, l) /\ DataIn(got, k) \in Nat
    BY <1>2, <2>1, DataInSteps DEF DataBefore, DataIn
  <2>3. ~(k < l) /\ ~(l < k)
    BY <1>2, <2>1, <2>2, DataInGrows
  <2> QED
    BY <2>1, <2>3
<1>3. DOMAIN got = 1 .. Len(got) /\ Status \cap Data = {}
  BY DeviceAssumption
<1>4. (2 * m - 1) - 1 = 2 * m - 2
  OBVIOUS
<1>5. DataByte(2 * m - 1) = b
  BY <1>1, <1>2, <1>3, <1>4 DEF DataByte
<1>6. DataByte(2 * m) = c
  BY <1>1, <1>2, <1>3 DEF DataByte
<1>7. ASSUME NEW k \in 1 .. Len(got), got[k] \in Status, k < b,
             \A j \in k + 1 .. b : got[j] \in Data
      PROVE  k = a
  <2>1. ~(k < a)
    BY <1>1, <1>3, <1>7
  <2>2. ~(a < k)
    BY <1>1, <1>3, <1>7
  <2> QED
    BY <2>1, <2>2
<1>8. StatusOf(2 * m - 1) = a
  BY <1>1, <1>3, <1>5, <1>7 DEF StatusOf
<1> QED
  BY <1>5, <1>6, <1>8

LEMMA MessagesSay == DeviceInv /\ MessagesOK => MessagesParsed
<1> SUFFICES ASSUME DeviceInv, MessagesOK, pc = "read", WholeMessages
             PROVE  /\ queues[at].ptr = DataBefore(Len(got) + 1) \div 2
                    /\ \A m \in 1 .. queues[at].ptr :
                         queues[at].q[m - 1] =
                           [deviceID |-> at - 1, input |-> got[StatusOf(2 * m - 1)],
                            data1 |-> got[DataByte(2 * m - 1)],
                            data2 |-> got[DataByte(2 * m)]]
  BY DEF MessagesParsed
<1>1. BytesOK /\ got \in Seq(Byte \cup {UNWRITTEN})
  BY DEF MessagesOK
<1>2. ASSUME NEW m \in 1 .. queues[at].ptr
      PROVE  queues[at].q[m - 1] =
               [deviceID |-> at - 1, input |-> got[StatusOf(2 * m - 1)],
                data1 |-> got[DataByte(2 * m - 1)],
                data2 |-> got[DataByte(2 * m)]]
  <2>1. m \in Nat /\ m >= 1
    BY TurnBounds
  <2>2. \E a, b, c \in 1 .. Len(got) : Message(m, a, b, c)
    BY <1>1 DEF BytesOK
  <2>3. PICK a \in 1 .. Len(got) : \E b, c \in 1 .. Len(got) : Message(m, a, b, c)
    BY <2>2
  <2>4. PICK b \in 1 .. Len(got) : \E c \in 1 .. Len(got) : Message(m, a, b, c)
    BY <2>3
  <2>5. PICK c \in 1 .. Len(got) : Message(m, a, b, c)
    BY <2>4
  <2>6. DataByte(2 * m - 1) = b /\ DataByte(2 * m) = c /\ StatusOf(2 * m - 1) = a
    BY <1>1, <2>1, <2>5, MessageIsThere
  <2> QED
    BY <2>5, <2>6 DEF Message
<1> QED
  BY <1>1, <1>2 DEF BytesOK

(* The byte that is read, behind the ones before it. *)
LEMMA NextByte ==
  ASSUME got \in Seq(Byte \cup {UNWRITTEN}), NEW b \in Byte, got' = Append(got, b)
  PROVE  /\ got' \in Seq(Byte \cup {UNWRITTEN}) /\ Len(got) \in Nat
         /\ Len(got') = Len(got) + 1 /\ got'[Len(got) + 1] = b
         /\ \A j \in 1 .. Len(got) : got'[j] = got[j]
         /\ \A k \in 1 .. Len(got) + 1 : DataBefore(k)' = DataBefore(k)
         /\ DataBefore(Len(got) + 1) \in Nat
         /\ DataIn(got', Len(got) + 2) =
              IF b \in Data THEN DataBefore(Len(got) + 1) + 1 ELSE DataBefore(Len(got) + 1)
<1> DEFINE n == Len(got)
<1>1. /\ got' \in Seq(Byte \cup {UNWRITTEN}) /\ n \in Nat
      /\ Len(got') = n + 1 /\ got'[n + 1] = b
      /\ \A j \in 1 .. n : got'[j] = got[j]
  <2>1. b \in Byte \cup {UNWRITTEN}
    OBVIOUS
  <2> QED
    BY <2>1, AppendProperties
<1> HIDE DEF n
<1>2. ASSUME NEW k \in 1 .. n + 1 PROVE DataBefore(k)' = DataBefore(k)
  <2>1. DataIn(got', k) = DataIn(got, k)
    BY <1>1, DataInPrefix
  <2> QED
    BY <2>1 DEF DataIn, DataBefore
<1>3. n + 1 \in Nat /\ n + 1 >= 1 /\ (n + 1) + 1 = n + 2 /\ n + 1 \in 1 .. n + 1
  BY <1>1
<1>4. /\ DataIn(got', n + 1) \in Nat
      /\ DataIn(got', n + 2) = IF b \in Data THEN DataIn(got', n + 1) + 1 ELSE DataIn(got', n + 1)
  <2>1. DataIn(got', (n + 1) + 1) =
          IF got'[n + 1] \in Data THEN DataIn(got', n + 1) + 1 ELSE DataIn(got', n + 1)
    BY <1>3, DataInSteps
  <2> QED
    BY <1>1, <1>3, <2>1, DataInSteps
<1>5. DataIn(got', n + 1) = DataBefore(n + 1)
  <2>1. DataIn(got', n + 1) = DataIn(got, n + 1)
    BY <1>1, <1>3, DataInPrefix
  <2> QED
    BY <2>1 DEF DataIn, DataBefore
<1> QED
  BY <1>1, <1>2, <1>4, <1>5 DEF n

(* A stream of whole messages was one before its last byte. *)
LEMMA WholeBefore ==
  ASSUME got \in Seq(Byte \cup {UNWRITTEN}), NEW b \in Byte, got' = Append(got, b),
         WholeMessages'
  PROVE  /\ got = <<>> => b \in Status
         /\ got # <<>> => WholeMessages
         /\ b \in Status => DataBefore(Len(got) + 1) % 2 = 0
<1>1. /\ Len(got) \in Nat /\ Len(got') = Len(got) + 1 /\ got'[Len(got) + 1] = b
      /\ \A j \in 1 .. Len(got) : got'[j] = got[j]
      /\ \A k \in 1 .. Len(got) + 1 : DataBefore(k)' = DataBefore(k)
      /\ DOMAIN got = 1 .. Len(got) /\ DOMAIN got' = 1 .. Len(got) + 1
  BY NextByte
<1>2. got'[1] \in Status /\ \A k \in 1 .. Len(got) + 1 : got'[k] \in Status => DataBefore(k)' % 2 = 0
  BY <1>1 DEF WholeMessages
<1>3. got = <<>> => b \in Status
  <2> SUFFICES ASSUME got = <<>> PROVE b \in Status
    OBVIOUS
  <2>1. Len(got) = 0
    OBVIOUS
  <2> QED
    BY <1>1, <1>2, <2>1
<1>4. got # <<>> => WholeMessages
  <2> SUFFICES ASSUME got # <<>> PROVE WholeMessages
    OBVIOUS
  <2>1. Len(got) >= 1
    BY <1>1, EmptySeq
  <2>2. got[1] \in Status
    BY <1>1, <1>2, <2>1
  <2>3. ASSUME NEW k \in 1 .. Len(got), got[k] \in Status PROVE DataBefore(k) % 2 = 0
    <3>1. k \in 1 .. Len(got) + 1
      BY <1>1
    <3> QED
      BY <1>1, <1>2, <2>3, <3>1
  <2> QED
    BY <1>1, <2>2, <2>3 DEF WholeMessages
<1>5. b \in Status => DataBefore(Len(got) + 1) % 2 = 0
  <2>1. Len(got) + 1 \in 1 .. Len(got) + 1
    BY <1>1
  <2> QED
    BY <1>1, <1>2, <2>1
<1> QED
  BY <1>3, <1>4, <1>5

(* The messages that are in the queue stay what they are. *)
LEMMA MessageStays ==
  ASSUME got \in Seq(Byte \cup {UNWRITTEN}), NEW x \in Byte, got' = Append(got, x), at' = at,
         NEW m, NEW a \in 1 .. Len(got), NEW b \in 1 .. Len(got), NEW c \in 1 .. Len(got),
         queues'[at].q[m - 1] = queues[at].q[m - 1],
         Message(m, a, b, c)
  PROVE  Message(m, a, b, c)'
<1>1. /\ Len(got) \in Nat
      /\ \A j \in 1 .. Len(got) : got'[j] = got[j]
      /\ \A k \in 1 .. Len(got) + 1 : DataBefore(k)' = DataBefore(k)
  BY NextByte
<1>2. /\ a < b /\ b < c /\ DataBefore(b)' = DataBefore(b) /\ DataBefore(c)' = DataBefore(c)
      /\ got'[a] = got[a] /\ got'[b] = got[b] /\ got'[c] = got[c]
  BY <1>1 DEF Message
<1>3. ASSUME NEW j \in a + 1 .. b PROVE got'[j] \in Data
  <2>1. j \in 1 .. Len(got)
    BY <1>1
  <2> QED
    BY <1>1, <2>1 DEF Message
<1> QED
  BY <1>2, <1>3 DEF Message

LEMMA StatusKeepsRunning ==
  ASSUME got \in Seq(Byte \cup {UNWRITTEN}), NEW x \in Byte, got' = Append(got, x),
         \/ x \in Status /\ local'.ev.input = x
         \/ x \in Data /\ RunningStatus /\ local'.ev.input = local.ev.input
  PROVE  RunningStatus'
<1>1. /\ Len(got) \in Nat /\ Len(got') = Len(got) + 1 /\ got'[Len(got) + 1] = x
      /\ \A j \in 1 .. Len(got) : got'[j] = got[j]
  BY NextByte
<1>2. CASE x \in Status /\ local'.ev.input = x
  <2>1. PICK a : a = Len(got) + 1
    OBVIOUS
  <2>2. a \in 1 .. Len(got') /\ got'[a] = x /\ a + 1 .. Len(got') = {}
    BY <1>1, <2>1
  <2> QED
    BY <1>2, <2>2 DEF RunningStatus
<1>3. CASE x \in Data /\ RunningStatus /\ local'.ev.input = local.ev.input
  <2>1. PICK a \in 1 .. Len(got) : /\ got[a] \in Status /\ local.ev.input = got[a]
                                   /\ \A j \in a + 1 .. Len(got) : got[j] \in Data
    BY <1>3 DEF RunningStatus
  <2>2. a \in 1 .. Len(got') /\ got'[a] = got[a]
    BY <1>1
  <2>3. ASSUME NEW j \in a + 1 .. Len(got') PROVE got'[j] \in Data
    <3>1. CASE j = Len(got) + 1
      BY <1>1, <1>3, <3>1
    <3>2. CASE j # Len(got) + 1
      <4>1. j \in a + 1 .. Len(got) /\ j \in 1 .. Len(got)
        BY <1>1, <3>2
      <4> QED
        BY <1>1, <2>1, <4>1
    <3> QED
      BY <3>1, <3>2
  <2> QED
    BY <1>3, <2>1, <2>2, <2>3 DEF RunningStatus
<1> QED
  BY <1>2, <1>3

(* The first byte of an update is a status. *)
LEMMA FirstByteOK ==
  ASSUME DeviceInv, MessagesOK, pc = "read", got = <<>>, NEW x \in Byte, Process(x),
         got' = Append(got, x), at' = at, WholeMessages'
  PROVE  BytesOK'
<1>1. x \in Status /\ x \notin Data
  BY WholeBefore, DeviceAssumption DEF MessagesOK
<1>2. local = NewLocal /\ queues[at].ptr = 0
  BY DEF MessagesOK
<1>3. local' = [local EXCEPT !.code = x, !.ev.input = x] /\ UNCHANGED queues
  BY <1>1 DEF Process, ProcessStatus, FirstData, SecondData
<1>4. local'.index = 0 /\ local'.ev.input = x
  BY <1>2, <1>3 DEF NewLocal
<1>5. Len(got) = 0
  OBVIOUS
<1>6. Len(got') = 1 /\ DataBefore(1) \in Nat /\ DataIn(got', 2) = DataBefore(1)
  BY <1>1, <1>5, NextByte DEF MessagesOK
<1>7. DataBefore(1) = 0
  <2>1. 1 \in Nat /\ 1 >= 1
    OBVIOUS
  <2>2. DataIn(got, 1) = 0
    BY <2>1, DataInSteps
  <2> QED
    BY <2>2 DEF DataIn, DataBefore
<1>8. DataBefore(Len(got) + 1)' = 0
  <2>1. Len(got') + 1 = 2
    BY <1>6
  <2> QED
    BY <1>6, <1>7, <2>1 DEF DataIn, DataBefore
<1>9. RunningStatus'
  BY <1>1, <1>4, StatusKeepsRunning DEF MessagesOK
<1>10. queues'[at'].ptr = 0 /\ 0 \div 2 = 0 /\ ~(0 % 2 = 1)
  BY <1>2, <1>3
<1> QED
  BY <1>4, <1>8, <1>9, <1>10 DEF BytesOK

(* What the queue holds of earlier messages when a byte is read behind.    *)
LEMMA EarlierMessagesStay ==
  ASSUME DeviceInv, MessagesOK, BytesOK, NEW x \in Byte, got' = Append(got, x), at' = at,
         \A i \in 0 .. queues[at].ptr - 1 : queues'[at].q[i] = queues[at].q[i],
         queues[at].ptr \in Nat
  PROVE  \A m \in 1 .. queues[at].ptr : \E a, b, c \in 1 .. Len(got') : Message(m, a, b, c)'
<1> TAKE m \in 1 .. queues[at].ptr
<1>1. got \in Seq(Byte \cup {UNWRITTEN})
  BY DEF MessagesOK
<1>2. \E a, b, c \in 1 .. Len(got) : Message(m, a, b, c)
  BY DEF BytesOK
<1>3. PICK a \in 1 .. Len(got) : \E b, c \in 1 .. Len(got) : Message(m, a, b, c)
  BY <1>2
<1>4. PICK b \in 1 .. Len(got) : \E c \in 1 .. Len(got) : Message(m, a, b, c)
  BY <1>3
<1>5. PICK c \in 1 .. Len(got) : Message(m, a, b, c)
  BY <1>4
<1>6. queues'[at].q[m - 1] = queues[at].q[m - 1]
  <2>1. m - 1 \in 0 .. queues[at].ptr - 1
    OBVIOUS
  <2> QED
    BY <2>1
<1>7. Message(m, a, b, c)'
  BY <1>1, <1>5, <1>6, MessageStays
<1>8. a \in 1 .. Len(got') /\ b \in 1 .. Len(got') /\ c \in 1 .. Len(got')
  BY <1>1, NextByte
<1> QED
  BY <1>7, <1>8

LEMMA HalfOf ==
  ASSUME NEW n \in Nat
  PROVE  /\ n % 2 = 0 => (n + 1) \div 2 = n \div 2 /\ (n + 1) % 2 = 1
         /\ n % 2 = 1 => (n + 1) \div 2 = n \div 2 + 1 /\ (n + 1) % 2 = 0 /\ n = 2 * (n \div 2) + 1
         /\ n % 2 = 0 \/ n % 2 = 1
OBVIOUS

LEMMA NextByteOK ==
  ASSUME DeviceInv, MessagesOK, pc = "read", reads < MaxReads, got # <<>>,
         NEW x \in Byte, Process(x), got' = Append(got, x), at' = at, WholeMessages'
  PROVE  BytesOK'
<1> DEFINE L == Len(got)
           n == local.index
<1>1. got \in Seq(Byte \cup {UNWRITTEN}) /\ WholeMessages
  BY WholeBefore DEF MessagesOK
<1>2. BytesOK
  BY <1>1 DEF MessagesOK
<1>3. /\ n = DataBefore(L + 1) /\ queues[at].ptr = n \div 2
      /\ n % 2 = 1 => got[L] \in Data /\ local.ev.data1 = got[L]
      /\ RunningStatus
  BY <1>2 DEF BytesOK
<1>4. /\ n \in Nat /\ local \in Local /\ local.ev \in Event3 /\ queues[at].ptr \in Nat
      /\ queues[at].ptr \in 0 .. MaxReads
  BY TurnBounds DEF DeviceInv, UpdateOK, Local
<1>5. /\ L \in Nat /\ Len(got') = L + 1 /\ got'[L + 1] = x
      /\ DataIn(got', L + 2) = IF x \in Data THEN n + 1 ELSE n
  BY <1>1, <1>3, NextByte
<1>6. DataBefore(Len(got) + 1)' = IF x \in Data THEN n + 1 ELSE n
  <2>1. Len(got') + 1 = L + 2
    BY <1>5
  <2> QED
    BY <1>5, <2>1 DEF DataIn, DataBefore
<1> HIDE DEF L, n
<1>7. CASE ProcessStatus(x)
  <2>1. /\ x \in Status /\ x \notin Data /\ UNCHANGED queues
        /\ local' = [local EXCEPT !.code = x, !.ev.input = x]
    BY <1>7, DeviceAssumption DEF ProcessStatus
  <2>2. local'.index = n /\ local'.ev.input = x
    BY <1>4, <2>1 DEF Local, Event3, n
  <2>3. n % 2 = 0
    BY <1>1, <1>3, <2>1, WholeBefore DEF L
  <2>4. RunningStatus'
    BY <1>1, <2>1, <2>2, StatusKeepsRunning
  <2>5. \A m \in 1 .. queues[at].ptr : \E a, b, c \in 1 .. Len(got') : Message(m, a, b, c)'
    BY <1>2, <1>4, <2>1, EarlierMessagesStay
  <2>6. queues'[at'].ptr = queues[at].ptr
    BY <2>1
  <2>7. local'.index = DataBefore(Len(got) + 1)' /\ queues'[at'].ptr = local'.index \div 2
    BY <1>3, <1>6, <2>1, <2>2, <2>6
  <2>8. ~(local'.index % 2 = 1)
    BY <2>2, <2>3
  <2> QED
    BY <2>4, <2>5, <2>6, <2>7, <2>8 DEF BytesOK
<1>8. CASE FirstData(x)
  <2>1. /\ x \in Data /\ n % 2 = 0 /\ UNCHANGED queues
        /\ local' = [local EXCEPT !.index = @ + 1, !.code = x, !.ev.data1 = x]
    BY <1>8 DEF FirstData, n
  <2>2. local'.index = n + 1 /\ local'.ev.input = local.ev.input /\ local'.ev.data1 = x
    BY <1>4, <2>1 DEF Local, Event3, n
  <2>3. (n + 1) \div 2 = n \div 2
    BY <1>4, <2>1, HalfOf
  <2>4. RunningStatus'
    BY <1>1, <1>3, <2>1, <2>2, StatusKeepsRunning
  <2>5. \A m \in 1 .. queues[at].ptr : \E a, b, c \in 1 .. Len(got') : Message(m, a, b, c)'
    BY <1>2, <1>4, <2>1, EarlierMessagesStay
  <2>6. queues'[at'].ptr = queues[at].ptr
    BY <2>1
  <2>7. local'.index = DataBefore(Len(got) + 1)' /\ queues'[at'].ptr = local'.index \div 2
    BY <1>3, <1>6, <2>1, <2>2, <2>3, <2>6
  <2>8. got'[Len(got')] \in Data /\ local'.ev.data1 = got'[Len(got')]
    BY <1>5, <2>1, <2>2
  <2> QED
    BY <2>4, <2>5, <2>6, <2>7, <2>8 DEF BytesOK
<1>9. CASE SecondData(x)
  <2>1. /\ x \in Data /\ n % 2 = 1
        /\ local' = [local EXCEPT !.index = @ + 1, !.code = x, !.ev.data2 = x]
    BY <1>9 DEF SecondData, n
  <2>2. local'.index = n + 1 /\ local'.ev.input = local.ev.input
    BY <1>4, <2>1 DEF Local, Event3, n
  <2>3. PICK e \in Event4 :
          /\ e = [deviceID |-> at - 1, input |-> local.ev.input,
                  data1 |-> local.ev.data1, data2 |-> x]
          /\ queues'[at].ptr = queues[at].ptr + 1
          /\ queues'[at].q[queues[at].ptr] = e
          /\ \A i \in 0 .. MaxReads :
               i # queues[at].ptr => queues'[at].q[i] = queues[at].q[i]
    BY <1>9, SecondDataSteps
  <2>4. PICK p : p = queues[at].ptr
    OBVIOUS
  <2>5. p \in Nat /\ p \in 0 .. MaxReads /\ MaxReads \in Nat /\ p = n \div 2 /\ n = 2 * p + 1
        /\ (n + 1) \div 2 = p + 1 /\ (n + 1) % 2 = 0
    BY <1>3, <1>4, <2>1, <2>4, HalfOf, TurnBounds
  <2>6. RunningStatus'
    BY <1>1, <1>3, <2>1, <2>2, StatusKeepsRunning
  <2>7. \A m \in 1 .. p : \E a, b, c \in 1 .. Len(got') : Message(m, a, b, c)'
    <3>1. \A i \in 0 .. p - 1 : queues'[at].q[i] = queues[at].q[i]
      <4> TAKE i \in 0 .. p - 1
      <4>1. i \in 0 .. MaxReads /\ i # p
        BY <2>5
      <4> QED
        BY <2>3, <2>4, <4>1
    <3> QED
      BY <1>2, <1>4, <2>4, <3>1, EarlierMessagesStay
  <2>8. \E a, b, c \in 1 .. Len(got') : Message(p + 1, a, b, c)'
    <3>1. PICK a \in 1 .. Len(got) : /\ got[a] \in Status /\ local.ev.input = got[a]
                                     /\ \A j \in a + 1 .. Len(got) : got[j] \in Data
      BY <1>3 DEF RunningStatus
    <3>2. PICK b : b = L
      OBVIOUS
    <3>3. PICK c : c = L + 1
      OBVIOUS
    <3>4. /\ got[b] \in Data /\ local.ev.data1 = got[b] /\ a # b
          /\ a \in Nat /\ a >= 1 /\ a <= b /\ b \in Nat
      <4>1. got[L] \in Data /\ local.ev.data1 = got[L]
        BY <1>3, <2>1
      <4>2. a # L
        BY <3>1, <4>1, DeviceAssumption
      <4> QED
        BY <1>5, <3>1, <3>2, <4>1, <4>2 DEF L
    <3>5. /\ a \in 1 .. Len(got') /\ b \in 1 .. Len(got') /\ c \in 1 .. Len(got')
          /\ a < b /\ b < c /\ a \in 1 .. L /\ b \in 1 .. L
          /\ b \in 1 .. L + 1 /\ c \in 1 .. L + 1 /\ c = b + 1
      BY <1>5, <3>2, <3>3, <3>4
    <3>6. /\ got'[a] = got[a] /\ got'[b] = got[b] /\ got'[c] = x
          /\ DataBefore(b)' = DataBefore(b) /\ DataBefore(c)' = DataBefore(c)
      BY <1>1, <1>5, <3>3, <3>5, NextByte DEF L
    <3>7. \A j \in a + 1 .. b : got'[j] \in Data
      <4> TAKE j \in a + 1 .. b
      <4>1. j \in a + 1 .. Len(got) /\ j \in 1 .. Len(got)
        BY <1>5, <3>2, <3>4 DEF L
      <4> QED
        BY <1>1, <3>1, <4>1, NextByte
    <3>8. DataBefore(c) = n /\ DataBefore(b) = n - 1
      <4>1. DataBefore(c) = n
        BY <1>3, <3>3
      <4>2. DataIn(got, b) \in Nat /\ DataIn(got, b + 1) = DataIn(got, b) + 1
        <5>1. b \in Nat /\ b >= 1 /\ got[b] \in Data
          BY <3>4, <3>5
        <5> QED
          BY <5>1, DataInSteps
      <4>3. DataIn(got, b) = DataBefore(b) /\ DataIn(got, b + 1) = DataBefore(c)
        BY <3>5 DEF DataIn, DataBefore
      <4> QED
        BY <1>4, <4>1, <4>2, <4>3
    <3>9. DataBefore(b)' = 2 * (p + 1) - 2 /\ DataBefore(c)' = 2 * (p + 1) - 1
      BY <2>5, <3>6, <3>8
    <3>10. queues'[at'].q[(p + 1) - 1] =
             [deviceID |-> at' - 1, input |-> got'[a], data1 |-> got'[b], data2 |-> got'[c]]
      <4>1. (p + 1) - 1 = p
        BY <2>5
      <4> QED
        BY <2>3, <2>4, <3>1, <3>4, <3>6, <4>1
    <3>11. Message(p + 1, a, b, c)'
      BY <2>1, <3>1, <3>4, <3>5, <3>6, <3>7, <3>9, <3>10 DEF Message
    <3> QED
      BY <3>5, <3>11
  <2>9. queues'[at'].ptr = p + 1
    BY <2>3, <2>4
  <2>10. local'.index = DataBefore(Len(got) + 1)' /\ queues'[at'].ptr = local'.index \div 2
    BY <1>6, <2>1, <2>2, <2>5, <2>9
  <2>11. ~(local'.index % 2 = 1)
    BY <2>2, <2>5
  <2>12. \A m \in 1 .. queues'[at'].ptr : \E a, b, c \in 1 .. Len(got') : Message(m, a, b, c)'
    <3> TAKE m \in 1 .. queues'[at'].ptr
    <3>1. m \in 1 .. p \/ m = p + 1
      BY <2>5, <2>9
    <3> QED
      BY <2>7, <2>8, <3>1
  <2> QED
    BY <2>6, <2>10, <2>11, <2>12 DEF BytesOK
<1> QED
  BY <1>7, <1>8, <1>9 DEF Process

LEMMA MessagesInitHolds == DeviceInit => MessagesOK
BY DEF DeviceInit, MessagesOK

LEMMA MessagesNextKeeps ==
  DeviceInv /\ TurnOK /\ MessagesOK /\ [DeviceNext]_deviceVars => MessagesOK'
<1> SUFFICES ASSUME DeviceInv, TurnOK, MessagesOK, [DeviceNext]_deviceVars
             PROVE  MessagesOK'
  OBVIOUS
<1>1. got \in Seq(Byte \cup {UNWRITTEN})
  BY DEF MessagesOK
<1>2. CASE Read
  <2>1. PICK x \in Byte : Process(x) /\ got' = Append(got, x)
    BY <1>2 DEF Read
  <2>2. pc = "read" /\ pc' = "read" /\ at' = at /\ reads < MaxReads
    BY <1>2 DEF Read
  <2>3. got' \in Seq(Byte \cup {UNWRITTEN}) /\ got' # <<>>
    <3>1. x \in Byte \cup {UNWRITTEN}
      OBVIOUS
    <3> QED
      BY <1>1, <2>1, <3>1, AppendProperties
  <2>4. WholeMessages' => BytesOK'
    BY <2>1, <2>2, FirstByteOK, NextByteOK
  <2> QED
    BY <2>2, <2>3, <2>4 DEF MessagesOK
<1>3. CASE ReadError
  <2>1. got' = <<UNWRITTEN>> \o got /\ pc' = "read"
    BY <1>3 DEF ReadError
  <2>2. <<UNWRITTEN>> \in Seq(Byte \cup {UNWRITTEN}) /\ Len(<<UNWRITTEN>>) = 1 /\ <<UNWRITTEN>>[1] = UNWRITTEN
    OBVIOUS
  <2>3. /\ got' \in Seq(Byte \cup {UNWRITTEN}) /\ Len(got') = 1 + Len(got) /\ Len(got) \in Nat
        /\ got'[1] = UNWRITTEN
    BY <1>1, <2>1, <2>2, ConcatProperties
  <2>4. got' # <<>>
    BY <2>3
  <2>5. ~WholeMessages'
    BY <2>3, DeviceAssumption DEF WholeMessages
  <2> QED
    BY <2>1, <2>3, <2>4, <2>5 DEF MessagesOK
<1>4. CASE ReadNone
  BY <1>4 DEF ReadNone, MessagesOK
<1>5. CASE UpdateDevice
  <2>1. pc = "update" /\ got = <<>> /\ local = NewLocal /\ UNCHANGED <<queues, got, local>>
    BY <1>5 DEF UpdateDevice, update, MessagesOK
  <2>2. CASE at <= Len(devices)
    <3>1. pc' = "read" /\ at' = at
      BY <1>5, <2>2 DEF UpdateDevice
    <3>2. PICK f \in [1 .. Len(devices) + 1 -> Nat] : TurnOf(f)
      BY <2>1 DEF TurnOK
    <3>3. at \in 1 .. Len(devices)
      BY <2>2, TurnBounds
    <3>4. at \in at .. Len(devices) + 1 /\ at + 1 \in at .. Len(devices) + 1
      BY <3>3, TurnBounds
    <3>5. f[at] = Len(parsed) /\ f[at + 1] = Len(parsed) /\ queues[at].ptr = f[at + 1] - f[at]
      BY <2>1, <3>2, <3>3, <3>4 DEF TurnOf, ReadUpTo
    <3>6. queues[at].ptr = 0
      BY <3>5 DEF TurnOK
    <3> QED
      BY <1>1, <2>1, <3>1, <3>6 DEF MessagesOK, WholeMessages
  <2>3. CASE ~(at <= Len(devices))
    BY <1>1, <1>5, <2>1, <2>3 DEF UpdateDevice, MessagesOK
  <2> QED
    BY <2>2, <2>3
<1>6. CASE UNCHANGED deviceVars
  <2>1. UNCHANGED <<got, local, pc, at, queues>>
    BY <1>6 DEF deviceVars, update
  <2>2. WholeMessages' <=> WholeMessages
    BY <2>1 DEF WholeMessages, DataBefore
  <2>3. BytesOK => BytesOK'
    <3>1. \A k : DataBefore(k)' = DataBefore(k)
      BY <2>1 DEF DataBefore
    <3>2. \A m, a, b, c : Message(m, a, b, c) => Message(m, a, b, c)'
      BY <2>1, <3>1 DEF Message
    <3>3. DataBefore(Len(got) + 1)' = DataBefore(Len(got) + 1)
      BY <2>1 DEF DataBefore
    <3>4. RunningStatus => RunningStatus'
      BY <2>1 DEF RunningStatus
    <3> QED
      BY <2>1, <3>2, <3>3, <3>4 DEF BytesOK
  <2> QED
    BY <2>1, <2>2, <2>3 DEF MessagesOK
<1>7. CASE Assemble
  <2>1. pc' \in {"query", "fault"} /\ pc = "query"
    BY <1>7, AssembleSteps DEF Assemble
  <2> QED
    BY <1>7, <2>1 DEF Assemble, update, MessagesOK
<1>8. CASE QueryDevices \/ SkipQuery \/ QueryEnd \/ ReadDead \/ MoveEvent \/ NextQueue \/ GetEvents
  BY <1>8 DEF QueryDevices, SkipQuery, QueryEnd, ReadDead, MoveEvent, NextQueue, GetEvents,
              update, MessagesOK
<1> QED
  BY <1>2, <1>3, <1>4, <1>5, <1>6, <1>7, <1>8 DEF DeviceNext

(* The bytes since the update began are the messages in the queue and the  *)
(* one that is begun, if they are whole messages.                          *)
THEOREM MessagesInvariant == DeviceSpec => []MessagesOK
<1> QED
  BY DeviceInvariant, TurnInvariant, MessagesInitHolds, MessagesNextKeeps, PTL DEF DeviceSpec

(* A stream of whole messages of any length gives its messages in their    *)
(* order, each with the status that was sent last before it.               *)
THEOREM StreamGivesMessages == DeviceSpec => []MessagesParsed
<1> QED
  BY MessagesSay, DeviceInvariant, MessagesInvariant, PTL
=============================================================================
