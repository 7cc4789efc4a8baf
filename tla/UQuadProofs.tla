---------------------------- MODULE UQuadProofs ----------------------------
(***************************************************************************)
(* What holds of UQuad for any callers, power levels, LED modes and        *)
(* bounds, whether requests can be queued or not.                          *)
(***************************************************************************)
EXTENDS UQuad, TLAPS

\* What the caller checked and dispatched carries a value of its own kind.
LEMMA CallValues ==
  /\ \A e \in Events : e[1] = "power" => e[2] \in Powers
  /\ \A e \in Calls : e[1] = "leds" => e[2] \in LedModes
  /\ Events \subseteq Calls /\ NoCall \in Calls /\ NoCall \notin Events
  BY DEF Events, Calls, NoCall, None

\* What the front of a non-empty queue and the rest of it are.
LEMMA HeadAndTail ==
  ASSUME NEW S, NEW s \in Seq(S), s # <<>>
  PROVE  Head(s) \in S /\ Tail(s) \in Seq(S) /\ Len(Tail(s)) = Len(s) - 1 /\ Len(s) > 0
  OBVIOUS

\* A packet says a level of the motors or a mode of the LEDs.
LEMMA PacketTyped ==
  ASSUME TypeOK, NEW flag \in {"motors", "leds"}
  PROVE  Packet(flag) \in Packets
  BY DEF TypeOK, Packet, Packets

\* The two constants of power levels.
LEMMA OffAndArmed == Off \in Levels /\ Armed \in Levels /\ Powers \subseteq Levels
  BY DEF Levels

(***************************************************************************)
(* Type correctness                                                        *)
(***************************************************************************)
\* Writing keeps the types of what it changes.
LEMMA WriteDirtyPacketTyped ==
  ASSUME TypeOK, NEW w \in Nat, WriteDirtyPacket(w)
  PROVE  /\ dirty' \subseteq {"motors", "leds"} /\ waits' \in Nat /\ woken' \in Nat
         /\ kernel' \in Seq(Packets) /\ failed' \in BOOLEAN
<1>1. CASE dirty' = {} /\ startWriteEvent(w) /\ UNCHANGED <<kernel, failed>>
  BY <1>1 DEF TypeOK, startWriteEvent
<1>2. ASSUME NEW flag \in dirty,
             dirty' = IF flag = First THEN dirty \ {flag} ELSE {},
             kernel' = Append(kernel, Packet(flag)),
             woken' = w, UNCHANGED <<waits, failed>>
      PROVE  /\ dirty' \subseteq {"motors", "leds"} /\ waits' \in Nat /\ woken' \in Nat
             /\ kernel' \in Seq(Packets) /\ failed' \in BOOLEAN
  <2>1. Packet(flag) \in Packets
    BY PacketTyped DEF TypeOK
  <2>2. QED
    BY <1>2, <2>1 DEF TypeOK
<1>3. CASE failed' = TRUE /\ woken' = w /\ UNCHANGED <<dirty, waits, kernel>>
  BY <1>3 DEF TypeOK
<1>4. QED
  BY <1>1, <1>2, <1>3 DEF WriteDirtyPacket

\* A new wanted power keeps the types of what it changes.
LEMMA SetMotorsPWMTyped ==
  ASSUME TypeOK, NEW p \in Levels, setMotorsPWM(p)
  PROVE  /\ power' \in Levels /\ dirty' \subseteq {"motors", "leds"}
         /\ waits' \in Nat /\ woken' \in Nat
  BY DEF TypeOK, setMotorsPWM, MakeDirty, CancelWaits

\* The state UQuad starts in is well typed.
LEMMA InitTyped == Init => TypeOK
<1> SUFFICES ASSUME Init PROVE TypeOK
  OBVIOUS
<1>1. call \in [Callers -> Calls]
  BY CallValues DEF Init
<1>2. /\ power \in Levels /\ leds \in LedModes \cup {0} /\ dirty \subseteq {"motors", "leds"}
      /\ board \in [motors : Levels, leds : LedModes \cup {0}]
  BY OffAndArmed DEF Init
<1>3. posted \in Seq(Events) /\ Len(posted) <= MaxPosted /\ kernel \in Seq(Packets)
  BY UQuadAssumption DEF Init
<1>4. opens \in 0..MaxOpens
  BY UQuadAssumption DEF Init
<1>5. QED
  BY <1>1, <1>2, <1>3, <1>4 DEF Init, TypeOK

\* Every step keeps the types.
LEMMA NextTyped == TypeOK /\ [Next]_vars => TypeOK'
<1> SUFFICES ASSUME TypeOK, [Next]_vars PROVE TypeOK'
  OBVIOUS
<1> USE UQuadAssumption, CallValues, OffAndArmed
<1>1. ASSUME NEW c \in Callers, NEW what \in Calls, Check(c, what) PROVE TypeOK'
  BY <1>1 DEF TypeOK, Check, motorVars, want, writer, usb, reader
<1>2. ASSUME NEW c \in Callers, DispatchEvent(c) PROVE TypeOK'
  BY <1>2 DEF TypeOK, DispatchEvent, want, writer, usb, reader
<1>3. ASSUME NEW c \in Callers, SetLedsMode(c) PROVE TypeOK'
  BY <1>3 DEF TypeOK, SetLedsMode, MakeDirty, CancelWaits, motorVars, usb, reader
<1>4. ASSUME StartAsyncIOTasks PROVE TypeOK'
  BY <1>4 DEF TypeOK, StartAsyncIOTasks, startWriteEvent, motorVars, want, usb
<1>5. ASSUME OpenFails PROVE TypeOK'
  BY <1>5 DEF TypeOK, OpenFails, motorVars, writer, usb, reader
<1>6. ASSUME FinishOpen PROVE TypeOK'
  BY <1>6 DEF TypeOK, FinishOpen, CancelWaits, motorVars, usb, reader
<1>7. ASSUME StopWriting PROVE TypeOK'
  <2>1. waits' \in Nat /\ woken' \in Nat
    BY <1>7 DEF TypeOK, StopWriting, CancelWaits
  <2>2. QED
    BY <1>7, <2>1 DEF TypeOK, StopWriting, motorVars, usb, reader
<1>8. ASSUME FreeRequests PROVE TypeOK'
  BY <1>8 DEF TypeOK, FreeRequests, motorVars, want, writer
<1>9. ASSUME ProcessEvent PROVE TypeOK'
  <2>1. /\ Head(posted) \in Events
        /\ posted' \in Seq(Events) /\ Len(posted') <= MaxPosted
    BY <1>9, HeadAndTail DEF ProcessEvent, TypeOK
  <2>2. ASSUME NEW p \in Powers, SetPower(p)
        PROVE  /\ motors' \in {"Idle", "Arming", "Running", "Disarming"} /\ timer' \in BOOLEAN
               /\ power' \in Levels /\ leds' \in LedModes \cup {0}
               /\ dirty' \subseteq {"motors", "leds"} /\ waits' \in Nat /\ woken' \in Nat
    BY <2>2, SetMotorsPWMTyped DEF TypeOK, SetPower, want, writer
  <2>3. ASSUME ArmDisarm
        PROVE  /\ motors' \in {"Idle", "Arming", "Running", "Disarming"} /\ timer' \in BOOLEAN
               /\ power' \in Levels /\ leds' \in LedModes \cup {0}
               /\ dirty' \subseteq {"motors", "leds"} /\ waits' \in Nat /\ woken' \in Nat
    BY <2>3, SetMotorsPWMTyped DEF TypeOK, ArmDisarm, want, writer
  <2>4. QED
    BY <1>9, <2>1, <2>2, <2>3 DEF TypeOK, ProcessEvent, usb, reader
<1>10. ASSUME TimerExpires PROVE TypeOK'
  BY <1>10 DEF TypeOK, TimerExpires, want, writer, usb, reader
<1>11. ASSUME HandleWriteEvent PROVE TypeOK'
  <2>1. woken - 1 \in Nat
    BY <1>11 DEF HandleWriteEvent, TypeOK
  <2>2. QED
    BY <1>11, <2>1, WriteDirtyPacketTyped DEF TypeOK, HandleWriteEvent, motorVars, reader
<1>12. ASSUME HandleWritePacket PROVE TypeOK'
  BY <1>12, WriteDirtyPacketTyped DEF TypeOK, HandleWritePacket, motorVars, reader
<1>13. ASSUME Deliver PROVE TypeOK'
  <2>1. Head(kernel) \in Packets /\ Tail(kernel) \in Seq(Packets)
    BY <1>13, HeadAndTail DEF Deliver, TypeOK
  <2>2. board' \in [motors : Levels, leds : LedModes \cup {0}]
    BY <1>13, <2>1 DEF Deliver, TypeOK, Packets
  <2>3. QED
    BY <1>13, <2>1, <2>2 DEF TypeOK, Deliver, motorVars, want, writer, reader
<1>14. ASSUME SensorsMeasure \/ HandleReadPacket \/ QueueReadRequest PROVE TypeOK'
  <2>1. CASE SensorsMeasure
    BY <2>1 DEF TypeOK, SensorsMeasure, motorVars, want, writer, usb
  <2>2. CASE HandleReadPacket
    BY <2>2 DEF TypeOK, HandleReadPacket, motorVars, want, writer, usb
  <2>3. CASE QueueReadRequest
    <3>1. reading' \in {reading, "queued", "none"} /\ failed' \in {failed, TRUE} /\ sensing' = FALSE
      BY <2>3 DEF QueueReadRequest
    <3>2. UNCHANGED <<device, opens, motorVars, call, want, writer, usb, success>>
      BY <2>3 DEF QueueReadRequest
    <3>3. reading' \in {"none", "queued", "done"}
      BY <3>1 DEF TypeOK
    <3>4. sensing' \in BOOLEAN /\ failed' \in BOOLEAN
      BY <3>1, Zenon DEF TypeOK
    <3>5. UNCHANGED <<device, opens, motors, timer, posted, call, power, leds, dirty, waits, woken,
                      kernel, written, board, success>>
      BY <3>2 DEF motorVars, want, writer, usb
    <3>6. QED
      BY <3>3, <3>4, <3>5 DEF TypeOK
  <2>4. QED
    BY <1>14, <2>1, <2>2, <2>3
<1>15. CASE UNCHANGED vars
  BY <1>15 DEF TypeOK, vars, motorVars, want, writer, usb, reader
<1>16. QED
  BY <1>1, <1>2, <1>3, <1>4, <1>5, <1>6, <1>7, <1>8, <1>9, <1>10, <1>11, <1>12, <1>13,
     <1>14, <1>15 DEF Next, IOThread, Kernel, User, OpenClose

\* Every reachable state of the driver is well typed.
THEOREM TypeCorrect == Spec => []TypeOK
  BY InitTyped, NextTyped, PTL DEF Spec

(***************************************************************************)
(* The motors' power                                                       *)
(***************************************************************************)
\* Only SetPower in SRunning and AArmDisarm set the power.
LEMMA NextOff == OffUnlessArmed /\ [Next]_vars => OffUnlessArmed'
<1> SUFFICES ASSUME OffUnlessArmed, [Next]_vars PROVE OffUnlessArmed'
  OBVIOUS
<1>1. ASSUME ProcessEvent PROVE OffUnlessArmed'
  <2>1. ASSUME NEW p, SetPower(p) PROVE OffUnlessArmed'
    BY <2>1 DEF SetPower, setMotorsPWM, OffUnlessArmed, want
  <2>2. ASSUME ArmDisarm PROVE OffUnlessArmed'
    BY <2>2 DEF ArmDisarm, setMotorsPWM, OffUnlessArmed, want
  <2>3. QED
    BY <1>1, <2>1, <2>2 DEF ProcessEvent
<1>2. ASSUME TimerExpires PROVE OffUnlessArmed'
  BY <1>2 DEF TimerExpires, OffUnlessArmed, want
<1>3. CASE UNCHANGED <<motors, power>>
  BY <1>3 DEF OffUnlessArmed
<1>4. ASSUME NEW c \in Callers, NEW what, Check(c, what) \/ DispatchEvent(c) \/ SetLedsMode(c)
      PROVE  UNCHANGED <<motors, power>>
  BY <1>4 DEF Check, DispatchEvent, SetLedsMode, motorVars, want
<1>5. ASSUME OpenClose PROVE UNCHANGED <<motors, power>>
  BY <1>5 DEF OpenClose, StartAsyncIOTasks, OpenFails, FinishOpen, StopWriting, FreeRequests,
     motorVars, want
<1>6. ASSUME Kernel \/ HandleWriteEvent \/ HandleWritePacket \/ HandleReadPacket
             \/ QueueReadRequest
      PROVE  UNCHANGED <<motors, power>>
  BY <1>6 DEF Kernel, Deliver, SensorsMeasure, HandleWriteEvent, HandleWritePacket,
     HandleReadPacket, QueueReadRequest, motorVars, want
<1>7. CASE UNCHANGED vars
  BY <1>7, <1>3 DEF vars, motorVars, want
<1>8. QED
  BY <1>1, <1>2, <1>3, <1>4, <1>5, <1>6, <1>7 DEF Next, IOThread, User

\* No order of calls, events and timers leaves power on motors that are idle
\* or disarming.
THEOREM MotorsOffUnlessArmed == Spec => []OffUnlessArmed
<1>1. Init => OffUnlessArmed
  BY DEF Init, OffUnlessArmed
<1>2. QED
  BY <1>1, NextOff, PTL DEF Spec

(***************************************************************************)
(* The writer.  WriterOnItsWay is not inductive: that something is on its  *)
(* way must be known before anything is dirty, and from open() on.         *)
(***************************************************************************)
TokenExists ==
  device \in {"opening", "open"} =>
    waits > 0 \/ woken > 0 \/ kernel # <<>> \/ written > 0
NotAsleep == device = "open" /\ dirty # {} => waits = 0
Awake == TokenExists /\ NotAsleep

\* The cancelled wait's handler is to run.
LEMMA CancelKeepsToken ==
  ASSUME TypeOK, CancelWaits
  PROVE  waits' = 0 /\ (waits > 0 \/ woken > 0 => woken' > 0)
  BY DEF TypeOK, CancelWaits

\* Whoever writes leaves a request in the kernel or waits with nothing dirty.
LEMMA WriteKeepsToken ==
  ASSUME TypeOK, Awake, NEW w \in Nat, WriteDirtyPacket(w),
         device' = device, written' \in Nat
  PROVE  Awake'
<1>1. CASE dirty' = {} /\ startWriteEvent(w) /\ UNCHANGED <<kernel, failed>>
  BY <1>1 DEF Awake, TokenExists, NotAsleep, startWriteEvent
<1>2. ASSUME dirty # {}, NEW flag \in dirty,
             kernel' = Append(kernel, Packet(flag)),
             UNCHANGED <<waits, failed>>
      PROVE  Awake'
  <2>1. kernel' # <<>>
    <3>1. Len(kernel') = Len(kernel) + 1 /\ Len(kernel) \in Nat
      BY <1>2, PacketTyped DEF TypeOK
    <3>2. QED
      BY <3>1
  <2>2. QED
    BY <1>2, <2>1 DEF Awake, TokenExists, NotAsleep
<1>3. CASE device = "closed"
  BY <1>3 DEF Awake, TokenExists, NotAsleep
<1>4. QED
  BY <1>1, <1>2, <1>3 DEF WriteDirtyPacket

\* Every step keeps the writer awake.
LEMMA NextAwake == TypeOK /\ Awake /\ [Next]_vars => Awake'
<1> SUFFICES ASSUME TypeOK, Awake, [Next]_vars PROVE Awake'
  OBVIOUS
<1> USE DEF Awake, TokenExists, NotAsleep
<1>1. ASSUME NEW flag, MakeDirty(flag), UNCHANGED <<device, kernel, written>>
      PROVE  Awake'
  BY <1>1, CancelKeepsToken DEF MakeDirty
<1>2. CASE UNCHANGED <<device, dirty, waits, woken, kernel, written>>
  BY <1>2
<1>3. ASSUME NEW c \in Callers, SetLedsMode(c) PROVE Awake'
  BY <1>3, <1>1 DEF SetLedsMode, usb
<1>4. ASSUME ProcessEvent PROVE Awake'
  <2>1. ASSUME NEW p, SetPower(p) PROVE Awake'
    BY <1>4, <2>1, <1>1, <1>2 DEF ProcessEvent, SetPower, setMotorsPWM, want, writer, usb
  <2>2. ASSUME ArmDisarm PROVE Awake'
    BY <1>4, <2>2, <1>1, <1>2 DEF ProcessEvent, ArmDisarm, setMotorsPWM, want, writer, usb
  <2>3. QED
    BY <1>4, <2>1, <2>2 DEF ProcessEvent
<1>5. ASSUME HandleWriteEvent PROVE Awake'
  <2>1. woken - 1 \in Nat /\ written' \in Nat /\ device' = device
    BY <1>5 DEF HandleWriteEvent, TypeOK
  <2>2. QED
    BY <1>5, <2>1, WriteKeepsToken DEF HandleWriteEvent
<1>6. ASSUME HandleWritePacket PROVE Awake'
  <2>1. woken \in Nat /\ written' \in Nat /\ device' = device
    BY <1>6 DEF HandleWritePacket, TypeOK
  <2>2. QED
    BY <1>6, <2>1, WriteKeepsToken DEF HandleWritePacket
<1>7. ASSUME Deliver PROVE Awake'
  BY <1>7 DEF Deliver, TypeOK, want, writer
<1>8. ASSUME StartAsyncIOTasks PROVE Awake'
  BY <1>8 DEF StartAsyncIOTasks, startWriteEvent
<1>9. ASSUME FinishOpen PROVE Awake'
  BY <1>9, CancelKeepsToken DEF FinishOpen, usb
<1>10. ASSUME StopWriting \/ FreeRequests \/ OpenFails PROVE Awake'
  BY <1>10 DEF StopWriting, FreeRequests, OpenFails
<1>11. ASSUME NEW c \in Callers, NEW what, Check(c, what) \/ DispatchEvent(c) PROVE Awake'
  BY <1>11, <1>2 DEF Check, DispatchEvent, want, writer, usb
<1>12. ASSUME TimerExpires \/ SensorsMeasure \/ HandleReadPacket \/ QueueReadRequest
       PROVE  Awake'
  BY <1>12, <1>2 DEF TimerExpires, SensorsMeasure, HandleReadPacket, QueueReadRequest, want,
     writer, usb
<1>13. CASE UNCHANGED vars
  BY <1>13, <1>2 DEF vars, want, writer, usb
<1>14. QED
  BY <1>3, <1>4, <1>5, <1>6, <1>7, <1>8, <1>9, <1>10, <1>11, <1>12, <1>13
     DEF Next, IOThread, Kernel, User, OpenClose

\* No wake-up of the writer is lost: while the device is open and something is
\* dirty, its handler is to run or a request of it is under way.
THEOREM WriterIsOnItsWay == Spec => []WriterOnItsWay
<1>1. Init => Awake
  BY DEF Init, Awake, TokenExists, NotAsleep
<1>2. Awake => WriterOnItsWay
  BY DEF Awake, TokenExists, NotAsleep, WriterOnItsWay
<1>3. Spec => []Awake
  BY <1>1, TypeCorrect, NextAwake, PTL DEF Spec
<1>4. QED
  BY <1>2, <1>3, PTL

(***************************************************************************)
(* Commands.  armMotors and disarmMotors post the same event, which does   *)
(* the one or the other.  What a caller has found is still so, or is done  *)
(* already, when the event comes: without a timer in between the motors    *)
(* go from idle to arming and from running to disarming only.              *)
(***************************************************************************)
Pending(kind) ==
  (\E c \in Callers : call[c] \in Events /\ call[c][1] = kind) \/
  (\E i \in 1..Len(posted) : posted[i][1] = kind)

StillSo ==
  /\ Pending("arm") => motors \in {"Idle", "Arming"}
  /\ Pending("disarm") => motors \in {"Running", "Disarming"}

\* The calls and the queue of a step have no more pending than they had.
LEMMA PendingKept ==
  ASSUME StillSo, UNCHANGED <<motors, posted, call>>
  PROVE  StillSo'
  BY DEF StillSo, Pending

LEMMA ProcessEventStillSo ==
  ASSUME TypeOK, StillSo, ProcessEvent
  PROVE  /\ StillSo'
         /\ motors = "Idle" /\ motors' # "Idle" => Head(posted)[1] = "arm"
         /\ motors = "Running" /\ motors' # "Running" => Head(posted)[1] = "disarm"
<1>1. /\ posted \in Seq(Events) /\ posted # <<>> /\ posted' = Tail(posted) /\ UNCHANGED call
      /\ Len(posted) \in Nat \ {0} /\ Head(posted) = posted[1] /\ Head(posted) \in Events
      /\ Len(posted') = Len(posted) - 1
      /\ \A i \in 1..Len(posted') : posted'[i] = posted[i + 1]
  BY HeadAndTail DEF ProcessEvent, TypeOK
<1>2. \A kind : Pending(kind)' => Pending(kind)
  <2>1. SUFFICES ASSUME NEW kind, NEW i \in 1..Len(posted'), posted'[i][1] = kind
                 PROVE  Pending(kind)
    BY <1>1 DEF Pending
  <2>2. i + 1 \in 1..Len(posted) /\ posted[i + 1][1] = kind
    BY <1>1, <2>1
  <2> QED BY <2>2 DEF Pending
<1>3. Head(posted)[1] \in {"arm", "disarm", "power"}
  BY <1>1 DEF Events
<1>4. Pending(Head(posted)[1])
  <2>1. 1 \in 1..Len(posted)
    BY <1>1
  <2> QED BY <1>1, <2>1 DEF Pending
<1>5. CASE Head(posted)[1] = "power"
  <2>1. UNCHANGED motors
    BY <1>5 DEF ProcessEvent, SetPower
  <2> QED BY <1>2, <2>1 DEF StillSo
<1>6. CASE Head(posted)[1] # "power"
  <2>1. /\ motors = "Idle" => motors' = "Arming"
        /\ motors = "Running" => motors' = "Disarming"
        /\ motors \notin {"Idle", "Running"} => motors' = motors
    BY <1>6 DEF ProcessEvent, ArmDisarm
  <2> QED BY <1>2, <1>3, <1>4, <1>6, <2>1 DEF StillSo
<1> QED BY <1>5, <1>6

LEMMA NextStillSo == Prompt /\ TypeOK /\ StillSo /\ [Next]_vars => StillSo'
<1> SUFFICES ASSUME Prompt, TypeOK, StillSo, [Next]_vars PROVE StillSo'
  OBVIOUS
<1>1. CASE ProcessEvent
  BY <1>1, ProcessEventStillSo
<1>2. CASE TimerExpires
  <2>1. posted = <<>> /\ (\A c \in Callers : call[c] \notin Events) /\ UNCHANGED <<posted, call>>
    BY <1>2 DEF TimerExpires
  <2>2. ~Pending("arm")' /\ ~Pending("disarm")'
    BY <2>1 DEF Pending
  <2> QED BY <2>2 DEF StillSo
<1>3. ASSUME NEW c \in Callers, NEW what \in Calls, Check(c, what) PROVE StillSo'
  <2>1. /\ call' = [call EXCEPT ![c] = what] /\ UNCHANGED <<motors, posted>>
        /\ call \in [Callers -> Calls]
        /\ what[1] = "arm" => motors = "Idle"
        /\ what[1] = "disarm" => motors = "Running"
    BY <1>3 DEF Check, motorVars, TypeOK
  <2>2. \A kind : Pending(kind)' => Pending(kind) \/ what[1] = kind
    BY <2>1 DEF Pending
  <2> QED BY <2>1, <2>2 DEF StillSo
<1>4. ASSUME NEW c \in Callers, DispatchEvent(c) PROVE StillSo'
  <2>1. /\ call[c] \in Events /\ call \in [Callers -> Calls] /\ posted \in Seq(Events)
        /\ posted' = Append(posted, call[c]) /\ call' = [call EXCEPT ![c] = NoCall]
        /\ UNCHANGED motors
    BY <1>4 DEF DispatchEvent, TypeOK
  <2>2. /\ Len(posted') = Len(posted) + 1 /\ posted'[Len(posted) + 1] = call[c]
        /\ \A i \in 1..Len(posted) : posted'[i] = posted[i]
        /\ Len(posted) \in Nat
    BY <2>1
  <2>3. \A kind : Pending(kind)' => Pending(kind)
    <3>1. SUFFICES ASSUME NEW kind, Pending(kind)' PROVE Pending(kind)
      OBVIOUS
    <3>2. CASE \E d \in Callers : call'[d] \in Events /\ call'[d][1] = kind
      BY <2>1, <3>2, CallValues DEF Pending
    <3>3. CASE \E i \in 1..Len(posted') : posted'[i][1] = kind
      <4>1. PICK i \in 1..Len(posted') : posted'[i][1] = kind
        BY <3>3
      <4>2. CASE i = Len(posted) + 1
        BY <2>1, <2>2, <4>1, <4>2 DEF Pending
      <4>3. CASE i \in 1..Len(posted)
        BY <2>2, <4>1, <4>3 DEF Pending
      <4> QED BY <2>2, <4>2, <4>3
    <3> QED BY <3>1, <3>2, <3>3 DEF Pending
  <2> QED BY <2>1, <2>3 DEF StillSo
<1>5. ASSUME NEW c \in Callers, SetLedsMode(c) PROVE StillSo'
  <2>1. call' = [call EXCEPT ![c] = NoCall] /\ call \in [Callers -> Calls]
        /\ UNCHANGED <<motors, posted>>
    BY <1>5 DEF SetLedsMode, motorVars, TypeOK
  <2>2. \A kind : Pending(kind)' => Pending(kind)
    BY <2>1, CallValues DEF Pending
  <2> QED BY <2>1, <2>2 DEF StillSo
<1>6. CASE OpenClose
  BY <1>6, PendingKept DEF OpenClose, StartAsyncIOTasks, OpenFails, FinishOpen, StopWriting,
     FreeRequests, motorVars
<1>7. CASE Kernel \/ HandleWriteEvent \/ HandleWritePacket \/ HandleReadPacket \/ QueueReadRequest
  BY <1>7, PendingKept DEF Kernel, Deliver, SensorsMeasure, HandleWriteEvent,
     HandleWritePacket, HandleReadPacket, QueueReadRequest, motorVars
<1>8. CASE UNCHANGED vars
  BY <1>8, PendingKept DEF vars, motorVars
<1> QED BY <1>1, <1>2, <1>3, <1>4, <1>5, <1>6, <1>7, <1>8 DEF Next, IOThread, User

\* Only armMotors starts and only disarmMotors stops, however many callers there
\* are, when callers and the I/O thread are faster than the timer.
THEOREM CommandsAreObeyed == Prompt => (Spec => CommandsObeyed)
<1> SUFFICES ASSUME Prompt PROVE Spec => CommandsObeyed
  OBVIOUS
<1>1. Init => StillSo
  BY CallValues DEF Init, StillSo, Pending
<1>2. TypeOK /\ StillSo /\ [Next]_vars => StillSo'
  BY NextStillSo
<1>3. TypeOK /\ StillSo /\ [Next]_vars =>
        [ /\ motors = "Idle" /\ motors' # "Idle" => Head(posted)[1] = "arm"
          /\ motors = "Running" /\ motors' # "Running" => Head(posted)[1] = "disarm" ]_motors
  <2> SUFFICES ASSUME TypeOK, StillSo, [Next]_vars, motors' # motors
               PROVE  /\ motors = "Idle" /\ motors' # "Idle" => Head(posted)[1] = "arm"
                      /\ motors = "Running" /\ motors' # "Running" => Head(posted)[1] = "disarm"
    OBVIOUS
  <2>1. CASE ProcessEvent
    BY <2>1, ProcessEventStillSo
  <2>2. CASE TimerExpires
    BY <2>2 DEF TimerExpires
  <2>3. ASSUME NEW c \in Callers, NEW what, Check(c, what) \/ DispatchEvent(c) \/ SetLedsMode(c)
        PROVE  FALSE
    BY <2>3 DEF Check, DispatchEvent, SetLedsMode, motorVars
  <2>4. CASE OpenClose
    BY <2>4 DEF OpenClose, StartAsyncIOTasks, OpenFails, FinishOpen, StopWriting, FreeRequests,
       motorVars
  <2>5. CASE Kernel \/ HandleWriteEvent \/ HandleWritePacket \/ HandleReadPacket \/ QueueReadRequest
    BY <2>5 DEF Kernel, Deliver, SensorsMeasure, HandleWriteEvent, HandleWritePacket,
       HandleReadPacket, QueueReadRequest, motorVars
  <2>6. CASE UNCHANGED vars
    BY <2>6 DEF vars, motorVars
  <2> QED BY <2>1, <2>2, <2>3, <2>4, <2>5, <2>6 DEF Next, IOThread, User
<1> QED BY <1>1, <1>2, <1>3, TypeCorrect, PTL DEF Spec, CommandsObeyed

-----------------------------------------------------------------------------
(***************************************************************************)
(* One packet in the making, in the only session there is                  *)
(***************************************************************************)
\* The tokens of the writer: waits, handlers to run, packets queued, completed.
Tokens == waits + woken + Len(kernel) + written
NoToken == waits = 0 /\ woken = 0 /\ kernel = <<>> /\ written = 0
Counted ==
  /\ opens = 0 => device = "closed" /\ NoToken
  /\ device \in {"opening", "open"} => Tokens = 1

\* The types of the tokens, which are all that their sum needs.
LEMMA TokensTyped ==
  ASSUME TypeOK
  PROVE  waits \in Nat /\ woken \in Nat /\ written \in Nat /\ Len(kernel) \in Nat
         /\ kernel \in Seq(Packets)
  BY DEF TypeOK

\* A step that keeps the sum, the emptiness and the device keeps the count.
LEMMA CountKept ==
  ASSUME Counted, UNCHANGED <<device, opens>>, Tokens' = Tokens, NoToken => NoToken'
  PROVE  Counted'
  BY DEF Counted

\* A cancelled wait is a handler that is to run.
LEMMA CancelCounted ==
  ASSUME TypeOK, CancelWaits \/ UNCHANGED writer, UNCHANGED <<kernel, written>>
  PROVE  Tokens' = Tokens /\ (NoToken => NoToken')
  BY TokensTyped DEF CancelWaits, writer, Tokens, NoToken

\* The writer's handlers give one token for the one they take, if the requests
\* are there.
LEMMA WriteCounted ==
  ASSUME TypeOK, NEW w \in Nat, WriteDirtyPacket(w), device # "closed"
  PROVE  waits' + woken' + Len(kernel') = waits + w + Len(kernel) + 1
<1>1. CASE startWriteEvent(w) /\ UNCHANGED kernel
  BY <1>1, TokensTyped DEF startWriteEvent
<1>2. ASSUME NEW flag \in dirty, kernel' = Append(kernel, Packet(flag)), woken' = w,
             UNCHANGED waits
      PROVE  waits' + woken' + Len(kernel') = waits + w + Len(kernel) + 1
  <2>1. Packet(flag) \in Packets
    BY PacketTyped DEF TypeOK
  <2>2. Len(Append(kernel, Packet(flag))) = Len(kernel) + 1
    BY <2>1, TokensTyped
  <2>3. Len(kernel') = Len(kernel) + 1 /\ woken' = w /\ waits' = waits
    BY <1>2, <2>2
  <2> QED BY <2>3, TokensTyped
<1> QED BY <1>1, <1>2 DEF WriteDirtyPacket

\* The two handlers, of a cancelled wait and of a completed packet.
LEMMA WriterCounted ==
  ASSUME TypeOK, Counted, HandleWriteEvent \/ HandleWritePacket
  PROVE  Counted'
<1>1. UNCHANGED <<device, opens>> /\ opens # 0
  BY TokensTyped DEF HandleWriteEvent, HandleWritePacket, Counted, NoToken
<1>2. CASE device = "closed"
  BY <1>1, <1>2 DEF Counted
<1>3. CASE device # "closed" /\ HandleWriteEvent
  <2>1. woken - 1 \in Nat /\ UNCHANGED written
    BY <1>3, TokensTyped DEF HandleWriteEvent
  <2>2. waits' + woken' + Len(kernel') = waits + (woken - 1) + Len(kernel) + 1
    BY <1>3, <2>1, WriteCounted DEF HandleWriteEvent
  <2>3. Tokens' = Tokens
    BY <2>1, <2>2, TokensTyped, NextTyped DEF Tokens
  <2> QED BY <1>1, <2>3 DEF Counted
<1>4. CASE device # "closed" /\ HandleWritePacket
  <2>1. written > 0 /\ written' = written - 1
    BY <1>4 DEF HandleWritePacket
  <2>2. waits' + woken' + Len(kernel') = waits + woken + Len(kernel) + 1
    BY <1>4, WriteCounted, TokensTyped DEF HandleWritePacket
  <2>3. Tokens' = Tokens
    BY <2>1, <2>2, TokensTyped DEF Tokens
  <2> QED BY <1>1, <2>3 DEF Counted
<1> QED BY <1>2, <1>3, <1>4

LEMMA NextCounted == MaxOpens <= 1 /\ TypeOK /\ Counted /\ [Next]_vars => Counted'
<1> SUFFICES ASSUME MaxOpens <= 1, TypeOK, Counted, [Next]_vars PROVE Counted'
  OBVIOUS
<1>1. CASE HandleWriteEvent \/ HandleWritePacket
  BY <1>1, WriterCounted
<1>2. CASE ProcessEvent
  <2>1. CancelWaits \/ UNCHANGED writer
    BY <1>2 DEF ProcessEvent, SetPower, ArmDisarm, setMotorsPWM, MakeDirty
  <2>2. UNCHANGED <<device, opens, kernel, written>>
    BY <1>2 DEF ProcessEvent, usb
  <2> QED BY <2>1, <2>2, CancelCounted, CountKept
<1>3. ASSUME NEW c \in Callers, SetLedsMode(c) PROVE Counted'
  <2>1. CancelWaits /\ UNCHANGED <<device, opens, kernel, written>>
    BY <1>3 DEF SetLedsMode, MakeDirty, usb
  <2> QED BY <2>1, CancelCounted, CountKept
<1>4. CASE StartAsyncIOTasks
  <2>1. opens = 0 /\ NoToken
    BY <1>4, UQuadAssumption DEF StartAsyncIOTasks, Counted, TypeOK
  <2>2. waits' = 1 /\ woken' = 0 /\ kernel' = <<>> /\ written' = 0 /\ opens' = 1
    BY <1>4, <2>1 DEF StartAsyncIOTasks, startWriteEvent, usb, NoToken
  <2> QED BY <2>2 DEF Counted, Tokens
<1>5. CASE FinishOpen
  <2>1. Tokens' = Tokens
    BY <1>5, CancelCounted DEF FinishOpen, usb
  <2> QED BY <1>5, <2>1 DEF FinishOpen, Counted
<1>6. CASE StopWriting \/ FreeRequests
  BY <1>6 DEF StopWriting, FreeRequests, Counted
<1>7. CASE Deliver
  <2>1. UNCHANGED <<device, opens, waits, woken>> /\ kernel # <<>>
        /\ Len(kernel') = Len(kernel) - 1 /\ written' = written + 1
    BY <1>7, TokensTyped, HeadAndTail DEF Deliver, writer
  <2> QED BY <2>1, TokensTyped, CountKept DEF Tokens, NoToken
<1>8. CASE UNCHANGED <<device, opens, waits, woken, kernel, written>>
  BY <1>8 DEF Counted, Tokens, NoToken
<1>9. \/ TimerExpires \/ HandleReadPacket \/ QueueReadRequest \/ SensorsMeasure \/ OpenFails
      \/ UNCHANGED vars \/ \E c \in Callers : DispatchEvent(c) \/ \E what \in Calls : Check(c, what)
      => UNCHANGED <<device, opens, waits, woken, kernel, written>>
  BY DEF TimerExpires, HandleReadPacket, QueueReadRequest, SensorsMeasure, OpenFails, vars,
     DispatchEvent, Check, writer, usb
<1> QED BY <1>1, <1>2, <1>3, <1>4, <1>5, <1>6, <1>7, <1>8, <1>9
     DEF Next, IOThread, Kernel, User, OpenClose

\* The one write request and its buffer are never used twice, however many
\* callers set flags and whether or not requests can be queued, in a driver
\* that is opened once.
THEOREM WritesOneAtATime == MaxOpens <= 1 => (Spec => []OneWriter)
<1> SUFFICES ASSUME MaxOpens <= 1 PROVE Spec => []OneWriter
  OBVIOUS
<1>1. Init => Counted
  BY DEF Init, Counted, NoToken
<1>2. TypeOK /\ Counted /\ [Next]_vars => Counted'
  BY NextCounted
<1>3. Counted => OneWriter
  BY DEF Counted, Tokens, OneWriter
<1> QED BY <1>1, <1>2, <1>3, TypeCorrect, PTL DEF Spec

-----------------------------------------------------------------------------
(***************************************************************************)
(* The board follows, in the only session, if its owner is the only caller *)
(* and every request can be queued                                         *)
(***************************************************************************)
OneSessionOneCaller == Callers = {Owner} /\ MaxOpens <= 1 /\ ~QueueMayFail

\* Before the session nothing was asked of the board, and it was told nothing.
Untouched ==
  /\ call[Owner] = NoCall /\ posted = <<>> /\ motors = "Idle"
  /\ power = Off /\ leds = 0 /\ dirty = {} /\ kernel = <<>>
  /\ board = [motors |-> Off, leds |-> 0]

\* A packet on its way says what is wanted, or its flag is set again.
QueueCurrent == \A i \in 1..Len(kernel) : kernel[i][1] \in dirty \/ kernel[i] = Packet(kernel[i][1])
Told(flag) == flag \in dirty \/ Queued(flag) \/ board[flag] = Packet(flag)[2]
InStep ==
  /\ opens = 0 \/ device = "opening" => Untouched
  /\ device = "open" => QueueCurrent /\ Told("motors") /\ Told("leds")

\* A packet in the kernel says something of the motors or of the LEDs.
LEMMA PacketSays ==
  ASSUME TypeOK, NEW i \in 1..Len(kernel)
  PROVE  \E flag \in {"motors", "leds"} : \E value : kernel[i] = <<flag, value>>
<1>1. kernel[i] \in Packets
  BY TokensTyped
<1>2. ASSUME NEW p \in Packets
      PROVE  \E flag \in {"motors", "leds"} : \E value : p = <<flag, value>>
  BY <1>2 DEF Packets
<1> QED BY <1>1, <1>2

\* What is wanted changes only with its flag.
LEMMA InStepKept ==
  ASSUME TypeOK, InStep, device = "open", UNCHANGED <<device, opens, kernel, board>>, opens # 0,
         dirty \subseteq dirty',
         power' # power => "motors" \in dirty', leds' # leds => "leds" \in dirty'
  PROVE  InStep'
<1>1. Told("motors")' /\ Told("leds")'
  BY DEF InStep, Told, Queued, Packet
<1>2. QueueCurrent'
  <2>1. ASSUME NEW i \in 1..Len(kernel)
        PROVE  (kernel[i][1] \in dirty \/ kernel[i] = Packet(kernel[i][1]))'
    <3>0. PICK flag \in {"motors", "leds"} : \E value : kernel[i] = <<flag, value>>
      BY PacketSays
    <3>1. PICK value : kernel[i] = <<flag, value>>
      BY <3>0
    <3>2. kernel[i][1] = flag /\ kernel'[i] = kernel[i]
      BY <3>1
    <3>3. flag \in dirty \/ kernel[i] = Packet(flag)
      BY <3>2 DEF InStep, QueueCurrent
    <3>4. flag \in dirty' \/ Packet(flag)' = Packet(flag)
      BY DEF Packet
    <3>5. flag \in dirty' \/ kernel[i] = Packet(flag)'
      BY <3>3, <3>4
    <3> QED BY <3>2, <3>5 DEF Packet
  <2> QED BY <2>1 DEF QueueCurrent
<1> QED BY <1>1, <1>2 DEF InStep

\* The writer queues the first of the dirty packets when no other is queued.
LEMMA WriteInStep ==
  ASSUME TypeOK, InStep, device = "open", OneSessionOneCaller, NEW w \in Nat, kernel = <<>>,
         WriteDirtyPacket(w), UNCHANGED <<device, opens, power, leds, board>>, opens # 0
  PROVE  InStep'
<1>1. CASE dirty = {} /\ dirty' = {} /\ UNCHANGED kernel
  BY <1>1 DEF InStep, QueueCurrent, Told, Queued, Packet
<1>2. CASE /\ dirty # {} /\ dirty' = dirty \ {First} /\ kernel' = Append(kernel, Packet(First))
  <2>1. First \in dirty /\ First \in {"motors", "leds"}
    BY <1>2 DEF First, TypeOK
  <2>2. kernel' = <<Packet(First)>>
    BY <1>2
  <2>3. Packet(First)[1] = First /\ Len(kernel') = 1 /\ kernel'[1] = Packet(First)
        /\ Packet(First)' = Packet(Packet(First)[1])'
    BY <2>1, <2>2 DEF Packet, First
  <2>4. UNCHANGED <<Packet("motors"), Packet("leds")>>
    BY DEF Packet
  <2>5. QueueCurrent'
    BY <2>1, <2>3, <2>4 DEF QueueCurrent
  <2>6. ASSUME NEW flag \in {"motors", "leds"} PROVE Told(flag)'
    <3>1. CASE flag = First
      BY <2>3, <3>1 DEF Told, Queued
    <3>2. CASE flag # First
      <4>1. Told(flag) /\ ~Queued(flag)
        BY DEF InStep, Queued
      <4> QED BY <1>2, <2>4, <3>2, <4>1 DEF Told
    <3> QED BY <3>1, <3>2
  <2> QED BY <2>5, <2>6 DEF InStep
<1> QED BY <1>1, <1>2 DEF WriteDirtyPacket, OneSessionOneCaller

\* The packet delivered was the only one.
LEMMA DeliverInStep ==
  ASSUME TypeOK, Counted, InStep, Deliver
  PROVE  InStep'
<1>1. opens # 0 /\ device # "opening" /\ UNCHANGED <<device, opens>>
  BY DEF Deliver, InStep, Untouched
<1>2. CASE device = "open"
  <2>1. Len(kernel) = 1 /\ kernel \in Seq(Packets)
    <3>1. kernel # <<>> /\ Len(kernel) > 0
      BY TokensTyped, HeadAndTail DEF Deliver
    <3>2. waits + woken + Len(kernel) + written = 1
      BY <1>2 DEF Counted, Tokens
    <3>3. \A a, b, c, n \in Nat : n > 0 /\ a + b + n + c = 1 => n = 1
      OBVIOUS
    <3> QED BY <3>1, <3>2, <3>3, TokensTyped
  <2>2a. PICK flag \in {"motors", "leds"} : \E value : kernel[1] = <<flag, value>>
    BY <2>1, PacketSays
  <2>2. PICK value : kernel[1] = <<flag, value>>
    BY <2>2a
  <2>3. Head(kernel) = kernel[1] /\ kernel' = <<>>
    <3>1. kernel # <<>> /\ kernel' = Tail(kernel)
      BY DEF Deliver
    <3>2. Len(kernel') = 0 /\ kernel' \in Seq(Packets)
      BY <2>1, <3>1, HeadAndTail
    <3> QED BY <2>1, <3>1, <3>2
  <2>4. board' = [board EXCEPT ![flag] = value]
    <3>1. Head(kernel)[1] = flag /\ Head(kernel)[2] = value
      BY <2>2, <2>3
    <3> QED BY <3>1 DEF Deliver
  <2>5. DOMAIN board = {"motors", "leds"}
    BY DEF TypeOK
  <2>6. UNCHANGED <<dirty, power, leds>>
    BY DEF Deliver, want
  <2>7. QueueCurrent'
    BY <2>3 DEF QueueCurrent
  <2>8. ASSUME NEW f \in {"motors", "leds"} PROVE Told(f)'
    <3>1. Packet(f)' = Packet(f)
      BY <2>6 DEF Packet
    <3>2. CASE f = flag
      <4>1. flag \in dirty \/ <<flag, value>> = Packet(flag)
        <5>1. 1 \in 1..Len(kernel) /\ kernel[1][1] = flag
          BY <2>1, <2>2
        <5>2. flag \in dirty \/ kernel[1] = Packet(flag)
          BY <1>2, <5>1 DEF InStep, QueueCurrent
        <5> QED BY <2>2, <5>2
      <4>2. board'[flag] = value
        BY <2>4, <2>5
      <4> QED BY <2>6, <3>1, <3>2, <4>1, <4>2 DEF Told
    <3>3. CASE f # flag
      <4>1. ~Queued(f) /\ Told(f)
        BY <1>2, <2>1, <2>2, <3>3 DEF Queued, InStep
      <4>2. board'[f] = board[f]
        BY <2>4, <2>5, <3>3
      <4> QED BY <2>6, <3>1, <4>1, <4>2 DEF Told
    <3> QED BY <3>2, <3>3
  <2> QED BY <1>1, <1>2, <2>7, <2>8 DEF InStep
<1> QED BY <1>1, <1>2 DEF InStep

LEMMA NextInStep ==
  OneSessionOneCaller /\ TypeOK /\ Counted /\ InStep /\ [Next]_vars => InStep'
<1> SUFFICES ASSUME OneSessionOneCaller, TypeOK, Counted, InStep, [Next]_vars PROVE InStep'
  OBVIOUS
<1> DEFINE Early == opens = 0 \/ device = "opening"
<1>1. Early \/ device = "open" \/ (~Early /\ device \in {"closing", "closed"})
  BY DEF TypeOK
<1>2. device = "open" => opens # 0
  BY DEF Counted
<1>3. CASE OpenClose
  <2>1. CASE StartAsyncIOTasks
    <3>1. opens = 0
      BY <2>1, UQuadAssumption DEF StartAsyncIOTasks, OneSessionOneCaller, TypeOK
    <3> QED BY <2>1, <3>1 DEF StartAsyncIOTasks, InStep, Untouched, motorVars, want, usb
  <2>2. CASE OpenFails
    BY <2>2 DEF OpenFails, InStep, Untouched, motorVars, usb
  <2>3. CASE FinishOpen
    <3>1. Untouched /\ device' = "open" /\ opens' = opens /\ opens # 0
      BY <2>3 DEF FinishOpen, InStep, Counted
    <3>2. kernel' = <<>> /\ power' = Off /\ dirty' = {"leds"}
          /\ board' = [motors |-> Off, leds |-> 0]
      BY <2>3, <3>1 DEF FinishOpen, Untouched, usb
    <3> QED BY <3>1, <3>2 DEF InStep, QueueCurrent, Told, Packet
  <2>4. CASE StopWriting
    BY <1>2, <2>4 DEF StopWriting, InStep
  <2>5. CASE FreeRequests
    <3>1. opens # 0
      BY <2>5 DEF FreeRequests, Counted
    <3> QED BY <2>5, <3>1 DEF FreeRequests, InStep
  <2> QED BY <1>3, <2>1, <2>2, <2>3, <2>4, <2>5 DEF OpenClose
<1>4. CASE ProcessEvent
  <2>1. posted # <<>> /\ UNCHANGED <<device, opens, kernel, board>>
    BY <1>4 DEF ProcessEvent, usb
  <2>2. ~Early
    BY <2>1 DEF InStep, Untouched
  <2>3. dirty \subseteq dirty' /\ (power' # power => "motors" \in dirty') /\ leds' = leds
    BY <1>4 DEF ProcessEvent, SetPower, ArmDisarm, setMotorsPWM, MakeDirty, want
  <2> QED BY <1>1, <2>1, <2>2, <2>3, InStepKept DEF InStep
<1>5. ASSUME NEW c \in Callers, SetLedsMode(c) PROVE InStep'
  <2>1. UNCHANGED <<device, opens, kernel, board, power>>
        /\ dirty \subseteq dirty' /\ "leds" \in dirty' /\ c = Owner /\ call[c] # NoCall
    BY <1>5 DEF SetLedsMode, MakeDirty, usb, OneSessionOneCaller, NoCall, None
  <2>2. ~Early
    BY <2>1 DEF InStep, Untouched
  <2> QED BY <1>1, <2>1, <2>2, InStepKept DEF InStep
<1>6. CASE HandleWriteEvent \/ HandleWritePacket
  <2>1. UNCHANGED <<device, opens, motorVars, call, power, leds, board>>
    BY <1>6 DEF HandleWriteEvent, HandleWritePacket
  <2>2. PICK w \in Nat : WriteDirtyPacket(w)
    BY <1>6, TokensTyped DEF HandleWriteEvent, HandleWritePacket
  <2>3. CASE device = "open"
    <3>1. kernel = <<>>
      <4>1. Len(kernel) = 0
        BY <1>6, <2>3, TokensTyped DEF Counted, Tokens, HandleWriteEvent, HandleWritePacket
      <4> QED BY <4>1, TokensTyped
    <3> QED BY <1>2, <2>1, <2>2, <2>3, <3>1, WriteInStep
  <2>4. CASE Early
    <3>1. dirty = {} /\ dirty' = {} /\ UNCHANGED kernel
      BY <2>2, <2>4 DEF InStep, Untouched, WriteDirtyPacket
    <3>2. Untouched'
      BY <2>1, <2>4, <3>1 DEF InStep, Untouched, motorVars
    <3> QED BY <1>2, <2>1, <2>4, <3>2 DEF InStep
  <2> QED BY <1>1, <2>1, <2>3, <2>4 DEF InStep
<1>7. ASSUME NEW c \in Callers, NEW what, Check(c, what) \/ DispatchEvent(c) PROVE InStep'
  <2>1. UNCHANGED <<device, opens, motors, want, usb>> /\ c = Owner
    BY <1>7 DEF Check, DispatchEvent, motorVars, OneSessionOneCaller
  <2>2. ~Early
    BY <1>7, <2>1, CallValues DEF Check, DispatchEvent, Counted, InStep, Untouched, IsOpen
  <2> QED BY <1>1, <1>2, <2>1, <2>2, InStepKept DEF InStep, want, usb
<1>8. CASE Deliver
  BY <1>8, DeliverInStep
<1>9. CASE UNCHANGED <<device, opens, motors, posted, call, want, kernel, board>>
  BY <1>1, <1>2, <1>9, InStepKept DEF InStep, Untouched, want
<1>10. TimerExpires => InStep'
  <2>1. CASE TimerExpires /\ Early
    <3>1. UNCHANGED <<device, opens, posted, call, want, usb, motors>>
      BY <2>1 DEF TimerExpires, InStep, Untouched
    <3> QED BY <1>9, <3>1 DEF usb
  <2>2. CASE TimerExpires /\ ~Early
    BY <1>1, <2>2, InStepKept DEF TimerExpires, InStep, want, usb
  <2> QED BY <2>1, <2>2
<1>11. HandleReadPacket \/ QueueReadRequest \/ SensorsMeasure \/ UNCHANGED vars
       => UNCHANGED <<device, opens, motors, posted, call, want, kernel, board>>
  BY DEF HandleReadPacket, QueueReadRequest, SensorsMeasure, vars, motorVars, usb
<1> QED BY <1>3, <1>4, <1>5, <1>6, <1>7, <1>8, <1>9, <1>10, <1>11
     DEF Next, IOThread, Kernel, User

\* What is neither dirty nor queued the board was told, whatever is asked of it
\* and in whatever order the threads run.
THEOREM TheBoardFollows == OneSessionOneCaller => (Spec => []BoardFollows)
<1> SUFFICES ASSUME OneSessionOneCaller PROVE Spec => []BoardFollows
  OBVIOUS
<1>1. Init => Counted /\ InStep
  BY UQuadAssumption DEF Init, Counted, NoToken, InStep, Untouched
<1>2. TypeOK /\ Counted /\ InStep /\ [Next]_vars => (Counted /\ InStep)'
  BY NextCounted, NextInStep DEF OneSessionOneCaller
<1>3. InStep => BoardFollows
  BY DEF InStep, Told, Packet, BoardFollows
<1> QED BY <1>1, <1>2, <1>3, TypeCorrect, PTL DEF Spec

=============================================================================
