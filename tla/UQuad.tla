------------------------------- MODULE UQuad -------------------------------
(***************************************************************************)
(* hal::android::UQuad: the driver of the quadcopter's USB board.  Callers *)
(* look at the motors' state and post an event; the one I/O thread runs    *)
(* the motors' state machine, the write event, the timers and the reaping  *)
(* of USB requests.  What is to be written is a set of dirty flags beside  *)
(* the wanted values.  A wait on m_WriteEvent that never expires, its      *)
(* cancelled handler, or a write request in the kernel is the writer's     *)
(* token: whoever makes something dirty cancels the wait.                  *)
(***************************************************************************)
EXTENDS Naturals, Sequences, FiniteSets

CONSTANTS
  Callers,       \* threads that use the device
  Owner,         \* the one that opens and closes it
  Powers,        \* power levels, above Armed, that are asked for
  LedModes,      \* LED modes that are asked for
  MaxPosted,     \* events posted to the I/O thread at a time (a bound)
  MaxOpens,      \* times the device is opened (a bound)
  QueueMayFail,  \* usb_request_queue may fail
  Prompt         \* callers and the I/O thread are faster than the motors' timer

Off   == 0  \* motor power; MOTOR_PWM_ARM_LEVEL is Armed
Armed == 1
None  == "none"

ASSUME UQuadAssumption ==
  /\ Owner \in Callers
  /\ Powers \subseteq Nat \ {Off}
  /\ LedModes \subseteq Nat
  /\ MaxPosted \in Nat \ {0} /\ MaxOpens \in Nat
  /\ QueueMayFail \in BOOLEAN /\ Prompt \in BOOLEAN

VARIABLES
  device,   \* m_Device and its requests: "closed", "opening", "open", "closing"
  opens,    \* times it was opened
  motors,   \* state of m_MotorsState
  timer,    \* its timer is set
  posted,   \* events dispatched to the I/O thread
  call,     \* what each caller has checked and is about to do
  power,    \* m_MotorsPower
  leds,     \* m_LedsMode
  dirty,    \* m_WriteDirtyFlags
  waits,    \* waits on m_WriteEvent
  woken,    \* handlers of cancelled waits that are to run
  kernel,   \* write requests queued in the kernel, oldest first
  written,  \* those completed and not yet reaped
  reading,  \* the read request: "none", "queued" or "done"
  sensing,  \* the I/O thread is in the sensor callbacks of handleReadPacket
  success,  \* open() returned kENoError and close() was not called since
  board,    \* what the board was last told
  failed    \* a USB request was used when close() had freed it: the process died

motorVars == <<motors, timer, posted>>
want      == <<power, leds, dirty>>
writer    == <<waits, woken>>
usb       == <<kernel, written, board>>
reader    == <<reading, sensing>>
vars      == <<device, opens, motorVars, call, want, writer, usb, reader, success, failed>>

Levels  == {Off, Armed} \cup Powers
Packets == ({"motors"} \X Levels) \cup ({"leds"} \X (LedModes \cup {0}))
Events  == ({"arm", "disarm"} \X {Off}) \cup ({"power"} \X Powers)
Calls   == Events \cup ({"leds"} \X LedModes) \cup {<<None, Off>>}
NoCall  == <<None, Off>>

TypeOK ==
  /\ device \in {"closed", "opening", "open", "closing"} /\ opens \in 0..MaxOpens
  /\ motors \in {"Idle", "Arming", "Running", "Disarming"} /\ timer \in BOOLEAN
  /\ posted \in Seq(Events) /\ Len(posted) <= MaxPosted
  /\ call \in [Callers -> Calls]
  /\ power \in Levels /\ leds \in LedModes \cup {0} /\ dirty \subseteq {"motors", "leds"}
  /\ waits \in Nat /\ woken \in Nat
  /\ kernel \in Seq(Packets) /\ written \in Nat
  /\ board \in [motors : Levels, leds : LedModes \cup {0}]
  /\ reading \in {"none", "queued", "done"} /\ sensing \in BOOLEAN
  /\ success \in BOOLEAN /\ failed \in BOOLEAN

Init ==
  /\ device = "closed" /\ opens = 0
  /\ motors = "Idle" /\ timer = FALSE /\ posted = <<>>
  /\ call = [c \in Callers |-> NoCall]
  /\ power = Off /\ leds = 0 /\ dirty = {}
  /\ waits = 0 /\ woken = 0
  /\ kernel = <<>> /\ written = 0 /\ board = [motors |-> Off, leds |-> 0]
  /\ reading = "none" /\ sensing = FALSE
  /\ success = FALSE /\ failed = FALSE

-----------------------------------------------------------------------------
IsOpen == device # "closed"

\* m_WriteEvent.cancel(): every wait ends.
CancelWaits == woken' = woken + waits /\ waits' = 0

\* expires_at cancels the waits there are; w handlers were to run already.
startWriteEvent(w) == woken' = w + waits /\ waits' = 1

\* Mutants: the flag replaces the others; the wait is not cancelled; the arm
\* level is added twice.
FlagReplaced(flag) == dirty' = {flag} /\ CancelWaits
NotWoken(flag) == dirty' = dirty \cup {flag} /\ UNCHANGED writer

MakeDirty(flag) == dirty' = dirty \cup {flag} /\ CancelWaits

setMotorsPWM(p) == power' = p /\ MakeDirty("motors")

(***************************************************************************)
(* The calls.  Each looks at the device and the motors first and acts      *)
(* later: in between the other threads run.                                *)
(***************************************************************************)
\* Mutant: only the device is looked at.
CheckOpen(c, what) ==
  /\ call[c] = NoCall
  /\ IsOpen /\ (c = Owner => device = "open")
  /\ call' = [call EXCEPT ![c] = what]
  /\ UNCHANGED <<device, opens, motorVars, want, writer, usb, reader, success, failed>>

Check(c, what) ==
  /\ call[c] = NoCall
  /\ IsOpen /\ (c = Owner => device = "open")
  /\ CASE what[1] = "arm"               -> motors = "Idle"
       [] what[1] \in {"disarm", "power"} -> motors = "Running"
       [] what[1] = "leds"              -> TRUE
  /\ call' = [call EXCEPT ![c] = what]
  /\ UNCHANGED <<device, opens, motorVars, want, writer, usb, reader, success, failed>>

DispatchEvent(c) ==
  /\ call[c] \in Events
  /\ Len(posted) < MaxPosted
  /\ posted' = Append(posted, call[c])
  /\ call' = [call EXCEPT ![c] = NoCall]
  /\ UNCHANGED <<device, opens, motors, timer, want, writer, usb, reader, success, failed>>

SetLedsMode(c) ==
  /\ call[c][1] = "leds"
  /\ leds' = call[c][2] /\ MakeDirty("leds")
  /\ call' = [call EXCEPT ![c] = NoCall]
  /\ UNCHANGED <<device, opens, motorVars, power, usb, reader, success, failed>>

(***************************************************************************)
(* open() and close(), called by one thread.                               *)
(***************************************************************************)
StartAsyncIOTasks ==
  /\ device = "closed" /\ call[Owner] = NoCall /\ opens < MaxOpens
  /\ device' = "opening" /\ opens' = opens + 1
  /\ reading' = "queued"
  /\ startWriteEvent(woken)
  /\ UNCHANGED <<motorVars, call, want, usb, sensing, success, failed>>

\* open() goes on after startAsyncIOTasks failed, and returns kENoError.
OpenFails ==
  /\ device = "closed" /\ call[Owner] = NoCall
  /\ dirty' = {} /\ success' = TRUE
  /\ UNCHANGED <<device, opens, motorVars, call, power, leds, writer, usb, reader, failed>>

\* m_WriteDirtyFlags = 0, then setLedsMode(kLedMode0, ...).
FinishOpen ==
  /\ device = "opening"
  /\ device' = "open" /\ success' = TRUE
  /\ leds' = 0 /\ dirty' = {"leds"} /\ CancelWaits
  /\ UNCHANGED <<opens, motorVars, call, power, usb, reader, failed>>

StopWriting ==
  /\ device = "open" /\ call[Owner] = NoCall
  /\ device' = "closing" /\ success' = FALSE
  /\ dirty' = {} /\ CancelWaits
  /\ UNCHANGED <<opens, motorVars, call, power, leds, usb, reader, failed>>

\* The requests are cancelled, freed and forgotten.
FreeRequests ==
  /\ device = "closing"
  /\ device' = "closed"
  /\ kernel' = <<>> /\ written' = 0 /\ reading' = "none"
  /\ UNCHANGED <<opens, motorVars, call, want, writer, board, sensing, success, failed>>

(***************************************************************************)
(* The I/O thread: the motors' state machine                               *)
(***************************************************************************)
IOThreadFree == ~sensing

\* Mutant: ESetPower has a transition in every state but SIdle.
InAnyState(p) ==
  IF motors # "Idle"
  THEN setMotorsPWM(p) /\ UNCHANGED <<motors, timer, leds>>
  ELSE UNCHANGED <<motors, timer, want, writer>>

SetPower(p) ==
  IF motors = "Running"
  THEN setMotorsPWM(p) /\ UNCHANGED <<motors, timer, leds>>
  ELSE UNCHANGED <<motors, timer, want, writer>>

\* One event arms and disarms; in the other two states it has no transition.
ArmDisarm ==
  CASE motors = "Idle" ->
         motors' = "Arming" /\ timer' = TRUE /\ setMotorsPWM(Armed) /\ UNCHANGED leds
    [] motors = "Running" ->
         motors' = "Disarming" /\ timer' = TRUE /\ setMotorsPWM(Off) /\ UNCHANGED leds
    [] OTHER -> UNCHANGED <<motors, timer, want, writer>>

ProcessEvent ==
  /\ IOThreadFree /\ posted # <<>>
  /\ posted' = Tail(posted)
  /\ IF Head(posted)[1] = "power" THEN SetPower(Head(posted)[2]) ELSE ArmDisarm
  /\ UNCHANGED <<device, opens, call, usb, reader, success, failed>>

\* 2 s of arming or 100 ms of disarming are over.
TimerExpires ==
  /\ IOThreadFree /\ timer
  /\ Prompt => posted = <<>> /\ \A c \in Callers : call[c] \notin Events
  /\ timer' = FALSE
  /\ motors' = CASE motors = "Arming"    -> "Running"
                 [] motors = "Disarming" -> "Idle"
                 [] OTHER                -> motors
  /\ UNCHANGED <<device, opens, posted, call, want, writer, usb, reader, success, failed>>

(***************************************************************************)
(* The I/O thread: writing                                                 *)
(***************************************************************************)
Packet(flag) == IF flag = "motors" THEN <<flag, power>> ELSE <<flag, leds>>
First == IF "motors" \in dirty THEN "motors" ELSE "leds"

\* Mutant: the writer queues a packet and goes on to wait.
QueueAndWait(w) ==
  /\ startWriteEvent(w)
  /\ dirty' = dirty \ {First}
  /\ kernel' = IF dirty = {} THEN kernel ELSE Append(kernel, Packet(First))
  /\ UNCHANGED failed

\* writeDirtyPacket and its callers: the packet queued is the first of the
\* dirty ones, or the second when the first could not be queued and is given
\* up; when none is queued the writer waits for the next event.
WriteDirtyPacket(w) ==
  \/ /\ dirty = {} \/ (QueueMayFail /\ device # "closed")
     /\ dirty' = {} /\ startWriteEvent(w)
     /\ UNCHANGED <<kernel, failed>>
  \/ /\ dirty # {} /\ device # "closed"
     /\ \E flag \in dirty :
          /\ flag = First \/ QueueMayFail
          /\ dirty' = IF flag = First THEN dirty \ {flag} ELSE {}
          /\ kernel' = Append(kernel, Packet(flag))
     /\ woken' = w /\ UNCHANGED <<waits, failed>>
  \/ /\ dirty # {} /\ device = "closed"
     /\ failed' = TRUE
     /\ woken' = w /\ UNCHANGED <<dirty, waits, kernel>>

HandleWriteEvent ==
  /\ IOThreadFree /\ woken > 0
  /\ WriteDirtyPacket(woken - 1)
  /\ UNCHANGED <<device, opens, motorVars, call, power, leds, written, board, reader, success>>

HandleWritePacket ==
  /\ IOThreadFree /\ written > 0
  /\ written' = written - 1
  /\ WriteDirtyPacket(woken)
  /\ UNCHANGED <<device, opens, motorVars, call, power, leds, board, reader, success>>

\* The kernel hands the oldest packet to the board.
Deliver ==
  /\ kernel # <<>>
  /\ kernel' = Tail(kernel) /\ written' = written + 1
  /\ board' = [board EXCEPT ![Head(kernel)[1]] = Head(kernel)[2]]
  /\ UNCHANGED <<device, opens, motorVars, call, want, writer, reader, success, failed>>

(***************************************************************************)
(* The I/O thread: reading                                                 *)
(***************************************************************************)
SensorsMeasure ==
  /\ reading = "queued" /\ reading' = "done"
  /\ UNCHANGED <<device, opens, motorVars, call, want, writer, usb, sensing, success, failed>>

HandleReadPacket ==
  /\ IOThreadFree /\ reading = "done"
  /\ reading' = "none" /\ sensing' = TRUE
  /\ UNCHANGED <<device, opens, motorVars, call, want, writer, usb, success, failed>>

\* Mutant: the request is queued once.
ReadOnce ==
  /\ sensing /\ sensing' = FALSE
  /\ UNCHANGED <<device, opens, motorVars, call, want, writer, usb, reading, success, failed>>

\* The sensor callbacks returned.
QueueReadRequest ==
  /\ sensing /\ sensing' = FALSE
  /\ IF device = "closed"
     THEN failed' = TRUE /\ UNCHANGED reading
     ELSE /\ reading' = "queued" \/ (QueueMayFail /\ reading' = "none")
          /\ UNCHANGED failed
  /\ UNCHANGED <<device, opens, motorVars, call, want, writer, usb, success>>

-----------------------------------------------------------------------------
IOThread ==
  /\ ~failed
  /\ \/ ProcessEvent \/ TimerExpires \/ HandleWriteEvent \/ HandleWritePacket
     \/ HandleReadPacket \/ QueueReadRequest
Kernel == ~failed /\ (Deliver \/ SensorsMeasure)
User(c) ==
  /\ ~failed
  /\ \/ \E what \in Calls \ {NoCall} : Check(c, what)
     \/ DispatchEvent(c) \/ SetLedsMode(c)
OpenClose ==
  /\ ~failed
  /\ StartAsyncIOTasks \/ OpenFails \/ FinishOpen \/ StopWriting \/ FreeRequests

Next == IOThread \/ Kernel \/ OpenClose \/ \E c \in Callers : User(c)

Spec == Init /\ [][Next]_vars

\* The io_service runs its handlers first in, first out: the writer's gets its
\* turn though the thread is in the sensor callbacks again and again (hence
\* SF).  The kernel completes what is queued, and the board keeps measuring.
FairSpec ==
  /\ Spec
  /\ SF_vars(~failed /\ (HandleWriteEvent \/ HandleWritePacket))
  /\ WF_vars(~failed /\ (HandleReadPacket \/ QueueReadRequest))
  /\ WF_vars(~failed /\ Deliver)
  /\ WF_vars(~failed /\ SensorsMeasure)

-----------------------------------------------------------------------------
(***************************************************************************)
(* Properties                                                              *)
(***************************************************************************)
\* The motors are asked to turn only between arming and disarming: no late
\* ESetPower turns them on again.
OffUnlessArmed == motors \in {"Idle", "Disarming"} => power = Off

\* No lost wake-up: while something is dirty the writer does not sleep, though
\* flags are set by any thread and the wait is started anew by another.
WriterOnItsWay ==
  device = "open" /\ dirty # {} => waits = 0 /\ (woken > 0 \/ kernel # <<>> \/ written > 0)

\* One packet is in the making at a time until the device is reopened: the one
\* write request and its buffer are never used twice.
OneWriter == device = "open" => waits + woken + Len(kernel) + written = 1

\* What is neither dirty nor queued, the board has been told.
Queued(flag) == \E i \in 1..Len(kernel) : kernel[i][1] = flag
BoardFollows ==
  device = "open" =>
    /\ "motors" \in dirty \/ Queued("motors") \/ board.motors = power
    /\ "leds" \in dirty \/ Queued("leds") \/ board.leds = leds

\* Motors start only on armMotors and stop only on disarmMotors, although both
\* post the same event.
CommandsObeyed ==
  [][ /\ motors = "Idle" /\ motors' # "Idle" => Head(posted)[1] = "arm"
      /\ motors = "Running" /\ motors' # "Running" => Head(posted)[1] = "disarm" ]_motors

\* The board is told in the end what is wanted, unless the device is closed or
\* something else is wanted: in particular disarmed motors stop.
BoardToldInTheEnd ==
  \A p \in Levels :
    device = "open" /\ power = p ~> board.motors = p \/ power # p \/ device # "open" \/ failed

\* The sensors are read again and again while the device is open.
KeepsSensing == device = "open" ~> sensing \/ device # "open" \/ failed

\* After open() reported success the device is open.
OpenedIsOpen == success => IsOpen
=============================================================================
