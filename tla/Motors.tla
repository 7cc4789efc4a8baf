------------------------------- MODULE Motors -------------------------------
(***************************************************************************)
(* The motors of the board's firmware: the main loop takes the powers of a *)
(* packet in motors_set_pwm, one byte after the other, while the interrupt *)
(* of an 8-bit timer makes the pulses, one motor after the other.  A motor *)
(* has a pulse of 1 to 2 ms and a pause up to the end of its frame; one    *)
(* with power 0 has the frame without the pulse.                           *)
(***************************************************************************)
EXTENDS Integers

CONSTANTS
  MaxPwm,  \* MOTORS_MAX_PWM: highest power, and ticks of the timer in 1 ms
  Packets  \* powers of the four motors that packets carry

Motors == 0..3

ASSUME MotorsAssumption == MaxPwm \in 0..127 /\ Packets \subseteq [Motors -> 0..255]

VARIABLES
  pwm,      \* motors_pwm
  onBits,   \* motors of motors_pwm_on_bits
  step,     \* next of the eight writes of motors_set_pwm, 0 when it is not called
  order,    \* its arguments
  given,    \* those of the last call that has returned
  current,  \* motors_current
  off,      \* motors_current_off_duration
  timer,    \* value that was put in TMR0L
  lat       \* motors whose bit in LATD is set

vars == <<pwm, onBits, step, order, given, current, off, timer, lat>>

TypeOK ==
  /\ pwm \in [Motors -> 0..MaxPwm] /\ onBits \subseteq Motors
  /\ step \in 0..8
  /\ order \in [Motors -> 0..MaxPwm] /\ given \in [Motors -> 0..MaxPwm]
  /\ current \in Motors /\ off \in 0..255 /\ timer \in 0..255
  /\ lat \subseteq Motors

Off == [m \in Motors |-> 0]

Init ==
  /\ pwm = Off /\ onBits = {} /\ step = 0 /\ order = Off /\ given = Off
  /\ current = 0 /\ off = 0 /\ timer = 0 /\ lat = {}

-----------------------------------------------------------------------------
\* Mutant: the highest power is scaled to MaxPwm + 1.
ScaleUp(power) == (power * (MaxPwm + 2)) \div 256
Scale(power)   == (power * MaxPwm) \div 256

\* comm_process finds a packet and calls motors_set_pwm.
SetPwm ==
  /\ step = 0 /\ step' = 1
  /\ \E packet \in Packets : order' = [m \in Motors |-> Scale(packet[m])]
  /\ UNCHANGED <<pwm, onBits, given, current, off, timer, lat>>

\* Mutant: a motor whose power was not 0 before the call stays on.
BitLate(m) == IF pwm[m] > 0 \/ order[m] > 0 THEN onBits \cup {m} ELSE onBits \ {m}
OnBit(m)   == IF order[m] > 0 THEN onBits \cup {m} ELSE onBits \ {m}

WriteOnBit ==
  /\ step \in {1, 3, 5, 7} /\ step' = step + 1
  /\ onBits' = OnBit(step \div 2)
  /\ UNCHANGED <<pwm, order, given, current, off, timer, lat>>

WritePwm ==
  /\ step \in {2, 4, 6, 8}
  /\ LET m == step \div 2 - 1 IN pwm' = [pwm EXCEPT ![m] = order[m]]
  /\ IF step = 8 THEN step' = 0 /\ given' = order ELSE step' = step + 1 /\ UNCHANGED given
  /\ UNCHANGED <<onBits, order, current, off, timer, lat>>

-----------------------------------------------------------------------------
\* What TMR0L is set to for the pulse and for the pause, in eight bits: it
\* overflows one tick after it has counted to 255.
PulseOf(power) == (255 - MaxPwm - power) % 256
\* Mutant: the pause does not make up for the pulse.
PauseForNone(power) == (255 - MaxPwm) % 256
PauseAfter(power)   == (255 - (MaxPwm - power)) % 256

\* Mutant: the last motor is forgotten.
NextOfThree(m) == (m + 1) % 3
NextMotor(m)   == (m + 1) % 4

\* The end of the pulse: the timer is set to overflow at the end of the frame.
Pause ==
  /\ off # 0
  /\ lat' = lat \ {current}
  /\ timer' = off /\ off' = 0
  /\ current' = NextMotor(current)
  /\ UNCHANGED <<pwm, onBits, step, order, given>>

Pulse ==
  /\ off = 0
  /\ lat' = lat \cup ({current} \cap onBits)
  /\ timer' = PulseOf(pwm[current]) /\ off' = PauseAfter(pwm[current])
  /\ UNCHANGED <<pwm, onBits, step, order, given, current>>

MotorsIsr == Pause \/ Pulse

Next == SetPwm \/ WriteOnBit \/ WritePwm \/ MotorsIsr

Spec == Init /\ [][Next]_vars

\* The timer overflows again and again.
FairSpec == Spec /\ WF_vars(MotorsIsr)

-----------------------------------------------------------------------------
\* One motor at a time has a pulse, which the next interrupt ends: the byte for
\* the pause does not wrap to 0, which would be taken for the end of the pause.
OnePulse == lat \subseteq {current} /\ (lat # {} => off # 0)

\* All frames have the same length, whatever the power: pulse and pause, from
\* the values the timer is set to, take 2 ms.
ConstantFrame == off # 0 => (256 - timer) + (256 - off) = 2 * (MaxPwm + 1)

\* A pulse that begins while the powers are being written is as long as the last
\* order or the new one has it, and a motor that both keep at 0 has none.  (One
\* that is told to run may begin with the pulse of power 0, of 1 ms.)
PulseOfAnOrder ==
  [][\A m \in lat' \ lat :
       /\ 256 - timer' \in {MaxPwm + 1 + given[m], MaxPwm + 1 + order[m]}
       /\ given[m] > 0 \/ order[m] > 0]_vars

\* A motor that is told to run, and is not told to stop, has its pulses.
Pulses ==
  \A m \in Motors :
    <>[](order[m] > 0 /\ given[m] > 0) => []<>(m \in lat)
=============================================================================
