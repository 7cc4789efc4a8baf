---------------------------- MODULE MotorsProofs ----------------------------
(***************************************************************************)
(* The pulses of the motors are right for every MOTORS_MAX_PWM whose frame *)
(* fits the 8-bit timer, and for all packets.                              *)
(***************************************************************************)
EXTENDS Motors, TLAPS

\* Where motors_set_pwm is: what it has not yet written is of the last order.
Written(m, write) == ~(step # 0 /\ step <= write + 2 * m)

PartlyWritten ==
  /\ step = 0 => order = given
  /\ \A m \in Motors :
       /\ pwm[m] = IF Written(m, 2) THEN order[m] ELSE given[m]
       /\ m \in onBits <=> IF Written(m, 1) THEN order[m] > 0 ELSE given[m] > 0

IInv == TypeOK /\ OnePulse /\ ConstantFrame /\ PartlyWritten

-----------------------------------------------------------------------------
\* A scaled power is at most MaxPwm, which comm_process relies on.
LEMMA ScaleInRange ==
  ASSUME NEW power \in 0..255
  PROVE  Scale(power) \in 0..MaxPwm
<1>1. MaxPwm \in 0..127
  BY MotorsAssumption
<1>2. power * MaxPwm \in Nat /\ power * MaxPwm <= 255 * MaxPwm
  <2> DEFINE rest == 255 - power
  <2>1. rest \in Nat /\ rest * MaxPwm \in Nat /\ power * MaxPwm \in Nat
    BY <1>1
  <2>2. 255 * MaxPwm = power * MaxPwm + rest * MaxPwm
    BY <1>1
  <2> HIDE DEF rest
  <2> QED BY <2>1, <2>2, <1>1
<1> DEFINE p == power * MaxPwm
<1>3. p \in Nat /\ p <= 255 * MaxPwm
  BY <1>2
<1> HIDE DEF p
<1>4. p \div 256 \in 0..MaxPwm
  BY <1>1, <1>3
<1> QED BY <1>4 DEF Scale, p

\* The two values of a frame do not wrap, and the one for the pause is not 0.
LEMMA TimerValues ==
  ASSUME NEW power \in 0..MaxPwm
  PROVE  /\ PulseOf(power) = 255 - MaxPwm - power
         /\ PauseAfter(power) = 255 - MaxPwm + power
         /\ PulseOf(power) \in 0..255
         /\ PauseAfter(power) \in 1..255
<1>1. MaxPwm \in 0..127
  BY MotorsAssumption
<1>2. 255 - MaxPwm - power \in 0..255 /\ 255 - (MaxPwm - power) \in 1..255
  BY <1>1
<1>3. \A n \in 0..255 : n % 256 = n
  OBVIOUS
<1> QED BY <1>1, <1>2, <1>3 DEF PulseOf, PauseAfter

LEMMA InitIInv == Init => IInv
<1> SUFFICES ASSUME Init PROVE IInv
  OBVIOUS
<1>1. MaxPwm \in 0..127
  BY MotorsAssumption
<1> QED BY <1>1 DEF Init, IInv, TypeOK, OnePulse, ConstantFrame, PartlyWritten, Written, Off,
              Motors

\* motors_set_pwm is called.
LEMMA SetPwmIInv == IInv /\ SetPwm => IInv'
<1> SUFFICES ASSUME IInv, SetPwm PROVE IInv'
  OBVIOUS
<1> USE DEF IInv
<1>1. order' \in [Motors -> 0..MaxPwm]
  <2>1. PICK packet \in Packets : order' = [m \in Motors |-> Scale(packet[m])]
    BY DEF SetPwm
  <2>2. \A m \in Motors : packet[m] \in 0..255
    BY MotorsAssumption
  <2> QED BY <2>1, <2>2, ScaleInRange
<1>2. TypeOK'
  BY <1>1 DEF SetPwm, TypeOK
<1>3. OnePulse' /\ ConstantFrame'
  BY DEF SetPwm, OnePulse, ConstantFrame
<1>4. PartlyWritten'
  BY DEF SetPwm, PartlyWritten, Written, Motors
<1> QED BY <1>2, <1>3, <1>4

\* A bit of motors_pwm_on_bits is written.
LEMMA WriteOnBitIInv == IInv /\ WriteOnBit => IInv'
<1> SUFFICES ASSUME IInv, WriteOnBit PROVE IInv'
  OBVIOUS
<1> USE DEF IInv
<1>1. PICK k \in Motors : k = step \div 2 /\ step = 2 * k + 1 /\ step' = 2 * k + 2
  BY DEF WriteOnBit, Motors
<1>2. onBits' = IF order[k] > 0 THEN onBits \cup {k} ELSE onBits \ {k}
  BY <1>1 DEF WriteOnBit, OnBit
<1>3. TypeOK'
  <2>1. step' \in 0..8 /\ onBits' \subseteq Motors
    BY <1>1, <1>2 DEF TypeOK, Motors
  <2> QED BY <2>1 DEF WriteOnBit, TypeOK
<1>4. OnePulse' /\ ConstantFrame'
  BY DEF WriteOnBit, OnePulse, ConstantFrame
<1>5. PartlyWritten'
  <2> SUFFICES ASSUME NEW m \in Motors
               PROVE  /\ pwm[m] = IF Written(m, 2)' THEN order[m] ELSE given[m]
                      /\ m \in onBits' <=> IF Written(m, 1)' THEN order[m] > 0
                                           ELSE given[m] > 0
    BY <1>1 DEF PartlyWritten, WriteOnBit, Written, Motors
  <2>1. /\ Written(m, 2) <=> k > m
        /\ Written(m, 1) <=> k > m
    BY <1>1 DEF Written, Motors
  <2>2. /\ Written(m, 2)' <=> k > m
        /\ Written(m, 1)' <=> k >= m
    BY <1>1 DEF Written, Motors
  <2>3. pwm[m] = IF k > m THEN order[m] ELSE given[m]
    BY <2>1 DEF PartlyWritten
  <2>4. m \in onBits <=> IF k > m THEN order[m] > 0 ELSE given[m] > 0
    BY <2>1 DEF PartlyWritten
  <2>5. m \in onBits' <=> IF k >= m THEN order[m] > 0 ELSE given[m] > 0
    <3>1. CASE m = k
      BY <3>1, <1>1, <1>2 DEF Motors
    <3>2. CASE m # k
      <4>1. k >= m <=> k > m
        BY <3>2, <1>1 DEF Motors
      <4>2. m \in onBits' <=> m \in onBits
        BY <3>2, <1>2
      <4> QED BY <4>1, <4>2, <2>4
    <3> QED BY <3>1, <3>2
  <2> QED BY <2>2, <2>3, <2>5
<1> QED BY <1>3, <1>4, <1>5

\* A byte of motors_pwm is written, the last one before the call returns.
LEMMA WritePwmIInv == IInv /\ WritePwm => IInv'
<1> SUFFICES ASSUME IInv, WritePwm PROVE IInv'
  OBVIOUS
<1> USE DEF IInv
<1>1. PICK k \in Motors : k = step \div 2 - 1 /\ step = 2 * k + 2
  BY DEF WritePwm, Motors
<1>2. pwm' = [pwm EXCEPT ![k] = order[k]]
  BY <1>1 DEF WritePwm
<1>3. TypeOK'
  BY <1>1, <1>2 DEF WritePwm, TypeOK, Motors
<1>4. OnePulse' /\ ConstantFrame'
  BY DEF WritePwm, OnePulse, ConstantFrame
<1>5. PartlyWritten'
  <2>1. CASE step = 8
    <3>1. step' = 0 /\ given' = order /\ UNCHANGED <<order, onBits>> /\ k = 3
      BY <2>1, <1>1 DEF WritePwm, Motors
    <3>2. \A m \in Motors : Written(m, 1) /\ (m # k => Written(m, 2))
      BY <2>1, <1>1 DEF Written, Motors
    <3>3. \A m \in Motors : pwm'[m] = order[m] /\ (m \in onBits <=> order[m] > 0)
      BY <1>1, <1>2, <3>2 DEF PartlyWritten, TypeOK
    <3> QED BY <3>1, <3>3 DEF PartlyWritten
  <2>2. CASE step # 8
    <3>1. step' = 2 * k + 3 /\ UNCHANGED <<order, given, onBits>>
      BY <2>2, <1>1 DEF WritePwm, Motors
    <3>2. \A m \in Motors : /\ Written(m, 1) <=> Written(m, 1)'
                            /\ m # k => (Written(m, 2) <=> Written(m, 2)')
      BY <1>1, <3>1 DEF Written, Motors
    <3>3. Written(k, 2)' /\ step' # 0
      BY <1>1, <3>1 DEF Written, Motors
    <3>4. \A m \in Motors : pwm'[m] = IF m = k THEN order[m] ELSE pwm[m]
      BY <1>1, <1>2 DEF TypeOK
    <3> SUFFICES ASSUME NEW m \in Motors
                 PROVE  /\ pwm'[m] = IF Written(m, 2)' THEN order[m] ELSE given[m]
                        /\ m \in onBits <=> IF Written(m, 1)' THEN order[m] > 0
                                            ELSE given[m] > 0
      BY <3>1, <3>3 DEF PartlyWritten
    <3>5. pwm'[m] = IF Written(m, 2)' THEN order[m] ELSE given[m]
      BY <3>2, <3>3, <3>4 DEF PartlyWritten
    <3> QED BY <3>2, <3>5 DEF PartlyWritten
  <2> QED BY <2>1, <2>2
<1> QED BY <1>3, <1>4, <1>5

\* The interrupt: the end of a pulse.
LEMMA PauseIInv == IInv /\ Pause => IInv'
<1> SUFFICES ASSUME IInv, Pause PROVE IInv'
  OBVIOUS
<1> USE DEF IInv
<1>1. lat' = {}
  BY DEF Pause, OnePulse
<1>2. TypeOK'
  <2>1. current' \in Motors
    BY DEF Pause, NextMotor, TypeOK, Motors
  <2> QED BY <1>1, <2>1 DEF Pause, TypeOK
<1>3. OnePulse' /\ ConstantFrame'
  BY <1>1 DEF Pause, OnePulse, ConstantFrame
<1>4. PartlyWritten'
  BY DEF Pause, PartlyWritten, Written
<1> QED BY <1>2, <1>3, <1>4

\* The interrupt: the beginning of a frame.
LEMMA PulseIInv == IInv /\ Pulse => IInv'
<1> SUFFICES ASSUME IInv, Pulse PROVE IInv'
  OBVIOUS
<1> USE DEF IInv
<1>1. pwm[current] \in 0..MaxPwm
  BY DEF TypeOK
<1>2. /\ timer' = 255 - MaxPwm - pwm[current] /\ timer' \in 0..255
      /\ off' = 255 - MaxPwm + pwm[current] /\ off' \in 1..255
  BY <1>1, TimerValues DEF Pulse
<1>3. lat' \subseteq {current}
  BY DEF Pulse, OnePulse
<1>4. TypeOK'
  BY <1>2, <1>3 DEF Pulse, TypeOK
<1>5. OnePulse'
  BY <1>2, <1>3 DEF Pulse, OnePulse
<1>6. ConstantFrame'
  <2>1. MaxPwm \in 0..127
    BY MotorsAssumption
  <2> QED BY <1>1, <1>2, <2>1 DEF ConstantFrame
<1>7. PartlyWritten'
  BY DEF Pulse, PartlyWritten, Written
<1> QED BY <1>4, <1>5, <1>6, <1>7

LEMMA NextIInv == IInv /\ [Next]_vars => IInv'
<1> SUFFICES ASSUME IInv, [Next]_vars PROVE IInv'
  OBVIOUS
<1>1. CASE SetPwm
  BY <1>1, SetPwmIInv
<1>2. CASE WriteOnBit
  BY <1>2, WriteOnBitIInv
<1>3. CASE WritePwm
  BY <1>3, WritePwmIInv
<1>4. CASE MotorsIsr
  BY <1>4, PauseIInv, PulseIInv DEF MotorsIsr
<1>5. CASE UNCHANGED vars
  BY <1>5 DEF vars, IInv, TypeOK, OnePulse, ConstantFrame, PartlyWritten, Written
<1> QED BY <1>1, <1>2, <1>3, <1>4, <1>5 DEF Next

LEMMA AlwaysIInv == Spec => []IInv
<1> QED BY InitIInv, NextIInv, PTL DEF Spec

\* The values of bytes fit their bytes, those of the timer included.
THEOREM SpecTypeOK == Spec => []TypeOK
<1>1. IInv => TypeOK
  BY DEF IInv
<1> QED BY <1>1, AlwaysIInv, PTL

\* One motor at a time has a pulse, and the next interrupt ends it.
THEOREM SpecOnePulse == Spec => []OnePulse
<1>1. IInv => OnePulse
  BY DEF IInv
<1> QED BY <1>1, AlwaysIInv, PTL

\* Every frame takes twice MOTORS_MAX_PWM + 1 ticks of the timer.
THEOREM SpecConstantFrame == Spec => []ConstantFrame
<1>1. IInv => ConstantFrame
  BY DEF IInv
<1> QED BY <1>1, AlwaysIInv, PTL

\* A pulse is of the last order or of the one that is being written.
THEOREM SpecPulseOfAnOrder == Spec => PulseOfAnOrder
<1> DEFINE Fits ==
      \A m \in lat' \ lat :
        /\ 256 - timer' \in {MaxPwm + 1 + given[m], MaxPwm + 1 + order[m]}
        /\ given[m] > 0 \/ order[m] > 0
<1>1. IInv /\ [Next]_vars => [Fits]_vars
  <2> SUFFICES ASSUME IInv, Next, NEW m \in lat' \ lat
               PROVE  /\ 256 - timer' \in {MaxPwm + 1 + given[m], MaxPwm + 1 + order[m]}
                      /\ given[m] > 0 \/ order[m] > 0
    OBVIOUS
  <2>1. Pulse
    BY DEF Next, SetPwm, WriteOnBit, WritePwm, MotorsIsr, Pause
  <2>2. m = current /\ m \in onBits /\ m \in Motors
    BY <2>1 DEF Pulse, IInv, TypeOK
  <2>3. /\ pwm[m] \in {given[m], order[m]} /\ pwm[m] \in 0..MaxPwm
        /\ given[m] > 0 \/ order[m] > 0
    BY <2>2 DEF IInv, PartlyWritten, TypeOK
  <2>4. timer' = 255 - MaxPwm - pwm[m]
    BY <2>1, <2>2, <2>3, TimerValues DEF Pulse
  <2>5. MaxPwm \in 0..127
    BY MotorsAssumption
  <2>6. 256 - timer' = MaxPwm + 1 + pwm[m]
    BY <2>3, <2>4, <2>5
  <2> QED BY <2>3, <2>6
<1>2. Spec => [][Fits]_vars
  BY <1>1, AlwaysIInv, PTL DEF Spec
<1> QED BY <1>2 DEF PulseOfAnOrder
=============================================================================
