SPECIFICATION FairSpec
CONSTANTS
  MaxPwm = 94
  Packets <- MCPackets
INVARIANTS OnePulse ConstantFrame
PROPERTIES PulseOfAnOrder Pulses
