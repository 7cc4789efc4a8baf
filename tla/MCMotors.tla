------------------------------ MODULE MCMotors ------------------------------
\* Motors with the lowest, the highest and one more power, the same for two of
\* the motors.
EXTENDS Motors

MCPackets == {p \in [Motors -> {0, 128, 255}] : p[0] = p[3]}
=============================================================================
