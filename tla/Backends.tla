------------------------------- MODULE Backends -------------------------------
(***************************************************************************)
(* drive/backends/: what the hardware is given for a speed.  A speed is an *)
(* integer in -Full..Full that stands for speed / Full; duty cycles of     *)
(* gpio_pwm are percent, those of pca9685 16-bit values.                   *)
(***************************************************************************)
EXTENDS Integers

CONSTANT Full  \* speed 1.0

Size(n) == IF n < 0 THEN -n ELSE n
Within(n, low, high) == IF n < low THEN low ELSE IF n > high THEN high ELSE n

-----------------------------------------------------------------------------
(* gpio_pwm: a direction pin and a duty cycle per channel *)

Direction(speed) == IF speed >= 0 THEN "HIGH" ELSE "LOW"

\* Faulty variant: no dead band, the least duty cycle also at rest.
GpioDutyNoDeadBand(speed, minDuty, maxDuty) ==
    Within((Size(speed) * (maxDuty - minDuty)) \div Full + minDuty, 0, 100)

\* abs(speed) < 0.01 is off, whatever min_duty says.
GpioDuty(speed, minDuty, maxDuty) ==
    IF 100 * Size(speed) < Full THEN 0
    ELSE Within((Size(speed) * (maxDuty - minDuty)) \div Full + minDuty, 0, 100)

-----------------------------------------------------------------------------
(* pca9685: a pulse in microseconds, then a share of the period *)

\* Both halves of the range are scaled separately; int() cuts the sum, which is
\* positive, downwards.
SpeedToPulse(speed, minPulse, centerPulse, maxPulse) ==
    centerPulse + (IF speed >= 0 THEN speed * (maxPulse - centerPulse)
                                 ELSE speed * (centerPulse - minPulse)) \div Full

PulseToDuty(pulse, period) == (pulse * 65535) \div period

\* stop() writes the centre; set_speeds writes this for a speed.
PcaDuty(speed, minPulse, centerPulse, maxPulse, period) ==
    PulseToDuty(SpeedToPulse(speed, minPulse, centerPulse, maxPulse), period)

PcaStop(centerPulse, period) == PulseToDuty(centerPulse, period)
=============================================================================
