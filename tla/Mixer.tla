-------------------------------- MODULE Mixer --------------------------------
(***************************************************************************)
(* drive/mixer.py and DriveNode._compute_mix, on integers: 1.0 is Full.    *)
(* Floating-point rounding is not modelled; the division that preserves    *)
(* the ratio of the two channels is rounded toward zero.                   *)
(***************************************************************************)
EXTENDS Integers

CONSTANT Full

Abs(n) == IF n < 0 THEN -n ELSE n
Larger(a, b) == IF a > b THEN a ELSE b
Clamp(n) == IF n > Full THEN Full ELSE IF n < -Full THEN -Full ELSE n

\* num / den for den > 0, rounded toward zero.
Quotient(num, den) == IF num < 0 THEN -((-num) \div den) ELSE num \div den

\* arcade_mix, given steer * steer_sensitivity.
ArcadeMix(speed, steer) ==
    LET left   == speed + steer
        right  == speed - steer
        maxVal == Larger(Larger(Abs(left), Abs(right)), Full)
    IN  [left  |-> Clamp(Quotient(left * Full, maxVal)),
         right |-> Clamp(Quotient(right * Full, maxVal))]

\* tank_mix: 0 is full reverse, half of Full is stop, Full is full forward.
TankMix(leftThrottle, rightThrottle) ==
    [left  |-> Clamp(2 * leftThrottle - Full),
     right |-> Clamp(2 * rightThrottle - Full)]

\* _compute_mix: an axis missing from the message reads as 0, before the
\* inversion and the scaling of the configuration; tank axes are unipolar.
Axis(axes, name) == IF name \in DOMAIN axes THEN axes[name] ELSE 0

Scale(n, factor) == Quotient(n * factor, Full)

ArcadeCommand(axes, cfg) ==
    LET speed == Axis(axes, "speed")
        steer == Axis(axes, "steer")
    IN  ArcadeMix(Scale(IF cfg.invertSpeed THEN -speed ELSE speed, cfg.maxSpeed),
                  Scale(IF cfg.invertSteer THEN -steer ELSE steer,
                        cfg.sensitivity))

TankCommand(axes, cfg) ==
    LET left  == Axis(axes, "left")
        right == Axis(axes, "right")
    IN  TankMix(IF cfg.invertLeft THEN Full - left ELSE left,
                IF cfg.invertRight THEN Full - right ELSE right)
=============================================================================
