----------------------------- MODULE MCDriveNode -----------------------------
(* Instances of DriveNode for TLC; the commands are mixed by Mixer. *)
EXTENDS DriveNode

M == INSTANCE Mixer

MCWheels == {"left", "right"}

\* One driver that lets errors through and one that swallows them; serial_plc
\* treats them as pca9685 does.
MCDrivers == {"gpio_pwm", "pca9685"}

\* A turn on the spot at full speed, one wheel forwards and one backwards.
MCAxes == [spin |-> [speed |-> 0, steer |-> Full]]
MCConfig == [invertSpeed |-> FALSE, invertSteer |-> FALSE,
             maxSpeed |-> Full, sensitivity |-> Full]
MCJoysticks == DOMAIN MCAxes
MCMix == [j \in MCJoysticks |-> M!ArcadeCommand(MCAxes[j], MCConfig)]

\* An axes object of another shape, as tests/test_local_mode_contract.py sends.
MCMalformed == {"numericAxes"}
=============================================================================
