--------------------------- MODULE MCJoystickPath ---------------------------
(* An instance of JoystickPath for TLC: one command has no seq, another has  *)
(* one but does not deserialize.                                            *)
EXTENDS JoystickPath

TwoLinks == {"local", "vps"}
Second   == {2}
Third    == {3}
=============================================================================
