---------------------------- MODULE MCCameraNode ----------------------------
(* Instances of CameraNode for TLC. *)
EXTENDS CameraNode
=============================================================================
