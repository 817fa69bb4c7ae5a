-------------------------- MODULE MCCameraSettings --------------------------
(***************************************************************************)
(* CameraSettings for TLC, with two settings.                              *)
(***************************************************************************)
EXTENDS CameraSettings

SomeSettings == <<"gain", "offset">>
=============================================================================
