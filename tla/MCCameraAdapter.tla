--------------------------- MODULE MCCameraAdapter ---------------------------
(* Instances of CameraAdapter for TLC; the .cfg files give the values. *)
EXTENDS CameraAdapter
=============================================================================
