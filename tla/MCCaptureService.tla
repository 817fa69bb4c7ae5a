-------------------------- MODULE MCCaptureService --------------------------
(***************************************************************************)
(* CaptureService for TLC.  The environment flags are given by each .cfg.  *)
(***************************************************************************)
EXTENDS CaptureService
=============================================================================
