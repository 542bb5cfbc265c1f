-------------------------- MODULE MCCaptureSession --------------------------
(* Small instances of CaptureSession for TLC. *)
EXTENDS CaptureSession
=============================================================================
