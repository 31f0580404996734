-------------------------- MODULE MCCaptureReadiness --------------------------
(* A small instance of CaptureReadiness for TLC.                             *)
EXTENDS CaptureReadiness

CONSTANTS c1

OneCallback == {c1}
=============================================================================
