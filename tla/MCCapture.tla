----------------------------- MODULE MCCapture -----------------------------
(* CaptureService for TLC: the constant is all the configuration sets.      *)
EXTENDS CaptureService
=============================================================================
