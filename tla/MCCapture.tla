------------------------------ MODULE MCCapture ------------------------------
(***************************************************************************)
(* An instance of Capture: a few turns, a buffer that soon is full.        *)
(***************************************************************************)
EXTENDS Capture
=============================================================================
