--------------------------- MODULE MCOpticalPort ---------------------------
(* For checking OpticalPort with TLC: see MCOpticalPort.cfg. *)
EXTENDS OpticalPort
=============================================================================
