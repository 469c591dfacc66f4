----------------------------- MODULE MCDiffTime -----------------------------
(***************************************************************************)
(* Waits that start on a full second, just before and after one and in     *)
(* between, and last up to two and a half seconds, with steps that are no  *)
(* whole number of milliseconds; the clock may be set back and forward     *)
(* meanwhile, as often as one likes.                                       *)
(***************************************************************************)
EXTENDS DiffTime

MCStartTimes == {1000000, 1000001, 1450999, 1999999}
MCSteps      == {125300, 499999, 1000000}
MCSetSeconds == {0, 2}
=============================================================================
