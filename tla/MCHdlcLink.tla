----------------------------- MODULE MCHdlcLink -----------------------------
(* Values for checking HdlcLink with TLC. *)
EXTENDS HdlcLink

K(frames, parts, flagged) == [frames |-> frames, parts |-> parts, flagged |-> flagged]

MCKinds == {K(1, 1, FALSE), K(2, 1, FALSE), K(1, 2, FALSE), K(1, 3, TRUE)}
=============================================================================
