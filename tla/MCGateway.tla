----------------------------- MODULE MCGateway -----------------------------
(***************************************************************************)
(* Small instances of Gateway: one request of each kind the loop tells     *)
(* apart, and one frame of each kind the convertor tells apart.            *)
(***************************************************************************)
EXTENDS Gateway

(* The all-zero mailbox has APDU tag 0 and address length 0.  A request of *)
(* another kind with a good address goes the way of an RLRQ, flag aside;   *)
(* MeterLink has them.                                                     *)
MCZeroRequest == [id |-> 0, kind |-> "OTHER", addr |-> "length"]
MCRequests ==
    {MCZeroRequest,
     [id |-> 1, kind |-> "AARQ", addr |-> "good"],
     [id |-> 2, kind |-> "AARQ", addr |-> "logical"],
     [id |-> 3, kind |-> "RLRQ", addr |-> "good"]}

MCOctets == [llc |-> TRUE]
HF(start, seg, valid) ==
    [start |-> start, seg |-> seg, valid |-> valid, data |-> MCOctets]
MCZeroFrame == HF(FALSE, FALSE, FALSE)
(* a segment that fails the later tests comes in MeterLink *)
MCFrames == {MCZeroFrame, HF(TRUE, TRUE, TRUE), HF(TRUE, FALSE, TRUE), HF(TRUE, FALSE, FALSE)}
MCData   == {MCOctets}

(* RRR and SSS of the stack: an octet over the largest number *)
MCStackSeq == {200}
=============================================================================
