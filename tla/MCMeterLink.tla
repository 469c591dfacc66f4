---------------------------- MODULE MCMeterLink ----------------------------
(***************************************************************************)
(* Scenarios for MeterLink: associations, requests and releases; answers   *)
(* of one or three frames.                                                 *)
(***************************************************************************)
EXTENDS MeterLink

Req(id, kind, addr) == [id |-> id, kind |-> kind, addr |-> addr]

MCZeroRequest == Req(0, "OTHER", "length")
MCZeroFrame   == [start |-> FALSE, seg |-> FALSE, valid |-> FALSE, data |-> NoPayload]
MCStackSeq    == {0}
AnyStackSeq   == {5}

Open    == Req(1, "AARQ", "good")
Get     == Req(2, "OTHER", "good")
GetMore == Req(3, "OTHER", "good")
Close   == Req(4, "RLRQ", "good")
Far     == Req(5, "AARQ", "logical")

MCRequests == {MCZeroRequest, Open, Get, GetMore, Close, Far}

LastLong == [id \in 1..5 |-> CASE id = 3 -> 3 [] OTHER -> 1]
OneEach  == [id \in 1..5 |-> 1]

AllFaults == {"loss", "damage", "split", "error", "late", "slow", "rude"}

Scenario(script, segments, possible) ==
    [script |-> script, segments |-> segments, faults |-> possible]

(* a session on a good line; a second association on a line that loses     *)
(* frames; anything that can go wrong                                      *)
Session == Scenario(<<Far, Open, GetMore, Get, Close>>, LastLong, {})
Reopen  == Scenario(<<Open, Get, Close, Open, Get>>, OneEach, {"loss"})
Rough   == Scenario(<<Open, GetMore>>, LastLong, AllFaults)

MCScenarios     == {Session, Reopen, Rough}
StaleScenarios  == {Scenario(<<Open, GetMore, Get>>, LastLong, {"loss"})}
DamageScenarios == {Scenario(<<Open, Get>>, OneEach, {"damage"})}

MCData   == [id : 0..5, seg : 0..3, ok : BOOLEAN, llc : BOOLEAN]
MCFrames == [start : {TRUE}, seg : BOOLEAN, valid : BOOLEAN, data : MCData]
            \cup {MCZeroFrame}
=============================================================================
