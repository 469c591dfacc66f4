----------------------------- MODULE MeterLink -----------------------------
(***************************************************************************)
(* The gateway thread between a meter and a management centre (MDM): the   *)
(* environment of Gateway is replaced by the two RS-485 threads, the       *)
(* half-duplex line with its faults, an HDLC meter, and an MDM that sends  *)
(* a script of requests.  The meter, the line and the MDM are not code of  *)
(* this repository: they are what GW_Run is written to talk to.            *)
(*                                                                         *)
(* The faults:                                                             *)
(*   "loss"    a frame on the line is lost                                 *)
(*   "damage"  the payload of an answer is changed (the FCS would tell)    *)
(*   "split"   read() returns a frame in two pieces (VMIN is 1)            *)
(*   "error"   read() fails                                                *)
(*   "late"    an answer may come after the time-out                       *)
(*   "slow"    the meter may answer before RS485_Send_Thread, which goes   *)
(*             on to log the frame, has set TX_Count to 0                  *)
(*   "rude"    the MDM does not wait for the end of its last request       *)
(*                                                                         *)
(* A scenario names the requests the MDM sends, the number of HDLC frames  *)
(* each answer takes, and which of the faults may happen.                  *)
(***************************************************************************)
EXTENDS Gateway

CONSTANTS
    Scenarios,  \* records of a script, a function segments of the identity
                \* of a request, and a set of faults
    MaxScript,  \* length of the longest script
    MaxFaults   \* bound: frames lost, damaged or split and reads failed

ASSUME LinkBoundAssumption == MaxFaults \in Nat /\ MaxScript \in Nat
ASSUME ScenarioAssumption == \A sc \in Scenarios :
    /\ sc.faults \subseteq {"loss", "damage", "split", "error", "late", "slow", "rude"}
    /\ sc.script \in Seq(Requests) /\ Len(sc.script) <= MaxScript
    /\ \A n \in 1..Len(sc.script) : sc.segments[sc.script[n].id] \in Nat \ {0}

VARIABLES
    scenario,    \* the one of this behaviour
    sent,        \* requests the MDM has sent
    lineSnd,     \* RS485_Send_Thread: "idle", or "written" before TX_Count = 0
    toMeter,     \* frames on the line to the meter
    toGateway,   \* what read() will return, frame by frame
    faults,      \* frames lost, damaged or split and reads failed so far
    meter        \* the meter's connection, numbers and unacknowledged frames

linkVars == <<scenario, sent, lineSnd, toMeter, toGateway, faults, meter>>
allVars  == <<vars, linkVars>>

Script   == scenario.script
Segments == scenario.segments
Faults   == scenario.faults

-----------------------------------------------------------------------------
(* Frames of the meter *)

NoPayload == [id |-> 0, seg |-> 0, ok |-> TRUE, llc |-> FALSE]
Bare      == [start |-> TRUE, seg |-> FALSE, valid |-> FALSE, data |-> NoPayload]

(* a station that keeps to the protocol counts modulo MaxSeq + 1 *)
Succ(n) == (n + 1) % (MaxSeq + 1)

(* the LLC header is at the head of an answer, not of each of its segments *)
Payload(id, k)     == [id |-> id, seg |-> k, ok |-> TRUE, llc |-> k = 1]
FrameOf(n, id, k)  == [start |-> TRUE, seg |-> k < n, valid |-> TRUE,
                       data |-> Payload(id, k)]
AnswerFrame(id, k) == FrameOf(Segments[id], id, k)
AnswerFrames(id)   == [k \in 1..Segments[id] |-> AnswerFrame(id, k)]

(* the two pieces of a frame: the first has no end flag, the second no start *)
FirstPiece(f) == [f EXCEPT !.valid = FALSE]
SecondPiece   == ZeroFrame
Damaged(f)    == [f EXCEPT !.data.ok = FALSE]

(* Frames holds whatever the meter may send and read() may make of it *)
ASSUME MeterAssumption ==
    /\ Bare \in Frames
    /\ \A f \in Frames : FirstPiece(f) \in Frames /\ (f.valid => Damaged(f) \in Frames)
    /\ \A sc \in Scenarios, r \in Requests : r.addr = "good" =>
          /\ sc.segments[r.id] \in Nat \ {0}
          /\ \A k \in 1..sc.segments[r.id] : FrameOf(sc.segments[r.id], r.id, k) \in Frames

Fault(kind) == kind \in Faults /\ faults < MaxFaults /\ faults' = faults + 1

-----------------------------------------------------------------------------
LinkInit ==
    /\ Init
    /\ scenario \in Scenarios
    /\ sent = 0
    /\ lineSnd = "idle"
    /\ toMeter = <<>> /\ toGateway = <<>>
    /\ faults = 0
    /\ meter = [connected |-> FALSE, vr |-> 0, vs |-> 0, unacked |-> <<>>]

QuietLine == /\ toMeter = <<>> /\ toGateway = <<>> /\ hdlcTX = None
             /\ lineRcv = "idle" /\ lineSnd = "idle" /\ hdlcRX_Count = 0

Awaited == GW_State \in {"SNRM_RESPONSE", "RESPONSE", "DISC_RESPONSE"}

(* the gateway thread and its clock *)
GatewayStep == GW_Run /\ UNCHANGED linkVars

(* Unless "late", time runs out only when no answer can come any more; the *)
(* segments of an answer then all come within the one time-out they have.  *)
ExpireStep ==
    /\ \/ "late" \in Faults
       \/ Awaited /\ QuietLine
    /\ Expire
    /\ UNCHANGED linkVars

(* the MDM, through the socket threads *)
MdmSend ==
    /\ sent < Len(Script)
    /\ \/ "rude" \in Faults
       \/ /\ GW_State = "WAIT_FOR_GET_FRAME"
          /\ gwRX_Count = 0 /\ gwTX = None
    /\ MdmCopy(Script[sent + 1])
    /\ sent' = sent + 1
    /\ UNCHANGED <<scenario, lineSnd, toMeter, toGateway, faults, meter>>

MdmStep == (MdmCount \/ MdmSent) /\ UNCHANGED linkVars

(* RS485_Send_Thread: write(), and after the logging TX_Count = 0 *)
LineWrite ==
    /\ Running /\ lineSnd = "idle" /\ hdlcTX # None
    /\ lineSnd' = "written"
    /\ \/ toMeter' = Append(toMeter, hdlcTX) /\ UNCHANGED faults
       \/ Fault("loss") /\ UNCHANGED toMeter
    /\ UNCHANGED <<vars, scenario, sent, toGateway, meter>>

LineWritten ==
    /\ lineSnd = "written"
    /\ LineSent
    /\ lineSnd' = "idle"
    /\ UNCHANGED <<scenario, sent, toMeter, toGateway, faults, meter>>

(* RS485_Receive_Thread *)
LineRead ==
    /\ toGateway # <<>>
    /\ LET f == Head(toGateway)
       IN  \/ /\ LineCopy(f)
              /\ toGateway' = Tail(toGateway)
              /\ UNCHANGED faults
           \/ /\ f.start /\ Fault("split")
              /\ LineCopy(FirstPiece(f))
              /\ toGateway' = <<SecondPiece>> \o Tail(toGateway)
    /\ UNCHANGED <<scenario, sent, lineSnd, toMeter, meter>>

LineCounted == LineCount /\ UNCHANGED linkVars

LineFailed ==
    /\ Fault("error")
    /\ LineError
    /\ UNCHANGED <<scenario, sent, lineSnd, toMeter, toGateway, meter>>

-----------------------------------------------------------------------------
(* The meter: an HDLC secondary station with a window of one frame *)

Reply1(f) ==
    \/ toGateway' = Append(toGateway, f) /\ UNCHANGED faults
    \/ Fault("loss") /\ UNCHANGED toGateway
    \/ f.valid /\ Fault("damage") /\ toGateway' = Append(toGateway, Damaged(f))

MeterConnect(f) ==
    /\ f.type = "SNRM"
    /\ meter' = [connected |-> TRUE, vr |-> 0, vs |-> 0, unacked |-> <<>>]
    /\ Reply1(Bare)

MeterDisconnect(f) ==
    /\ f.type = "DISC"
    /\ meter' = [meter EXCEPT !.connected = FALSE, !.unacked = <<>>]
    /\ Reply1(Bare)

(* an I-frame in sequence is answered, one out of sequence is not *)
MeterAnswer(f) ==
    /\ f.type = "I" /\ meter.connected /\ f.ns = meter.vr
    /\ meter' = [meter EXCEPT !.vr = Succ(meter.vr), !.vs = Succ(meter.vs),
                              !.unacked = AnswerFrames(f.req.id)]
    /\ Reply1(AnswerFrame(f.req.id, 1))

(* RR asks for the next segment, or for the last one again *)
MeterNextSegment(f) ==
    /\ f.type = "RR" /\ meter.connected /\ Len(meter.unacked) > 0
    /\ IF f.nr = meter.vs /\ Len(meter.unacked) > 1
       THEN /\ meter' = [meter EXCEPT !.vs = Succ(meter.vs),
                                      !.unacked = Tail(meter.unacked)]
            /\ Reply1(meter.unacked[2])
       ELSE /\ Reply1(Head(meter.unacked))
            /\ UNCHANGED meter

MeterRefuse(f) ==
    /\ \/ f.type \in {"I", "RR"} /\ ~meter.connected
       \/ f.type = "I" /\ meter.connected /\ f.ns # meter.vr
       \/ f.type = "RR" /\ meter.connected /\ meter.unacked = <<>>
    /\ Reply1(Bare)
    /\ UNCHANGED meter

MeterStep ==
    /\ toMeter # <<>>
    /\ "slow" \in Faults \/ lineSnd = "idle"
    /\ toMeter' = Tail(toMeter)
    /\ LET f == Head(toMeter)
       IN  \/ MeterConnect(f) \/ MeterDisconnect(f) \/ MeterAnswer(f)
           \/ MeterNextSegment(f) \/ MeterRefuse(f)
    /\ UNCHANGED <<vars, scenario, sent, lineSnd>>

-----------------------------------------------------------------------------
LinkNext ==
    \/ GatewayStep \/ ExpireStep
    \/ MdmSend \/ MdmStep
    \/ LineWrite \/ LineWritten \/ LineRead \/ LineCounted \/ LineFailed
    \/ MeterStep

(* Every thread runs again and again, and so does the meter. *)
Fairness ==
    /\ WF_allVars(GatewayStep) /\ WF_allVars(ExpireStep)
    /\ WF_allVars(MdmStep)
    /\ WF_allVars(LineWrite) /\ WF_allVars(LineWritten)
    /\ WF_allVars(LineRead) /\ WF_allVars(LineCounted)
    /\ WF_allVars(MeterStep)

LinkSpec     == LinkInit /\ [][LinkNext]_allVars
FairLinkSpec == LinkSpec /\ Fairness /\ WF_allVars(MdmSend)

-----------------------------------------------------------------------------
(* Properties *)

(* The script asks for nothing, or releases nothing, that takes the meter  *)
(* more than one frame to answer.                                          *)
OneFrameEach    == \A n \in 1..Len(Script) : Segments[Script[n].id] = 1
OneFrameRelease == \A n \in 1..Len(Script) :
                       Script[n].kind = "RLRQ" => Segments[Script[n].id] = 1

(* the answer to request id as the MDM is given it *)
PassedOn(a, id) ==
    /\ a.data = [k \in 1..Segments[id] |-> [of |-> Payload(id, k), whole |-> k = 1]]
    /\ a.cut <=> Segments[id] > 1

(* Without faults, an answer left for the MDM is made of the meter's       *)
(* answer to the request it is given for, segment by segment: every one,   *)
(* once, in order.  One of several segments is not all of it, though: the  *)
(* convertor takes three octets away at the head of each later segment,    *)
(* where it expects an LLC header again, and three at the end.             *)
(* The segments of an answer to a release that follow the first are cut    *)
(* off by the DISC, and what came of them is put before the next answer.   *)
AnswerInOrder ==
    Faults = {} /\ OneFrameRelease /\ gwTX # None => PassedOn(gwTX, gwTX.for.id)

(* Nor does the loss of frames, however many, bring the MDM anything but   *)
(* the answer to the request it is given for: it is a conversion of the    *)
(* HDLC frame that answers that request                                    *)
(* (DLMS_Gateway.c: "Converting HDLC frame to GW Frame").  Segments that   *)
(* arrived before a loss are another matter: nothing clears them.          *)
AnswerIsOwn ==
    Faults \subseteq {"loss"} /\ OneFrameEach /\ gwTX # None =>
        PassedOn(gwTX, gwTX.for.id)

(* The MDM is given all the octets of an answer                            *)
(* (DLMS_Gateway.c: "Converting HDLC frame to GW Frame").                  *)
AnswerIsWhole ==
    Faults = {} /\ gwTX # None =>
        ~gwTX.cut /\ \A k \in 1..Len(gwTX.data) : gwTX.data[k].whole

(* A payload whose FCS is wrong is not passed on to the MDM                *)
(* (DLMS_Gateway.c: "Meter2GW_Frame_Convertor: Error - FCS is wrong").     *)
DamageIsCaught ==
    gwTX # None => \A k \in 1..Len(gwTX.data) : gwTX.data[k].of.ok

(* Without faults the two stations agree on both sequence numbers between  *)
(* exchanges.                                                              *)
InStep ==
    Faults = {} /\ GW_State = "WAIT_FOR_GET_FRAME" /\ meter.connected
        => RRR = meter.vs /\ SSS = meter.vr

(* Whatever frames were lost before, the I-frame that carries an AARQ      *)
(* finds the meter connected and both sequence numbers reset.              *)
FreshAssociation ==
    Faults \subseteq {"loss"} /\ GW_State = "INFORMATION_FRAME"
            /\ GW_tmp.req.kind = "AARQ"
        => /\ meter.connected /\ meter.unacked = <<>>
           /\ RRR = meter.vs /\ SSS = meter.vr

(* Whatever goes wrong, each exchange ends and the gateway waits for the   *)
(* MDM again, unless it converts a frame without a start flag for ever or  *)
(* copies as an answer what a failed read() has counted.                   *)
Recovers ==
    GW_State # "WAIT_FOR_GET_FRAME"
        ~> (GW_State = "WAIT_FOR_GET_FRAME" \/ Stuck \/ ~Running)

(* Without faults every request with a good address is answered before the *)
(* next one is sent.                                                       *)
Asked(n)    == /\ Faults = {} /\ n \in 1..Len(Script) /\ Script[n].addr = "good"
               /\ sent = n /\ mdmRcv = "copied"
Answered(n) == sent = n /\ gwTX # None /\ gwTX.for = Script[n]
EveryRequestAnswered == \A n \in 1..MaxScript : Asked(n) ~> Answered(n)
=============================================================================
