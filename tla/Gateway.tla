------------------------------ MODULE Gateway ------------------------------
(***************************************************************************)
(* The gateway thread of DLMS_Gateway.c (GW_Run): it takes a request of    *)
(* the management centre (MDM) from the socket mailbox (lnWrapper.buffer), *)
(* talks HDLC to the meter through the RS-485 mailbox (rs485.buffer), and  *)
(* leaves the answer in the socket mailbox.                                *)
(*                                                                         *)
(* One action is one iteration of the while(1) of GW_Run that does         *)
(* something; an iteration that only polls is a stuttering step.  The      *)
(* other threads are here in their most general form: any frame may be     *)
(* read from the line, and any request from the socket, at any time.       *)
(* Both receivers first copy the octets into the mailbox and raise its     *)
(* count in a later step, as the C code does without any lock; GW_Run      *)
(* copies a request and its count and clears the mailbox in three steps.   *)
(* A memcpy is one step.  So are the copy of an answer of the meter and    *)
(* the clearing of its count: a count that is raised in between is cleared *)
(* before anything is sent, whichever came first.                          *)
(*                                                                         *)
(* Data abstraction.  A request is the kind of its first APDU octet, the   *)
(* verdict on its address fields, and an identity.  An HDLC frame is what  *)
(* the convertor tests of it: is the start flag and format octet right,    *)
(* the segmentation bit, does the rest up to the header check sequence     *)
(* pass, and its payload.  Of a payload the convertor looks at no octet,   *)
(* but it takes the first three for an LLC header: llc says whether they   *)
(* are one.  Addresses and the layout of octets are left out.              *)
(***************************************************************************)
EXTENDS Integers, Sequences

CONSTANTS
    Requests,      \* the gateway frames the MDM may send
    Frames,        \* what one read of the RS-485 line may return
    Data,          \* the payloads of those frames
    MaxSeq,        \* largest HDLC sequence number (7)
    StackSeq,      \* values RRR and SSS may hold before the first SNRM
    MaxCount,      \* bound: requests an RX_Count of the socket mailbox spans
    MaxSegments,   \* bound: segments buffered when one more is read
    ZeroRequest,   \* the all-zero mailbox, read as a request
    ZeroFrame,     \* the all-zero mailbox, read as a frame
    None           \* a transmit mailbox whose TX_Count is 0

Kinds == {"AARQ", "RLRQ", "OTHER"}

(* "length": address length not 1 or 2; "logical": over 16383 *)
Addresses == {"good", "length", "logical"}

ASSUME SequenceAssumption ==
    /\ MaxSeq \in Nat
    /\ StackSeq \subseteq 0..255
ASSUME BoundAssumption == MaxCount \in Nat /\ MaxSegments \in Nat
ASSUME RequestAssumption ==
    /\ \A r \in Requests : r.kind \in Kinds /\ r.addr \in Addresses
    /\ ZeroRequest \in Requests
    /\ ZeroRequest.kind = "OTHER" /\ ZeroRequest.addr = "length"
ASSUME FrameAssumption ==
    /\ \A f \in Frames : /\ f.start \in BOOLEAN /\ f.seg \in BOOLEAN
                         /\ f.valid \in BOOLEAN /\ f.data \in Data
    /\ \A d \in Data : d.llc \in BOOLEAN
    /\ ZeroFrame \in Frames
    /\ ~ZeroFrame.start

VARIABLES
    GW_State,      \* state of the loop; "KILLED": of the process
    taking,        \* how far WAIT_FOR_GET_FRAME is with a request
    RLRQ_flag,     \* the request served is a release request
    GW_tmp,        \* copy of the request served, with the octets it spans
    HDLC_tmp,      \* copy of the last answer of the meter
    RRR, SSS,      \* HDLC receive and send sequence numbers
    expired,       \* diff_time_ms(&timeout_start) > Timeout_ms
    Segment_bit,   \* global: SINGLE, MIDDLE or LAST
    segBuf,        \* Buffer_Data_Meter2GW_Frame_Convertor up to Last_Byte
    gwRX, gwRX_Count,      \* socket mailbox, from the MDM
    gwTX,                  \* socket mailbox, to the MDM (None: TX_Count = 0)
    hdlcRX, hdlcRX_Count,  \* RS-485 mailbox, from the meter
    hdlcTX,                \* RS-485 mailbox, to the meter
    mdmRcv,        \* the socket receiver: "idle", or "copied" before RX_Count
    lineRcv        \* RS485_Receive_Thread: "idle", or "copied" before RX_Count

gwVars   == <<GW_State, taking, RLRQ_flag, GW_tmp, HDLC_tmp, RRR, SSS, expired,
              Segment_bit, segBuf>>
mdmVars  == <<gwRX, gwRX_Count, mdmRcv>>
lineVars == <<hdlcRX, hdlcRX_Count, lineRcv>>
vars     == <<gwVars, mdmVars, gwTX, lineVars, hdlcTX>>

(* the uint32_t RX_Count of a read() that failed: 2^32 - 1 *)
TooMany == 2

(* a segmentation fault ends the process, and so every thread of it *)
Running == GW_State # "KILLED"

-----------------------------------------------------------------------------
(* What the convertors compute *)

AddressLengthOK(r) == r.addr # "length"

(* the logical address is checked by the I-frame convertor only *)
AddressLengthOnly(r) == AddressLengthOK(r)   \* mutant: no -2
AddressOK(r) == r.addr = "good"

Check_GW_Frame_Type(r) == r.kind

ReleaseSticks(r) == RLRQ_flag \/ Check_GW_Frame_Type(r) = "RLRQ"  \* mutant: never reset
IsRelease(r) == Check_GW_Frame_Type(r) = "RLRQ"

(* RRR and SSS after a frame *)
SeqUnwrapped(n) == n + 1   \* mutant: no wrap
NextSeq(n) == IF n >= MaxSeq THEN 0 ELSE n + 1

(* Control_Byte packs RRR and SSS into three bits each *)
Field(n) == n % (MaxSeq + 1)

HdlcFrame(type, nr, ns) ==
    [type |-> type, nr |-> nr, ns |-> ns, req |-> GW_tmp.req,
     count |-> IF type = "I" THEN GW_tmp.count ELSE 0]

(* The frames of the four generators.  All are addressed from GW_tmp; the  *)
(* I-frame carries the GW_tmp.count requests RX_Count spans, the others    *)
(* only a control octet.                                                   *)
GW2HDLC_SNRM_Generator         == HdlcFrame("SNRM", 0, 0)
GW2HDLC_DISC_Generator         == HdlcFrame("DISC", 0, 0)
GW2HDLC_Poll_For_Remained_Data == HdlcFrame("RR", Field(RRR), 0)
GW2HDLC_Frame_Convertor        == HdlcFrame("I", Field(RRR), Field(SSS))

(* What the convertor keeps of a payload: all but the first three octets.  *)
(* It keeps the whole of what the meter has to say only if those are the   *)
(* LLC header.                                                             *)
Octets(d) == [of |-> d, whole |-> d.llc]

(* The answer built from the pieces ds.  "for" is a history field: the     *)
(* request being served when it was built.  The last three octets of an    *)
(* answer assembled from segments are not copied, nor counted in TX_Count  *)
(* ("cut").                                                                *)
Reply(ds, wasSegmented) ==
    [for |-> GW_tmp.req, data |-> ds, cut |-> wasSegmented]

(* the payloads still in the buffer when the flag becomes bit *)
NeverCleared(bit) == segBuf   \* mutant: no memset
Kept(bit) == IF bit = "SINGLE" THEN <<>> ELSE segBuf

(* HDLC->RX_Count = 0 before anything is sent to the meter *)
NoFlush == UNCHANGED hdlcRX_Count   \* mutant: an old answer stays
Flush   == hdlcRX_Count' = 0

(* a new link starts both numbers at 0 *)
KeepSeq  == UNCHANGED <<RRR, SSS>>   \* mutant: no reset
ResetSeq == RRR' = 0 /\ SSS' = 0

ForgetsMiddle(f) == IF f.seg THEN "MIDDLE" ELSE "SINGLE"   \* mutant: no LAST
SegmentBitAfter(f) ==
    IF f.seg THEN "MIDDLE" ELSE IF Segment_bit = "MIDDLE" THEN "LAST" ELSE "SINGLE"

Lingers(f) == IF f.seg THEN "SEGMENT" ELSE "RESPONSE"   \* mutant: waits for more
StateAfter(f) == IF f.seg THEN "SEGMENT" ELSE "WAIT_FOR_GET_FRAME"

-----------------------------------------------------------------------------
Init ==
    /\ GW_State = "WAIT_FOR_GET_FRAME" /\ taking = "no"
    /\ RLRQ_flag = FALSE
    /\ GW_tmp = [req |-> ZeroRequest, count |-> 0]
    /\ HDLC_tmp = ZeroFrame
    /\ RRR \in StackSeq /\ SSS \in StackSeq
    /\ expired = FALSE
    /\ Segment_bit = "SINGLE"
    /\ segBuf = <<>>
    /\ gwRX = ZeroRequest /\ gwRX_Count = 0 /\ gwTX = None
    /\ hdlcRX = ZeroFrame /\ hdlcRX_Count = 0 /\ hdlcTX = None
    /\ mdmRcv = "idle" /\ lineRcv = "idle"

-----------------------------------------------------------------------------
(* GW_Run, one action per case of its switch *)

(* The octets of the request are copied first, as many as RX_Count says... *)
TakeOctets ==
    /\ GW_State = "WAIT_FOR_GET_FRAME" /\ taking = "no"
    /\ gwRX_Count > 0
    /\ GW_tmp' = [GW_tmp EXCEPT !.req = gwRX]
    /\ taking' = "octets"
    /\ UNCHANGED <<GW_State, RLRQ_flag, HDLC_tmp, RRR, SSS, expired, Segment_bit,
                   segBuf, mdmVars, gwTX, lineVars, hdlcTX>>

(* ... then RX_Count is read again... *)
TakeCount ==
    /\ taking = "octets"
    /\ GW_tmp' = [GW_tmp EXCEPT !.count = gwRX_Count]
    /\ taking' = "count"
    /\ UNCHANGED <<GW_State, RLRQ_flag, HDLC_tmp, RRR, SSS, expired, Segment_bit,
                   segBuf, mdmVars, gwTX, lineVars, hdlcTX>>

(* ... and cleared, whatever the receiver has put there meanwhile. *)
WaitForGetFrame ==
    /\ taking = "count"
    /\ gwRX_Count' = 0
    /\ RLRQ_flag' = IsRelease(GW_tmp.req)
    /\ GW_State' = IF Check_GW_Frame_Type(GW_tmp.req) = "AARQ"
                   THEN "SNRM_REQUEST" ELSE "INFORMATION_FRAME"
    /\ taking' = "no"
    /\ UNCHANGED <<GW_tmp, HDLC_tmp, RRR, SSS, expired, Segment_bit, segBuf,
                   gwRX, mdmRcv, gwTX, lineVars, hdlcTX>>

SnrmRequest ==
    /\ GW_State = "SNRM_REQUEST"
    /\ Flush
    /\ \/ /\ AddressLengthOK(GW_tmp.req)
          /\ hdlcTX' = GW2HDLC_SNRM_Generator
          /\ ResetSeq
          /\ expired' = FALSE
          /\ GW_State' = "SNRM_RESPONSE"
       \/ /\ ~AddressLengthOK(GW_tmp.req)
          /\ GW_State' = "WAIT_FOR_GET_FRAME"
          /\ UNCHANGED <<hdlcTX, RRR, SSS, expired>>
    /\ UNCHANGED <<taking, RLRQ_flag, GW_tmp, HDLC_tmp, Segment_bit, segBuf,
                   mdmVars, gwTX, hdlcRX, lineRcv>>

TimedOutStays(state) ==   \* mutant: says so and waits on
    GW_State = state /\ expired /\ hdlcRX_Count = 0 /\ UNCHANGED vars

(* A wait for the meter: the answer is looked for after the time-out test, *)
(* so one that is there wins whatever the clock says.                      *)
TimedOut(state) ==
    /\ GW_State = state
    /\ expired /\ hdlcRX_Count = 0
    /\ GW_State' = "WAIT_FOR_GET_FRAME"
    /\ UNCHANGED <<taking, RLRQ_flag, GW_tmp, HDLC_tmp, RRR, SSS, expired,
                   Segment_bit, segBuf, mdmVars, gwTX, lineVars, hdlcTX>>

(* any octets at all are taken for the UA, and a read() that failed *)
SnrmResponse ==
    /\ GW_State = "SNRM_RESPONSE"
    /\ hdlcRX_Count > 0
    /\ hdlcRX_Count' = 0
    /\ GW_State' = "INFORMATION_FRAME"
    /\ UNCHANGED <<taking, RLRQ_flag, GW_tmp, HDLC_tmp, RRR, SSS, expired,
                   Segment_bit, segBuf, mdmVars, gwTX, hdlcRX, lineRcv, hdlcTX>>

InformationFrame ==
    /\ GW_State = "INFORMATION_FRAME"
    /\ Flush
    /\ \/ /\ AddressOK(GW_tmp.req)
          /\ hdlcTX' = GW2HDLC_Frame_Convertor
          /\ SSS' = NextSeq(SSS)
          /\ expired' = FALSE
          /\ GW_State' = "RESPONSE"
       \/ /\ ~AddressOK(GW_tmp.req)
          /\ GW_State' = "WAIT_FOR_GET_FRAME"
          /\ UNCHANGED <<hdlcTX, SSS, expired>>
    /\ UNCHANGED <<taking, RLRQ_flag, GW_tmp, HDLC_tmp, RRR, Segment_bit, segBuf,
                   mdmVars, gwTX, hdlcRX, lineRcv>>

Response ==
    /\ GW_State = "RESPONSE"
    /\ hdlcRX_Count > 0 /\ hdlcRX_Count # TooMany
    /\ HDLC_tmp' = hdlcRX
    /\ hdlcRX_Count' = 0
    /\ GW_State' = IF RLRQ_flag THEN "DISC_REQUEST" ELSE "RESPONSE_FOR_MDM"
    /\ UNCHANGED <<taking, RLRQ_flag, GW_tmp, RRR, SSS, expired, Segment_bit, segBuf,
                   mdmVars, gwTX, hdlcRX, lineRcv, hdlcTX>>

(* the memcpy runs out of the process's memory *)
ResponseFaults ==
    /\ GW_State = "RESPONSE"
    /\ hdlcRX_Count = TooMany
    /\ GW_State' = "KILLED"
    /\ UNCHANGED <<taking, RLRQ_flag, GW_tmp, HDLC_tmp, RRR, SSS, expired,
                   Segment_bit, segBuf, mdmVars, gwTX, lineVars, hdlcTX>>

(* the poll for the next segment; timeout_start is not set again *)
Segment ==
    /\ GW_State = "SEGMENT"
    /\ Flush
    /\ hdlcTX' = IF AddressLengthOK(GW_tmp.req)
                 THEN GW2HDLC_Poll_For_Remained_Data ELSE hdlcTX
    /\ GW_State' = "RESPONSE"
    /\ UNCHANGED <<taking, RLRQ_flag, GW_tmp, HDLC_tmp, RRR, SSS, expired, Segment_bit,
                   segBuf, mdmVars, gwTX, hdlcRX, lineRcv>>

DiscRequest ==
    /\ GW_State = "DISC_REQUEST"
    /\ Flush
    /\ LET generated == AddressLengthOK(GW_tmp.req)
       IN  /\ hdlcTX' = IF generated THEN GW2HDLC_DISC_Generator ELSE hdlcTX
           /\ expired' = (expired /\ ~generated)
           /\ GW_State' = IF generated THEN "DISC_RESPONSE" ELSE "RESPONSE_FOR_MDM"
    /\ UNCHANGED <<taking, RLRQ_flag, GW_tmp, HDLC_tmp, RRR, SSS, Segment_bit, segBuf,
                   mdmVars, gwTX, hdlcRX, lineRcv>>

(* the octets that end the wait stay in the mailbox *)
DiscResponse ==
    /\ GW_State = "DISC_RESPONSE"
    /\ hdlcRX_Count > 0
    /\ GW_State' = "RESPONSE_FOR_MDM"
    /\ UNCHANGED <<taking, RLRQ_flag, GW_tmp, HDLC_tmp, RRR, SSS, expired,
                   Segment_bit, segBuf, mdmVars, gwTX, lineVars, hdlcTX>>

-----------------------------------------------------------------------------
(* RESPONSE_FOR_MDM: Meter2GW_Frame_Convertor.  It returns before it has   *)
(* set GW_State when the start flag or the format octet is wrong: GW_Run   *)
(* then converts the same frame again, for ever.  There is no step.        *)

Converting == GW_State = "RESPONSE_FOR_MDM" /\ HDLC_tmp.start

(* GW_State and Segment_bit are set before the rest of the frame is tested *)
SetSegmentation ==
    /\ Segment_bit' = SegmentBitAfter(HDLC_tmp)
    /\ GW_State' = StateAfter(HDLC_tmp)
    /\ UNCHANGED <<taking, RLRQ_flag, GW_tmp, HDLC_tmp, SSS, expired, mdmRcv, lineVars,
                   hdlcTX>>

(* errors -1 to -7: nothing is appended, nothing answered *)
RejectFrame ==
    /\ Converting /\ ~HDLC_tmp.valid
    /\ SetSegmentation
    /\ segBuf' = Kept(Segment_bit')
    /\ UNCHANGED <<RRR, gwRX, gwRX_Count, gwTX>>

(* A valid frame is copied to the MDM mailbox with a memcpy of 5000 octets *)
(* that runs over RX, TX_Count and RX_Count and zeroes them.               *)
AcceptFrame ==
    /\ Converting /\ HDLC_tmp.valid
    /\ SetSegmentation
    /\ RRR' = NextSeq(RRR)
    /\ gwRX' = ZeroRequest /\ gwRX_Count' = 0
    /\ \/ /\ Segment_bit' = "MIDDLE"
          /\ segBuf' = Append(segBuf, Octets(HDLC_tmp.data))
          /\ gwTX' = None
       \/ /\ Segment_bit' = "LAST"
          /\ segBuf' = <<>>
          /\ gwTX' = Reply(Append(segBuf, Octets(HDLC_tmp.data)), TRUE)
       \/ /\ Segment_bit' = "SINGLE"
          /\ segBuf' = <<>>
          /\ gwTX' = Reply(<<Octets(HDLC_tmp.data)>>, FALSE)

GW_Run ==
    \/ TakeOctets \/ TakeCount \/ WaitForGetFrame
    \/ SnrmRequest \/ SnrmResponse \/ InformationFrame
    \/ Response \/ ResponseFaults \/ Segment \/ DiscRequest \/ DiscResponse
    \/ RejectFrame \/ AcceptFrame
    \/ \E state \in {"SNRM_RESPONSE", "RESPONSE", "DISC_RESPONSE"} : TimedOut(state)

(* Timeout_ms passes; it matters only while an exchange is timed *)
Expire ==
    /\ GW_State \in {"SNRM_RESPONSE", "RESPONSE", "SEGMENT", "RESPONSE_FOR_MDM",
                     "DISC_RESPONSE"}
    /\ ~expired
    /\ expired' = TRUE
    /\ UNCHANGED <<GW_State, taking, RLRQ_flag, GW_tmp, HDLC_tmp, RRR, SSS,
                   Segment_bit, segBuf, mdmVars, gwTX, lineVars, hdlcTX>>

-----------------------------------------------------------------------------
(* The threads at the other end of the mailboxes *)

(* Socket_Receive_Thread / Socket_Listen_Thread: memcpy of a 0xE6 frame *)
MdmCopy(r) ==
    /\ Running /\ mdmRcv = "idle"
    /\ gwRX' = r
    /\ mdmRcv' = "copied"
    /\ UNCHANGED <<gwVars, gwRX_Count, gwTX, lineVars, hdlcTX>>

(* ... then RX_Count += ret on the client socket, = ret on the server's *)
MdmCount ==
    /\ Running /\ mdmRcv = "copied"
    /\ gwRX_Count' \in {gwRX_Count + 1, 1} \cap 1..MaxCount
    /\ mdmRcv' = "idle"
    /\ UNCHANGED <<gwVars, gwRX, gwTX, lineVars, hdlcTX>>

(* Socket_Send_Thread: TX_Count = 0 after the send *)
MdmSent ==
    /\ Running /\ gwTX # None
    /\ gwTX' = None
    /\ UNCHANGED <<gwVars, mdmVars, lineVars, hdlcTX>>

(* RS485_Receive_Thread: read() straight into the mailbox *)
LineCopy(f) ==
    /\ Running /\ lineRcv = "idle"
    /\ f.seg /\ f.valid => Len(segBuf) < MaxSegments
    /\ hdlcRX' = f
    /\ lineRcv' = "copied"
    /\ UNCHANGED <<gwVars, mdmVars, gwTX, hdlcRX_Count, hdlcTX>>

LineCount ==
    /\ Running /\ lineRcv = "copied"
    /\ hdlcRX_Count' = 1
    /\ lineRcv' = "idle"
    /\ UNCHANGED <<gwVars, mdmVars, gwTX, hdlcRX, hdlcTX>>

(* ... which is -1 if it failed, 0 at the end of a file *)
LineError ==
    /\ Running /\ lineRcv = "idle"
    /\ hdlcRX_Count' \in {0, TooMany}
    /\ UNCHANGED <<gwVars, mdmVars, gwTX, hdlcRX, lineRcv, hdlcTX>>

(* RS485_Send_Thread: TX_Count = 0 after the write *)
LineSent ==
    /\ Running /\ hdlcTX # None
    /\ hdlcTX' = None
    /\ UNCHANGED <<gwVars, mdmVars, gwTX, lineVars>>

Environment ==
    \/ Expire
    \/ \E r \in Requests : MdmCopy(r)
    \/ MdmCount
    \/ MdmSent
    \/ \E f \in Frames : LineCopy(f)
    \/ LineCount
    \/ LineError
    \/ LineSent

Next == GW_Run \/ Environment

Spec == Init /\ [][Next]_vars
-----------------------------------------------------------------------------
(* Properties *)

GWStates == {"WAIT_FOR_GET_FRAME", "SNRM_REQUEST", "SNRM_RESPONSE",
             "INFORMATION_FRAME", "RESPONSE", "SEGMENT", "RESPONSE_FOR_MDM",
             "DISC_REQUEST", "DISC_RESPONSE", "KILLED"}

Copies      == [req : Requests, count : Nat]
HdlcFrames  == [type : {"SNRM", "I", "RR", "DISC"}, nr : 0..MaxSeq,
                ns : 0..MaxSeq, req : Requests, count : Nat]
Pieces      == [of : Data, whole : BOOLEAN]
Replies     == [for : Requests, data : Seq(Pieces), cut : BOOLEAN]

(* an empty mailbox is not a request, a frame or an answer *)
ASSUME NoneAssumption ==
    None \notin Requests /\ None \notin HdlcFrames /\ None \notin Replies

(* The values each variable of the gateway thread and of its mailboxes     *)
(* takes; RRR and SSS are uint8_t and hold stack octets before any SNRM.   *)
TypeOK ==
    /\ GW_State \in GWStates
    /\ taking \in {"no", "octets", "count"}
    /\ taking # "no" => GW_State = "WAIT_FOR_GET_FRAME"
    /\ RLRQ_flag \in BOOLEAN
    /\ GW_tmp \in Copies
    /\ HDLC_tmp \in Frames
    /\ RRR \in 0..MaxSeq \cup StackSeq /\ SSS \in 0..MaxSeq \cup StackSeq
    /\ expired \in BOOLEAN
    /\ Segment_bit \in {"SINGLE", "MIDDLE", "LAST"}
    /\ segBuf \in Seq(Pieces)
    /\ gwRX \in Requests /\ gwRX_Count \in Nat
    /\ gwTX \in Replies \cup {None}
    /\ hdlcRX \in Frames /\ hdlcRX_Count \in 0..TooMany
    /\ hdlcTX \in HdlcFrames \cup {None}
    /\ mdmRcv \in {"idle", "copied"} /\ lineRcv \in {"idle", "copied"}

(* Once the I-frame convertor has accepted the address, every later        *)
(* generator finds it good: the -1 of GW2HDLC_Poll_For_Remained_Data,      *)
(* which GW_Run ignores, and that of GW2HDLC_DISC_Generator never happen,  *)
(* and a poll or a DISC is never the old content of TX sent again.         *)
AddressChecked ==
    GW_State \in {"RESPONSE", "SEGMENT", "RESPONSE_FOR_MDM", "DISC_REQUEST",
                  "DISC_RESPONSE"}
        => GW_tmp.req.addr = "good"

(* The reassembly buffer and the segmentation flag, two globals that       *)
(* outlive an exchange, agree: payloads are kept only after a segment, and *)
(* the next segment is polled for only while one is being waited for.      *)
BufferInStep ==
    /\ Segment_bit = "SINGLE" => segBuf = <<>>
    /\ GW_State = "SEGMENT" => Segment_bit = "MIDDLE"

(* The meter is disconnected only on behalf of a release request, whatever *)
(* was served before it: RLRQ_flag does not leak into the next exchange.   *)
ReleaseOnly ==
    hdlcTX # None /\ hdlcTX.type = "DISC" => hdlcTX.req.kind = "RLRQ"

(* a frame with a wrong start flag or format octet is being converted *)
Stuck == GW_State = "RESPONSE_FOR_MDM" /\ ~HDLC_tmp.start

(* The gateway implements the exchange the management centre sees: one     *)
(* request at a time, at most one answer each, none that nobody asked for. *)
TheExchange == INSTANCE Exchange WITH
    serving  <- IF GW_State = "WAIT_FOR_GET_FRAME" THEN None ELSE GW_tmp.req,
    answered <- IF gwTX = None THEN None ELSE gwTX.for
ImplementsExchange == TheExchange!Spec
=============================================================================
