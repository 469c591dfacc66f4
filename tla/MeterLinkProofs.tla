-------------------------- MODULE MeterLinkProofs --------------------------
(***************************************************************************)
(* Proofs about Gateway and about MeterLink, which puts it to work.        *)
(*                                                                         *)
(* Those about Gateway are for all sets of requests, frames and payloads,  *)
(* any largest sequence number and any bounds.  Its environment may read   *)
(* any frame from the line and any request from the socket at any time, so *)
(* they need nothing of the meter, the line, the MDM or the scheduler.     *)
(* Those about MeterLink are for every script, every number of segments,   *)
(* and every combination and number of faults.                             *)
(***************************************************************************)
EXTENDS MeterLink, TLAPS

-----------------------------------------------------------------------------
(* The gateway in any environment                                          *)


(* two abbreviations of assignments, expanded everywhere *)
USE DEF Flush, ResetSeq

LEMMA NextSeqType ==
    ASSUME NEW n \in 0..MaxSeq \cup StackSeq
    PROVE  NextSeq(n) \in 0..MaxSeq
BY SequenceAssumption, SMT DEF NextSeq

LEMMA FieldType ==
    ASSUME NEW n \in 0..MaxSeq \cup StackSeq
    PROVE  Field(n) \in 0..MaxSeq
BY SequenceAssumption, SMT DEF Field

LEMMA HdlcFrameType ==
    ASSUME TypeOK
    PROVE  /\ GW2HDLC_SNRM_Generator \in HdlcFrames
           /\ GW2HDLC_DISC_Generator \in HdlcFrames
           /\ GW2HDLC_Poll_For_Remained_Data \in HdlcFrames
           /\ GW2HDLC_Frame_Convertor \in HdlcFrames
<1>1. ASSUME NEW type \in {"SNRM", "I", "RR", "DISC"},
             NEW nr \in 0..MaxSeq, NEW ns \in 0..MaxSeq
      PROVE  HdlcFrame(type, nr, ns) \in HdlcFrames
  BY DEF HdlcFrame, HdlcFrames, TypeOK, Copies
<1>2. 0 \in 0..MaxSeq
  BY SequenceAssumption
<1>3. Field(RRR) \in 0..MaxSeq /\ Field(SSS) \in 0..MaxSeq
  BY FieldType DEF TypeOK
<1> QED
  BY <1>1, <1>2, <1>3
  DEF GW2HDLC_SNRM_Generator, GW2HDLC_DISC_Generator,
      GW2HDLC_Poll_For_Remained_Data, GW2HDLC_Frame_Convertor

LEMMA ReplyType ==
    ASSUME GW_tmp \in Copies, NEW ds \in Seq(Pieces), NEW c \in BOOLEAN
    PROVE  Reply(ds, c) \in Replies /\ Reply(ds, c) # None
BY NoneAssumption DEF Reply, Replies, Copies

-----------------------------------------------------------------------------
LEMMA TypeInit == Init => TypeOK
<1> USE DEF TypeOK, gwVars, mdmVars, lineVars
<1> SUFFICES ASSUME Init PROVE TypeOK
  OBVIOUS
<1>1. GW_tmp \in Copies
  BY RequestAssumption DEF Init, Copies
<1>2. <<>> \in Seq(Pieces)
  OBVIOUS
<1>3. HDLC_tmp \in Frames /\ hdlcRX \in Frames /\ gwRX \in Requests
  BY RequestAssumption, FrameAssumption DEF Init
<1>4. gwRX_Count \in Nat /\ hdlcRX_Count \in 0..TooMany
  BY SMT DEF Init, TooMany
<1> QED BY <1>1, <1>2, <1>3, <1>4 DEF Init, GWStates

LEMMA TypeStep == TypeOK /\ [Next]_vars => TypeOK'
<1> USE DEF TypeOK, gwVars, mdmVars, lineVars
<1> SUFFICES ASSUME TypeOK, [Next]_vars PROVE TypeOK'
  OBVIOUS
<1>1. CASE TakeOctets \/ TakeCount \/ WaitForGetFrame
  <2>1. CASE TakeOctets
    BY <1>1, <2>1, SMT DEF TakeOctets, Copies
  <2>2. CASE TakeCount
    BY <1>1, <2>2, SMT DEF TakeCount, Copies
  <2>3. CASE WaitForGetFrame
    BY <1>1, <2>3, SMT DEF WaitForGetFrame, IsRelease, GWStates
  <2> QED BY <1>1, <2>1, <2>2, <2>3
<1>2. CASE SnrmRequest
  <2>1. 0 \in 0..MaxSeq
    BY SequenceAssumption
  <2>2. GW2HDLC_SNRM_Generator \in HdlcFrames
    BY HdlcFrameType
  <2>3. CASE AddressLengthOK(GW_tmp.req)
    <3>1. hdlcTX' \in HdlcFrames /\ RRR' \in 0..MaxSeq /\ SSS' \in 0..MaxSeq
      BY <1>2, <2>1, <2>2, <2>3, Zenon DEF SnrmRequest
    <3>2. hdlcRX_Count' \in 0..TooMany /\ GW_State' \in GWStates
      BY <1>2, <2>3, SMT DEF SnrmRequest, GWStates, TooMany
    <3>3. taking' = "no"
      BY <1>2, SMT DEF SnrmRequest
    <3>4. expired' \in BOOLEAN
      BY <1>2, <2>3, Zenon DEF SnrmRequest
    <3>5. UNCHANGED <<RLRQ_flag, GW_tmp, HDLC_tmp, Segment_bit, segBuf, mdmVars, gwTX, hdlcRX,
                      lineRcv>>
      BY <1>2, Zenon DEF SnrmRequest
    <3> QED BY <3>1, <3>2, <3>3, <3>4, <3>5, Zenon DEF mdmVars
  <2>4. CASE ~AddressLengthOK(GW_tmp.req)
    BY <1>2, <2>4, SMTT(30) DEF SnrmRequest, GWStates, TooMany
  <2> QED BY <2>3, <2>4
<1>3. CASE SnrmResponse
  BY <1>3, SMT DEF SnrmResponse, GWStates, TooMany
<1>4. CASE InformationFrame
  <2>1. GW2HDLC_Frame_Convertor \in HdlcFrames
    BY HdlcFrameType
  <2>2. NextSeq(SSS) \in 0..MaxSeq
    BY NextSeqType
  <2>3. hdlcTX' \in HdlcFrames \cup {None} /\ SSS' \in 0..MaxSeq \cup StackSeq
              /\ expired' \in BOOLEAN
    BY <1>4, <2>1, <2>2, Zenon DEF InformationFrame
  <2>4. hdlcRX_Count' \in 0..TooMany /\ GW_State' \in GWStates
    BY <1>4, SMT DEF InformationFrame, GWStates, TooMany
  <2>5. UNCHANGED <<taking, RLRQ_flag, GW_tmp, HDLC_tmp, RRR, Segment_bit,
                    segBuf, gwRX, gwRX_Count, mdmRcv, gwTX, hdlcRX, lineRcv>>
        /\ GW_State = "INFORMATION_FRAME"
    BY <1>4, Zenon DEF InformationFrame
  <2>6. taking = "no"
    BY <2>5
  <2> QED BY <2>3, <2>4, <2>5, <2>6, Zenon
<1>5. CASE Response \/ ResponseFaults
  BY <1>5, SMT DEF Response, ResponseFaults, GWStates, TooMany
<1>6. CASE Segment
  <2>1. hdlcTX' \in HdlcFrames \cup {None}
    BY <1>6, HdlcFrameType, Zenon DEF Segment
  <2>2. hdlcRX_Count' \in 0..TooMany /\ GW_State' \in GWStates
    BY <1>6, SMT DEF Segment, GWStates, TooMany
  <2>3. UNCHANGED <<taking, RLRQ_flag, GW_tmp, HDLC_tmp, RRR, SSS, expired, Segment_bit,
                    segBuf, gwRX, gwRX_Count, mdmRcv, gwTX, hdlcRX, lineRcv>>
        /\ GW_State = "SEGMENT"
    BY <1>6, Zenon DEF Segment
  <2>4. taking = "no"
    BY <2>3
  <2> QED BY <2>1, <2>2, <2>3, <2>4, Zenon
<1>7. CASE DiscRequest
  BY <1>7, HdlcFrameType, SMT DEF DiscRequest, GWStates, TooMany
<1>8. CASE DiscResponse
  BY <1>8 DEF DiscResponse, GWStates
<1>9. CASE RejectFrame
  BY <1>9 DEF RejectFrame, Converting, SetSegmentation, SegmentBitAfter, StateAfter, Kept, GWStates
<1>10. CASE AcceptFrame
  <2>1. Octets(HDLC_tmp.data) \in Pieces
    BY FrameAssumption DEF Octets, Pieces
  <2>2. NextSeq(RRR) \in 0..MaxSeq
    BY NextSeqType
  <2>3. Append(segBuf, Octets(HDLC_tmp.data)) \in Seq(Pieces) /\ <<Octets(HDLC_tmp.data)>> \in Seq(Pieces)
    BY <2>1
  <2>4. /\ Reply(Append(segBuf, Octets(HDLC_tmp.data)), TRUE) \in Replies
        /\ Reply(<<Octets(HDLC_tmp.data)>>, FALSE) \in Replies
    BY <2>3, ReplyType
  <2>5. ZeroRequest \in Requests
    BY RequestAssumption
  <2>6. gwTX' \in Replies \cup {None} /\ segBuf' \in Seq(Pieces)
    <3>1. <<>> \in Seq(Pieces)
      OBVIOUS
    <3> QED BY <1>10, <2>3, <2>4, <3>1, Zenon DEF AcceptFrame
  <2>7. /\ RRR' \in 0..MaxSeq /\ gwRX' \in Requests
        /\ UNCHANGED <<taking, RLRQ_flag, GW_tmp, HDLC_tmp, SSS, expired, mdmRcv,
                       lineVars, hdlcTX>>
        /\ GW_State = "RESPONSE_FOR_MDM"
    BY <1>10, <2>2, <2>5, Zenon DEF AcceptFrame, Converting, SetSegmentation
  <2>8. gwRX_Count' \in Nat /\ GW_State' \in GWStates
    BY <1>10, SMT DEF AcceptFrame, SetSegmentation, StateAfter, GWStates
  <2>9. Segment_bit' \in {"SINGLE", "MIDDLE", "LAST"}
    BY <1>10 DEF AcceptFrame
  <2>10. taking = "no"
    BY <2>7
  <2> QED BY <2>6, <2>7, <2>8, <2>9, <2>10, Zenon DEF lineVars
<1>11. ASSUME NEW state \in {"SNRM_RESPONSE", "RESPONSE", "DISC_RESPONSE"},
              TimedOut(state)
       PROVE  TypeOK'
  BY <1>11 DEF TimedOut, GWStates
<1>12. CASE Environment
  <2>1. CASE Expire
    BY <2>1 DEF Expire
  <2>2. CASE (\E r \in Requests : MdmCopy(r)) \/ MdmSent
    BY <2>2 DEF MdmCopy, MdmSent
  <2>3. CASE MdmCount
    <3>1. gwRX_Count' \in Nat
      BY <2>3, BoundAssumption, SMT DEF MdmCount
    <3> QED BY <2>3, <3>1 DEF MdmCount
  <2>4. CASE (\E f \in Frames : LineCopy(f)) \/ LineSent
    BY <2>4 DEF LineCopy, LineSent
  <2>5. CASE LineCount \/ LineError
    BY <2>5, SMT DEF LineCount, LineError, TooMany
  <2> QED BY <1>12, <2>1, <2>2, <2>3, <2>4, <2>5 DEF Environment
<1>13. CASE UNCHANGED vars
  BY <1>13 DEF vars
<1> QED
  BY <1>1, <1>2, <1>3, <1>4, <1>5, <1>6, <1>7, <1>8, <1>9, <1>10, <1>11, <1>12,
     <1>13
  DEF Next, GW_Run

(* The gateway thread and the other threads keep every variable in its     *)
(* type: sequence numbers stay in three bits once an SNRM has been sent,   *)
(* whatever octets the stack held.                                         *)
THEOREM TypeCorrect == Spec => []TypeOK
BY TypeInit, TypeStep, PTL DEF Spec

-----------------------------------------------------------------------------
(* A poll and a DISC are generated only for a request whose address the    *)
(* I-frame convertor has accepted, so the errors of those generators,      *)
(* which GW_Run does not handle, cannot happen.                            *)
(* The SNRM goes out before that test: one with a logical address above    *)
(* 16383 is sent, and only the I-frame after it is refused.                *)
THEOREM AddressesChecked == Spec => []AddressChecked
<1>1. Init => AddressChecked
  BY DEF Init, AddressChecked
<1>2. TypeOK /\ AddressChecked /\ [Next]_vars => AddressChecked'
  <2> SUFFICES ASSUME TypeOK, AddressChecked, [Next]_vars PROVE AddressChecked'
    OBVIOUS
  <2> USE DEF AddressChecked
  <2>1. CASE TakeOctets \/ TakeCount \/ WaitForGetFrame \/ SnrmRequest \/ SnrmResponse
    <3>1. taking # "no" => GW_State = "WAIT_FOR_GET_FRAME"
      BY DEF TypeOK
    <3> QED BY <2>1, <3>1 DEF TakeOctets, TakeCount, WaitForGetFrame, SnrmRequest, SnrmResponse
  <2>2. CASE InformationFrame
    BY <2>2 DEF InformationFrame, AddressOK
  <2>3. CASE Response \/ ResponseFaults \/ Segment \/ DiscResponse
    BY <2>3 DEF Response, ResponseFaults, Segment, DiscResponse
  <2>4. CASE DiscRequest
    BY <2>4 DEF DiscRequest
  <2>5. CASE RejectFrame \/ AcceptFrame
    BY <2>5 DEF RejectFrame, AcceptFrame, SetSegmentation, StateAfter, Converting
  <2>6. ASSUME NEW state \in {"SNRM_RESPONSE", "RESPONSE", "DISC_RESPONSE"},
               TimedOut(state)
        PROVE  AddressChecked'
    BY <2>6 DEF TimedOut
  <2>7. CASE Environment
    BY <2>7 DEF Environment, Expire, MdmCopy, MdmCount, MdmSent, LineCopy, LineCount,
                LineError, LineSent, gwVars
  <2>8. CASE UNCHANGED vars
    BY <2>8 DEF vars, gwVars
  <2> QED BY <2>1, <2>2, <2>3, <2>4, <2>5, <2>6, <2>7, <2>8 DEF Next, GW_Run
<1> QED BY <1>1, <1>2, TypeCorrect, PTL DEF Spec

-----------------------------------------------------------------------------
(* The reassembly buffer holds payloads only after a segment, and a poll   *)
(* is sent only while a segment is missing, over any number of exchanges,  *)
(* time-outs and damaged frames.                                           *)
THEOREM BufferIsInStep == Spec => []BufferInStep
<1>1. Init => BufferInStep
  BY DEF Init, BufferInStep
<1>2. BufferInStep /\ [Next]_vars => BufferInStep'
  <2> SUFFICES ASSUME BufferInStep, [Next]_vars PROVE BufferInStep'
    OBVIOUS
  <2> USE DEF BufferInStep
  <2>1. CASE \/ TakeOctets \/ TakeCount \/ WaitForGetFrame \/ SnrmRequest \/ SnrmResponse
             \/ InformationFrame
    BY <2>1 DEF TakeOctets, TakeCount, WaitForGetFrame, SnrmRequest, SnrmResponse,
                InformationFrame
  <2>2. CASE Response \/ ResponseFaults \/ Segment \/ DiscRequest \/ DiscResponse
    BY <2>2 DEF Response, ResponseFaults, Segment, DiscRequest, DiscResponse
  <2>3. CASE RejectFrame
    BY <2>3 DEF RejectFrame, SetSegmentation, SegmentBitAfter, StateAfter, Kept
  <2>4. CASE AcceptFrame
    <3>1. Segment_bit' = SegmentBitAfter(HDLC_tmp)
      BY <2>4 DEF AcceptFrame, SetSegmentation
    <3>2. GW_State' = "SEGMENT" => Segment_bit' = "MIDDLE"
      BY <2>4, <3>1 DEF AcceptFrame, SetSegmentation, SegmentBitAfter, StateAfter
    <3>3. Segment_bit' = "SINGLE" => segBuf' = <<>>
      BY <2>4 DEF AcceptFrame
    <3> QED BY <3>2, <3>3
  <2>5. ASSUME NEW state \in {"SNRM_RESPONSE", "RESPONSE", "DISC_RESPONSE"},
               TimedOut(state)
        PROVE  BufferInStep'
    BY <2>5 DEF TimedOut
  <2>6. CASE Environment
    BY <2>6 DEF Environment, Expire, MdmCopy, MdmCount, MdmSent, LineCopy, LineCount,
                LineError, LineSent, gwVars
  <2>7. CASE UNCHANGED vars
    BY <2>7 DEF vars, gwVars
  <2> QED BY <2>1, <2>2, <2>3, <2>4, <2>5, <2>6, <2>7 DEF Next, GW_Run
<1> QED BY <1>1, <1>2, PTL DEF Spec

-----------------------------------------------------------------------------
(* ReleaseOnly is not inductive: it needs that the flag agrees with the    *)
(* request served, and that DISC_REQUEST is entered with the flag set.     *)
ReleaseInv ==
    /\ GW_State # "WAIT_FOR_GET_FRAME" => (RLRQ_flag <=> GW_tmp.req.kind = "RLRQ")
    /\ GW_State = "DISC_REQUEST" => RLRQ_flag
    /\ ReleaseOnly

(* A DISC in the RS-485 mailbox was always generated for a release request *)
(* of the MDM.                                                             *)
THEOREM DisconnectsOnlyOnRelease == Spec => []ReleaseOnly
<1>1. Init => ReleaseInv
  BY RequestAssumption DEF Init, ReleaseInv, ReleaseOnly
<1>2. TypeOK /\ ReleaseInv /\ [Next]_vars => ReleaseInv'
  <2> SUFFICES ASSUME TypeOK, ReleaseInv, [Next]_vars PROVE ReleaseInv'
    OBVIOUS
  <2> USE DEF ReleaseInv, ReleaseOnly
  <2>1. CASE WaitForGetFrame
    BY <2>1 DEF WaitForGetFrame, IsRelease, Check_GW_Frame_Type
  <2>10. CASE TakeOctets
    BY <2>10 DEF TakeOctets
  <2>11. CASE TakeCount
    BY <2>11 DEF TakeCount, TypeOK
  <2>2. CASE SnrmRequest \/ InformationFrame
    BY <2>2 DEF SnrmRequest, InformationFrame, GW2HDLC_SNRM_Generator,
                GW2HDLC_Frame_Convertor, HdlcFrame
  <2>3. CASE SnrmResponse \/ Response \/ ResponseFaults \/ DiscResponse
    BY <2>3 DEF SnrmResponse, Response, ResponseFaults, DiscResponse
  <2>4. CASE Segment
    BY <2>4 DEF Segment, GW2HDLC_Poll_For_Remained_Data, HdlcFrame
  <2>5. CASE DiscRequest
    BY <2>5 DEF DiscRequest, GW2HDLC_DISC_Generator, HdlcFrame
  <2>6. CASE RejectFrame \/ AcceptFrame
    <3>1. SetSegmentation /\ GW_State = "RESPONSE_FOR_MDM"
      BY <2>6 DEF RejectFrame, AcceptFrame, Converting
    <3> QED BY <3>1 DEF SetSegmentation, StateAfter
  <2>7. ASSUME NEW state \in {"SNRM_RESPONSE", "RESPONSE", "DISC_RESPONSE"},
               TimedOut(state)
        PROVE  ReleaseInv'
    BY <2>7 DEF TimedOut
  <2>8. CASE Environment
    <3>1. UNCHANGED <<GW_State, RLRQ_flag, GW_tmp>> /\ (hdlcTX' = hdlcTX \/ hdlcTX' = None)
      BY <2>8, Zenon DEF Environment, Expire, MdmCopy, MdmCount, MdmSent, LineCopy, LineCount,
                         LineError, LineSent, gwVars
    <3> QED BY <3>1
  <2>9. CASE UNCHANGED vars
    BY <2>9 DEF vars, gwVars
  <2> QED
    BY <2>1, <2>10, <2>11, <2>2, <2>3, <2>4, <2>5, <2>6, <2>7, <2>8, <2>9 DEF Next, GW_Run
<1>3. ReleaseInv => ReleaseOnly
  BY DEF ReleaseInv
<1> QED BY <1>1, <1>2, <1>3, TypeCorrect, PTL DEF Spec

-----------------------------------------------------------------------------
(* The refinement of Exchange, one lemma per kind of step.                 *)

LEMMA TakeStep ==
    ASSUME TypeOK, WaitForGetFrame
    PROVE  \E r \in Requests : TheExchange!Take(r)
<1>1. GW_tmp.req \in Requests /\ GW_State = "WAIT_FOR_GET_FRAME"
  BY DEF TypeOK, Copies, WaitForGetFrame
<1>2. TheExchange!Take(GW_tmp.req)
  BY <1>1 DEF WaitForGetFrame, TheExchange!Take
<1> QED BY <1>1, <1>2

LEMMA InnerStep ==
    ASSUME TypeOK, GW_State # "WAIT_FOR_GET_FRAME",
           UNCHANGED <<GW_tmp, gwTX>>
    PROVE  TheExchange!Abandon \/ UNCHANGED TheExchange!exchangeVars
<1>1. GW_tmp.req # None
  BY NoneAssumption DEF TypeOK, Copies
<1>2. CASE GW_State' = "WAIT_FOR_GET_FRAME"
  BY <1>1, <1>2 DEF TheExchange!Abandon
<1>3. CASE GW_State' # "WAIT_FOR_GET_FRAME"
  BY <1>3 DEF TheExchange!exchangeVars
<1> QED BY <1>2, <1>3

LEMMA AcceptStep ==
    ASSUME TypeOK, AcceptFrame
    PROVE  TheExchange!Answer \/ TheExchange!Wipe
<1>1. GW_tmp.req # None /\ Octets(HDLC_tmp.data) \in Pieces
  BY NoneAssumption, FrameAssumption DEF TypeOK, Copies, Octets, Pieces
<1>2. GW_State = "RESPONSE_FOR_MDM" /\ GW_tmp' = GW_tmp
  BY DEF AcceptFrame, Converting, SetSegmentation
<1>3. /\ Segment_bit' = "MIDDLE" => GW_State' = "SEGMENT"
      /\ Segment_bit' # "MIDDLE" => GW_State' = "WAIT_FOR_GET_FRAME"
  BY DEF AcceptFrame, SetSegmentation, SegmentBitAfter, StateAfter
<1>4. CASE Segment_bit' = "MIDDLE"
  <2>1. gwTX' = None
    BY <1>4 DEF AcceptFrame
  <2> QED BY <1>2, <1>3, <1>4, <2>1 DEF TheExchange!Wipe
<1>5. CASE Segment_bit' # "MIDDLE"
  <2>1. PICK ds \in Seq(Pieces), c \in BOOLEAN : gwTX' = Reply(ds, c)
    <3>1. /\ Append(segBuf, Octets(HDLC_tmp.data)) \in Seq(Pieces)
          /\ <<Octets(HDLC_tmp.data)>> \in Seq(Pieces)
      BY <1>1 DEF TypeOK
    <3> QED BY <1>5, <3>1, Zenon DEF AcceptFrame
  <2>2. gwTX' # None
    BY <2>1, ReplyType DEF TypeOK
  <2>3. gwTX'.for = GW_tmp.req
    BY <2>1 DEF Reply
  <2> QED BY <1>1, <1>2, <1>3, <1>5, <2>2, <2>3 DEF TheExchange!Answer
<1> QED BY <1>4, <1>5

(* Over any meter, line and MDM, the gateway serves one request at a time  *)
(* and answers it at most once, only in the step that ends its service.    *)
THEOREM GatewayImplementsExchange == Spec => ImplementsExchange
<1>1. Init => TheExchange!Init
  BY DEF Init, TheExchange!Init
<1>2. TypeOK /\ [Next]_vars => [TheExchange!Next]_(TheExchange!exchangeVars)
  <2> SUFFICES ASSUME TypeOK, [Next]_vars
               PROVE  TheExchange!Next \/ UNCHANGED TheExchange!exchangeVars
    OBVIOUS
  <2>1. CASE WaitForGetFrame
    BY <2>1, TakeStep DEF TheExchange!Next
  <2>10. CASE TakeOctets \/ TakeCount
    BY <2>10 DEF TakeOctets, TakeCount, TypeOK, TheExchange!exchangeVars
  <2>2. CASE SnrmRequest \/ SnrmResponse \/ InformationFrame
    <3>1. GW_State # "WAIT_FOR_GET_FRAME" /\ UNCHANGED <<GW_tmp, gwTX>>
      BY <2>2 DEF SnrmRequest, SnrmResponse, InformationFrame
    <3> QED BY <3>1, InnerStep DEF TheExchange!Next
  <2>3. CASE Response \/ ResponseFaults \/ Segment \/ DiscRequest \/ DiscResponse
    <3>1. GW_State # "WAIT_FOR_GET_FRAME" /\ UNCHANGED <<GW_tmp, gwTX>>
      BY <2>3 DEF Response, ResponseFaults, Segment, DiscRequest, DiscResponse
    <3> QED BY <3>1, InnerStep DEF TheExchange!Next
  <2>4. CASE RejectFrame
    <3>1. GW_State # "WAIT_FOR_GET_FRAME" /\ UNCHANGED <<GW_tmp, gwTX>>
      BY <2>4 DEF RejectFrame, Converting, SetSegmentation
    <3> QED BY <3>1, InnerStep DEF TheExchange!Next
  <2>5. CASE AcceptFrame
    BY <2>5, AcceptStep DEF TheExchange!Next
  <2>6. ASSUME NEW state \in {"SNRM_RESPONSE", "RESPONSE", "DISC_RESPONSE"},
               TimedOut(state)
        PROVE  TheExchange!Next \/ UNCHANGED TheExchange!exchangeVars
    <3>1. GW_State # "WAIT_FOR_GET_FRAME" /\ UNCHANGED <<GW_tmp, gwTX>>
      BY <2>6 DEF TimedOut
    <3> QED BY <3>1, InnerStep DEF TheExchange!Next
  <2>7. CASE MdmSent
    BY <2>7 DEF MdmSent, gwVars, TheExchange!Next, TheExchange!Wipe
  <2>8. CASE Environment /\ ~MdmSent
    BY <2>8 DEF Environment, Expire, MdmCopy, MdmCount, LineCopy, LineCount, LineError,
                LineSent, gwVars, TheExchange!exchangeVars
  <2>9. CASE UNCHANGED vars
    BY <2>9 DEF vars, gwVars, TheExchange!exchangeVars
  <2> QED
    BY <2>1, <2>10, <2>2, <2>3, <2>4, <2>5, <2>6, <2>7, <2>8, <2>9 DEF Next, GW_Run
<1> QED
  BY <1>1, <1>2, TypeCorrect, PTL DEF Spec, ImplementsExchange, TheExchange!Spec

-----------------------------------------------------------------------------
(* The gateway with a meter, an MDM and a faulty line                      *)

(* Whatever is on the line is a frame; an I-frame on its way to the meter  *)
(* carries a request whose address the convertor has accepted.             *)
MeterFrames == {f \in HdlcFrames : f.type = "I" => f.req.addr = "good"}
Meters == [connected : BOOLEAN, vr : 0..MaxSeq, vs : 0..MaxSeq, unacked : Seq(Frames)]

LinkInv ==
    /\ scenario \in Scenarios
    /\ sent \in Nat
    /\ lineSnd \in {"idle", "written"}
    /\ hdlcTX \in MeterFrames \cup {None}
    /\ toMeter \in Seq(MeterFrames)
    /\ toGateway \in Seq(Frames)
    /\ meter \in Meters

LEMMA SuccType == ASSUME NEW n \in 0..MaxSeq PROVE Succ(n) \in 0..MaxSeq
BY SequenceAssumption, SMT DEF Succ

LEMMA TailType == ASSUME NEW S, NEW q \in Seq(S), q # <<>>
                  PROVE  Head(q) \in S /\ Tail(q) \in Seq(S)
OBVIOUS

-----------------------------------------------------------------------------
(* Each step of the link is one of the gateway or of its environment, or   *)
(* changes nothing of either *)
LEMMA LinkStepIsStep == LinkInv /\ [LinkNext]_allVars => [Next]_vars
<1> SUFFICES ASSUME LinkInv, [LinkNext]_allVars PROVE [Next]_vars
  OBVIOUS
<1>1. CASE GatewayStep
  BY <1>1 DEF GatewayStep, Next
<1>2. CASE ExpireStep
  BY <1>2 DEF ExpireStep, Next, Environment
<1>3. CASE MdmSend
  <2>1. sent + 1 \in 1..Len(Script) /\ Script \in Seq(Requests)
    BY <1>3, ScenarioAssumption DEF MdmSend, LinkInv, Script
  <2>2. Script[sent + 1] \in Requests
    BY <2>1
  <2> QED BY <1>3, <2>2 DEF MdmSend, Next, Environment
<1>4. CASE MdmStep
  BY <1>4 DEF MdmStep, Next, Environment
<1>5. CASE LineWrite \/ MeterStep
  BY <1>5, Zenon DEF LineWrite, MeterStep
<1>6. CASE LineWritten
  BY <1>6 DEF LineWritten, Next, Environment
<1>7. CASE LineRead
  <2>1. Head(toGateway) \in Frames
    BY <1>7 DEF LineRead, LinkInv
  <2>2. FirstPiece(Head(toGateway)) \in Frames
    BY <2>1, MeterAssumption
  <2> QED BY <1>7, <2>1, <2>2, Zenon DEF LineRead, Next, Environment
<1>8. CASE LineCounted \/ LineFailed
  BY <1>8 DEF LineCounted, LineFailed, Next, Environment
<1>9. CASE UNCHANGED allVars
  BY <1>9, Zenon DEF allVars
<1> QED BY <1>1, <1>2, <1>3, <1>4, <1>5, <1>6, <1>7, <1>8, <1>9 DEF LinkNext

-----------------------------------------------------------------------------
LEMMA GeneratedType ==
    ASSUME TypeOK
    PROVE  /\ GW2HDLC_SNRM_Generator \in MeterFrames
           /\ GW2HDLC_DISC_Generator \in MeterFrames
           /\ GW2HDLC_Poll_For_Remained_Data \in MeterFrames
           /\ AddressOK(GW_tmp.req) => GW2HDLC_Frame_Convertor \in MeterFrames
BY HdlcFrameType
DEF MeterFrames, GW2HDLC_SNRM_Generator, GW2HDLC_DISC_Generator,
    GW2HDLC_Poll_For_Remained_Data, GW2HDLC_Frame_Convertor, HdlcFrame, AddressOK

LEMMA GatewayFrames ==
    ASSUME TypeOK, hdlcTX \in MeterFrames \cup {None}, GW_Run
    PROVE  hdlcTX' \in MeterFrames \cup {None}
<1>1. CASE \/ TakeOctets \/ TakeCount \/ WaitForGetFrame \/ SnrmResponse \/ Response
           \/ ResponseFaults \/ DiscResponse \/ RejectFrame \/ AcceptFrame
  BY <1>1, Zenon DEF TakeOctets, TakeCount, WaitForGetFrame, SnrmResponse, Response,
                     ResponseFaults, DiscResponse, RejectFrame, AcceptFrame, SetSegmentation
<1>2. CASE SnrmRequest \/ InformationFrame
  BY <1>2, GeneratedType, Zenon DEF SnrmRequest, InformationFrame
<1>3. CASE Segment \/ DiscRequest
  BY <1>3, GeneratedType, Zenon DEF Segment, DiscRequest
<1>4. ASSUME NEW state \in {"SNRM_RESPONSE", "RESPONSE", "DISC_RESPONSE"}, TimedOut(state)
      PROVE  hdlcTX' = hdlcTX
  BY <1>4, Zenon DEF TimedOut
<1> QED BY <1>1, <1>2, <1>3, <1>4 DEF GW_Run

(* What the meter sends is in Frames *)
LEMMA Reply1Type ==
    ASSUME NEW f \in Frames, toGateway \in Seq(Frames), Reply1(f)
    PROVE  toGateway' \in Seq(Frames)
<1>1. f.valid => Damaged(f) \in Frames
  BY MeterAssumption
<1> QED BY <1>1 DEF Reply1, Fault

LEMMA AnswerType ==
    ASSUME LinkInv, NEW f \in MeterFrames, f.type = "I"
    PROVE  /\ AnswerFrame(f.req.id, 1) \in Frames
           /\ AnswerFrames(f.req.id) \in Seq(Frames)
<1>1. f.req \in Requests /\ f.req.addr = "good" /\ scenario \in Scenarios
  BY DEF MeterFrames, HdlcFrames, LinkInv
<1>2. /\ Segments[f.req.id] \in Nat \ {0}
      /\ \A k \in 1..Segments[f.req.id] : AnswerFrame(f.req.id, k) \in Frames
  BY <1>1, MeterAssumption DEF Segments, AnswerFrame
<1> QED BY <1>2 DEF AnswerFrames

LEMMA MeterKeeps ==
    ASSUME LinkInv, MeterStep
    PROVE  toMeter' \in Seq(MeterFrames) /\ toGateway' \in Seq(Frames) /\ meter' \in Meters
<1> DEFINE f == Head(toMeter)
<1>1. f \in MeterFrames /\ toMeter' \in Seq(MeterFrames)
  BY DEF MeterStep, LinkInv
<1>2. Bare \in Frames
  BY MeterAssumption
<1>3. /\ toGateway \in Seq(Frames) /\ meter \in Meters
      /\ meter.unacked \in Seq(Frames) /\ meter.connected \in BOOLEAN
      /\ meter.vr \in 0..MaxSeq /\ meter.vs \in 0..MaxSeq
  BY DEF LinkInv, Meters
<1>4. Succ(meter.vr) \in 0..MaxSeq /\ Succ(meter.vs) \in 0..MaxSeq /\ 0 \in 0..MaxSeq
  <2>1. 0 \in 0..MaxSeq
    BY SequenceAssumption
  <2> QED BY <1>3, <2>1, SuccType, Zenon
<1>5. CASE MeterConnect(f)
  <2>1. toGateway' \in Seq(Frames)
    BY <1>2, <1>3, <1>5, Reply1Type, Zenon DEF MeterConnect
  <2>2. meter' \in Meters
    BY <1>4, <1>5 DEF MeterConnect, Meters
  <2> QED BY <1>1, <2>1, <2>2
<1>6. CASE MeterDisconnect(f)
  <2>1. toGateway' \in Seq(Frames)
    BY <1>2, <1>3, <1>6, Reply1Type, Zenon DEF MeterDisconnect
  <2>2. meter' \in Meters
    <3>1. <<>> \in Seq(Frames) /\ FALSE \in BOOLEAN
      OBVIOUS
    <3>2. meter' = [meter EXCEPT !.connected = FALSE, !.unacked = <<>>]
      BY <1>6, Zenon DEF MeterDisconnect
    <3> QED BY <1>3, <3>1, <3>2 DEF Meters
  <2> QED BY <1>1, <2>1, <2>2
<1>7. CASE MeterAnswer(f)
  <2>1. AnswerFrame(f.req.id, 1) \in Frames /\ AnswerFrames(f.req.id) \in Seq(Frames)
    BY <1>1, <1>7, AnswerType DEF MeterAnswer
  <2>2. meter' \in Meters
    BY <2>1, <1>3, <1>4, <1>7 DEF MeterAnswer, Meters
  <2>3. toGateway' \in Seq(Frames)
    BY <2>1, <1>3, <1>7, Reply1Type DEF MeterAnswer
  <2> QED BY <1>1, <2>2, <2>3
<1>8. CASE MeterNextSegment(f)
  <2>1. Head(meter.unacked) \in Frames /\ Tail(meter.unacked) \in Seq(Frames)
    BY <1>3, <1>8 DEF MeterNextSegment
  <2>2. CASE f.nr = meter.vs /\ Len(meter.unacked) > 1
    <3>1. meter.unacked[2] \in Frames
      BY <1>3, <2>2
    <3>2. meter' = [meter EXCEPT !.vs = Succ(meter.vs), !.unacked = Tail(meter.unacked)]
      BY <1>8, <2>2, Zenon DEF MeterNextSegment
    <3>3. Reply1(meter.unacked[2])
      BY <1>8, <2>2, Zenon DEF MeterNextSegment
    <3>4. meter' \in Meters
      BY <1>3, <1>4, <2>1, <3>2 DEF Meters
    <3>5. toGateway' \in Seq(Frames)
      BY <1>3, <3>1, <3>3, Reply1Type
    <3> QED BY <1>1, <3>4, <3>5
  <2>3. CASE ~(f.nr = meter.vs /\ Len(meter.unacked) > 1)
    <3>1. Reply1(Head(meter.unacked)) /\ meter' = meter
      BY <1>8, <2>3, Zenon DEF MeterNextSegment
    <3> QED BY <1>1, <1>3, <2>1, <3>1, Reply1Type
  <2> QED BY <2>2, <2>3
<1>9. CASE MeterRefuse(f)
  <2>1. Reply1(Bare) /\ meter' = meter
    BY <1>9, Zenon DEF MeterRefuse
  <2> QED BY <1>1, <1>2, <1>3, <2>1, Reply1Type
<1> QED BY <1>5, <1>6, <1>7, <1>8, <1>9, Zenon DEF MeterStep

LEMMA LinkInvStep == TypeOK /\ LinkInv /\ [LinkNext]_allVars => LinkInv'
<1> SUFFICES ASSUME TypeOK, LinkInv, [LinkNext]_allVars PROVE LinkInv'
  OBVIOUS
<1> USE DEF LinkInv
<1>1. CASE GatewayStep
  BY <1>1, GatewayFrames DEF GatewayStep, linkVars
<1>2. CASE ExpireStep
  BY <1>2 DEF ExpireStep, Expire, linkVars
<1>3. CASE MdmSend
  BY <1>3 DEF MdmSend, MdmCopy
<1>4. CASE MdmStep
  BY <1>4 DEF MdmStep, MdmCount, MdmSent, linkVars
<1>5. CASE LineWrite
  <2>1. hdlcTX \in MeterFrames /\ hdlcTX' = hdlcTX
    BY <1>5 DEF LineWrite, vars
  <2>2. toMeter' \in Seq(MeterFrames)
    BY <1>5, <2>1 DEF LineWrite
  <2> QED BY <1>5, <2>1, <2>2, Zenon DEF LineWrite
<1>6. CASE LineWritten
  BY <1>6 DEF LineWritten, LineSent
<1>7. CASE LineRead
  <2>1. toGateway' \in Seq(Frames)
    <3>1. Tail(toGateway) \in Seq(Frames) /\ <<SecondPiece>> \o Tail(toGateway) \in Seq(Frames)
      BY <1>7, FrameAssumption DEF LineRead, SecondPiece
    <3> QED BY <1>7, <3>1, Zenon DEF LineRead
  <2>2. hdlcTX' = hdlcTX
    BY <1>7, Zenon DEF LineRead, LineCopy
  <2> QED BY <1>7, <2>1, <2>2, Zenon DEF LineRead
<1>8. CASE LineCounted \/ LineFailed
  BY <1>8 DEF LineCounted, LineCount, LineFailed, LineError, linkVars
<1>9. CASE MeterStep
  BY <1>9, MeterKeeps, Zenon DEF MeterStep, vars
<1>10. CASE UNCHANGED allVars
  BY <1>10 DEF allVars, linkVars, vars
<1> QED
  BY <1>1, <1>2, <1>3, <1>4, <1>5, <1>6, <1>7, <1>8, <1>9, <1>10 DEF LinkNext

LEMMA LinkInvInit == LinkInit => LinkInv
<1> SUFFICES ASSUME LinkInit PROVE LinkInv
  OBVIOUS
<1>1. meter \in Meters
  BY SequenceAssumption DEF LinkInit, Meters
<1>2. hdlcTX = None
  BY DEF LinkInit, Init
<1> QED BY <1>1, <1>2 DEF LinkInit, LinkInv

LEMMA LinkInvariance == LinkSpec => [](TypeOK /\ LinkInv)
<1>1. LinkInit => TypeOK /\ LinkInv
  BY TypeInit, LinkInvInit DEF LinkInit
<1>2. TypeOK /\ LinkInv /\ [LinkNext]_allVars => (TypeOK /\ LinkInv)'
  BY LinkStepIsStep, TypeStep, LinkInvStep
<1> QED BY <1>1, <1>2, PTL DEF LinkSpec

(* The gateway between the line threads, any meter that keeps to these     *)
(* rules, and an MDM with any script behaves as Gateway, whatever is lost, *)
(* damaged, split or late: what holds of Gateway holds here.               *)
LEMMA LinkImplementsGateway == LinkSpec => Spec
<1>1. LinkInit => Init
  BY DEF LinkInit
<1> QED BY <1>1, LinkInvariance, LinkStepIsStep, PTL DEF LinkSpec, Spec

-----------------------------------------------------------------------------
(* A line that only loses frames.  There is at most one frame under way:   *)
(* to the meter (Command), or back (Received), and none when the gateway   *)
(* is not waiting for one, although an old one may lie in the mailbox.     *)
Orderly == Faults \subseteq {"loss"}

Sending  == hdlcTX # None \/ toMeter # <<>>
Command  == IF toMeter # <<>> THEN Head(toMeter) ELSE hdlcTX
Replied  == toGateway # <<>> \/ lineRcv = "copied" \/ hdlcRX_Count = 1
Received == IF toGateway # <<>> THEN Head(toGateway) ELSE hdlcRX

WireInv ==
    /\ lineSnd = "written" => hdlcTX # None /\ (toMeter # <<>> => Head(toMeter) = hdlcTX)
    /\ lineSnd = "idle" /\ hdlcTX # None => toMeter = <<>>
    /\ Len(toMeter) <= 1 /\ Len(toGateway) <= 1
    /\ Sending => ~Replied
    /\ toGateway # <<>> => lineRcv = "idle" /\ hdlcRX_Count = 0
    /\ lineRcv = "copied" => hdlcRX_Count = 0
    /\ hdlcRX_Count # TooMany

LineInv ==
    /\ WireInv
    /\ ~Awaited => ~Sending /\ toGateway = <<>> /\ lineRcv = "idle"
    /\ Awaited /\ expired => ~Sending /\ ~Replied
    /\ GW_State \in {"SEGMENT", "RESPONSE_FOR_MDM", "DISC_REQUEST"} => ~expired

(* The gateway copies a request and its count; only the count may change   *)
(* once the octets are there.                                              *)
LEMMA Taking ==
    ASSUME TypeOK, TakeOctets \/ TakeCount
    PROVE  /\ GW_State = "WAIT_FOR_GET_FRAME" /\ GW_State' = GW_State
           /\ UNCHANGED <<RLRQ_flag, HDLC_tmp, RRR, SSS, expired, Segment_bit, segBuf,
                          mdmVars, gwTX, lineVars, hdlcTX>>
           /\ GW_tmp'.req = gwRX \/ GW_tmp'.req = GW_tmp.req
<1>1. GW_State = "WAIT_FOR_GET_FRAME"
  BY DEF TypeOK, TakeOctets, TakeCount
<1>2. CASE TakeOctets
  <2>1. GW_tmp' = [GW_tmp EXCEPT !.req = gwRX]
    BY <1>2, Zenon DEF TakeOctets
  <2>2. GW_tmp'.req = gwRX
    BY <2>1 DEF TypeOK, Copies
  <2> QED BY <1>1, <1>2, <2>2, Zenon DEF TakeOctets
<1>3. CASE TakeCount
  <2>1. GW_tmp' = [GW_tmp EXCEPT !.count = gwRX_Count]
    BY <1>3, Zenon DEF TakeCount
  <2>2. GW_tmp'.req = GW_tmp.req
    BY <2>1 DEF TypeOK, Copies
  <2> QED BY <1>1, <1>3, <2>2, Zenon DEF TakeCount
<1> QED BY <1>2, <1>3

(* then it starts to serve it *)
LEMMA Taken1 ==
    ASSUME TypeOK, WaitForGetFrame
    PROVE  /\ GW_State = "WAIT_FOR_GET_FRAME"
           /\ GW_State' \in {"SNRM_REQUEST", "INFORMATION_FRAME"}
           /\ UNCHANGED <<GW_tmp, HDLC_tmp, RRR, SSS, expired, Segment_bit, segBuf, gwRX,
                          gwTX, lineVars, hdlcTX>>
           /\ GW_State' = "SNRM_REQUEST" <=> GW_tmp.req.kind = "AARQ"
           /\ RLRQ_flag' <=> GW_tmp.req.kind = "RLRQ"
BY DEF TypeOK, WaitForGetFrame, IsRelease, Check_GW_Frame_Type

(* The environment's part of a step, on such a line *)
LEMMA Shorter == ASSUME NEW S, NEW q \in Seq(S), q # <<>>, Len(q) <= 1
                 PROVE  Tail(q) = <<>>
OBVIOUS

LEMMA Longer == ASSUME NEW S, NEW e \in S
                PROVE  /\ Append(<<>>, e) # <<>> /\ Len(Append(<<>>, e)) <= 1
                       /\ Head(Append(<<>>, e)) = e
OBVIOUS

LEMMA Shortest == Len(<<>>) <= 1
OBVIOUS

LEMMA WriteEffect ==
    ASSUME TypeOK, LinkInv, LineInv, LineWrite
    PROVE  /\ Sending /\ Sending' /\ Command' = Command /\ Replied' = Replied
           /\ lineSnd' = "written" /\ hdlcTX' # None
           /\ toMeter' # <<>> => Head(toMeter') = hdlcTX'
           /\ Len(toMeter') <= 1 /\ UNCHANGED <<vars, toGateway, scenario, meter>>
           /\ "loss" \notin Faults => toMeter' # <<>>
<1>1. hdlcTX # None /\ toMeter = <<>> /\ hdlcTX \in MeterFrames
  BY DEF LineWrite, LineInv, WireInv, LinkInv
<1>2. UNCHANGED <<vars, toGateway, scenario, meter>> /\ lineSnd' = "written"
  BY Zenon DEF LineWrite
<1>3. hdlcTX' = hdlcTX /\ Replied' = Replied
  BY <1>2 DEF vars, lineVars, Replied
<1>4. \/ toMeter' = Append(<<>>, hdlcTX)
      \/ toMeter' = <<>> /\ "loss" \in Faults
  BY <1>1, Zenon DEF LineWrite, Fault
<1>5. Len(toMeter') <= 1 /\ (toMeter' # <<>> => Head(toMeter') = hdlcTX)
  BY <1>1, <1>4, Longer, Shortest, Zenon
<1>6. "loss" \notin Faults => toMeter' # <<>>
  BY <1>1, <1>4, Longer, Zenon
<1>7. Sending /\ Sending' /\ Command' = Command
  BY <1>1, <1>3, <1>5, Zenon DEF Sending, Command
<1> QED BY <1>1, <1>2, <1>3, <1>5, <1>6, <1>7, Zenon

LEMMA WrittenEffect ==
    ASSUME LinkInv, LineWritten
    PROVE  /\ lineSnd' = "idle" /\ hdlcTX' = None
           /\ UNCHANGED <<gwVars, lineVars, toMeter, toGateway, scenario, meter>>
           /\ lineSnd = "written"
BY Zenon DEF LineWritten, LineSent

LEMMA ReadEffect ==
    ASSUME LinkInv, LineInv, Orderly, LineRead
    PROVE  /\ Replied /\ Replied' /\ Received' = Received
           /\ toGateway' = <<>> /\ lineRcv' = "copied" /\ hdlcRX_Count' = 0
           /\ UNCHANGED <<gwVars, hdlcTX, lineSnd, toMeter, scenario, meter>>
<1>1. toGateway # <<>> /\ hdlcRX_Count = 0 /\ Tail(toGateway) = <<>>
  <2>1. toGateway # <<>> /\ Len(toGateway) <= 1 /\ toGateway \in Seq(Frames)
    BY Zenon DEF LineRead, LineInv, WireInv, LinkInv
  <2> QED BY <2>1, Shorter, Zenon DEF LineInv, WireInv
<1>2. "split" \notin Faults
  BY DEF Orderly
<1>3. LineCopy(Head(toGateway)) /\ toGateway' = <<>>
  BY <1>1, <1>2, Zenon DEF LineRead, Fault
<1>4. hdlcRX' = Head(toGateway) /\ lineRcv' = "copied" /\ hdlcRX_Count' = hdlcRX_Count
      /\ UNCHANGED <<gwVars, hdlcTX>>
  BY <1>3, Zenon DEF LineCopy
<1>5. UNCHANGED <<lineSnd, toMeter, scenario, meter>>
  BY Zenon DEF LineRead
<1> QED BY <1>1, <1>3, <1>4, <1>5, Zenon DEF Replied, Received

LEMMA CountEffect ==
    ASSUME LineInv, LineCounted
    PROVE  /\ lineRcv = "copied" /\ toGateway = <<>>
           /\ Replied /\ Replied' /\ Received' = Received
           /\ lineRcv' = "idle" /\ hdlcRX_Count' = 1
           /\ UNCHANGED <<gwVars, hdlcTX, lineSnd, toMeter, toGateway, scenario, meter>>
<1>1. /\ lineRcv = "copied" /\ lineRcv' = "idle" /\ hdlcRX_Count' = 1
      /\ UNCHANGED <<gwVars, hdlcTX, hdlcRX, lineSnd, toMeter, toGateway, scenario, meter>>
  BY Zenon DEF LineCounted, LineCount, linkVars
<1>2. toGateway = <<>>
  BY <1>1 DEF LineInv, WireInv
<1> QED BY <1>1, <1>2, Zenon DEF Replied, Received

LEMMA Reply1Effect ==
    ASSUME NEW g \in Frames, toGateway = <<>>, Orderly, Reply1(g)
    PROVE  /\ Len(toGateway') <= 1 /\ (toGateway' # <<>> => Head(toGateway') = g)
           /\ "loss" \notin Faults => toGateway' # <<>>
<1>1. "damage" \notin Faults
  BY DEF Orderly
<1>2. \/ toGateway' = Append(<<>>, g)
      \/ toGateway' = <<>> /\ "loss" \in Faults
  BY <1>1, Zenon DEF Reply1, Fault
<1> QED BY <1>2, Longer, Shortest, Zenon

(* no read() fails *)
LEMMA NoError == Orderly => ~LineFailed
<1>1. Orderly => "error" \notin Faults
  BY DEF Orderly
<1> QED BY <1>1, Zenon DEF LineFailed, Fault

(* The meter takes the command; its answer, one of Frames, is under way    *)
(* unless it is lost *)
LEMMA MeterEffect ==
    ASSUME LinkInv, LineInv, Orderly, MeterStep
    PROVE  /\ Sending /\ ~Replied /\ Command \in MeterFrames
           /\ hdlcTX = None /\ lineSnd = "idle" /\ toMeter' = <<>>
           /\ toGateway = <<>> /\ lineRcv # "copied" /\ hdlcRX_Count # 1
           /\ Command = Head(toMeter)
           /\ UNCHANGED <<vars, lineSnd, scenario>>
<1>1. /\ toMeter # <<>> /\ lineSnd = "idle" /\ toMeter' = Tail(toMeter)
      /\ UNCHANGED <<vars, lineSnd, scenario>>
  <2>1. "slow" \notin Faults
    BY DEF Orderly
  <2> QED BY <2>1, Zenon DEF MeterStep
<1>2. toMeter \in Seq(MeterFrames) /\ Len(toMeter) <= 1
  BY Zenon DEF LinkInv, LineInv, WireInv
<1>3. Head(toMeter) \in MeterFrames /\ toMeter' = <<>>
  BY <1>1, <1>2, Shorter, TailType, Zenon
<1>4. hdlcTX = None /\ Sending
  BY <1>1, Zenon DEF LineInv, WireInv, Sending
<1>5. ~Replied
  BY <1>4, Zenon DEF LineInv, WireInv
<1> QED BY <1>1, <1>3, <1>4, <1>5, Zenon DEF Replied, Command

(* What the meter answers with is one of Frames *)
LEMMA MeterSends ==
    ASSUME LinkInv, NEW f \in MeterFrames,
           \/ MeterConnect(f) \/ MeterDisconnect(f) \/ MeterAnswer(f)
           \/ MeterNextSegment(f) \/ MeterRefuse(f)
    PROVE  \E g \in Frames : Reply1(g)
<1>1. CASE MeterConnect(f) \/ MeterDisconnect(f) \/ MeterRefuse(f)
  BY <1>1, MeterAssumption, Zenon DEF MeterConnect, MeterDisconnect, MeterRefuse
<1>2. CASE MeterAnswer(f)
  BY <1>2, AnswerType, Zenon DEF MeterAnswer
<1>3. CASE MeterNextSegment(f)
  <2>1. meter.unacked \in Seq(Frames) /\ Len(meter.unacked) > 0
    BY <1>3 DEF MeterNextSegment, LinkInv, Meters
  <2>2. Head(meter.unacked) \in Frames
    BY <2>1
  <2>3. Len(meter.unacked) > 1 => meter.unacked[2] \in Frames
    BY <2>1
  <2> QED BY <1>3, <2>2, <2>3, Zenon DEF MeterNextSegment
<1> QED BY <1>1, <1>2, <1>3

LEMMA MeterLine ==
    ASSUME LinkInv, LineInv, Orderly, MeterStep
    PROVE  Len(toGateway') <= 1
<1>1. toGateway = <<>> /\ Head(toMeter) \in MeterFrames
  BY MeterEffect
<1>2. \E g \in Frames : Reply1(g)
  BY <1>1, MeterSends, Zenon DEF MeterStep
<1> QED BY <1>1, <1>2, Reply1Effect

(* The gateway's part: it starts to wait with the line quiet, takes what   *)
(* has come, or does neither *)
EmptyLine == toMeter = <<>> /\ toGateway = <<>> /\ lineRcv = "idle" /\ lineSnd = "idle"

LEMMA Resting ==
    ASSUME EmptyLine', hdlcTX' = None, ~Awaited', hdlcRX_Count' # TooMany,
           expired' => GW_State' \notin {"SEGMENT", "RESPONSE_FOR_MDM", "DISC_REQUEST"}
    PROVE  LineInv'
<1> QED BY Shortest, Zenon DEF EmptyLine, LineInv, WireInv, Sending, Replied

LEMMA Started ==
    ASSUME EmptyLine', hdlcRX_Count' = 0, ~expired', Awaited'
    PROVE  LineInv'
<1>3. hdlcRX_Count' # TooMany
  BY DEF TooMany
<1>1. ~Replied'
  BY DEF EmptyLine, Replied
<1>2. GW_State' \notin {"SEGMENT", "RESPONSE_FOR_MDM", "DISC_REQUEST"}
  BY DEF Awaited
<1> QED BY <1>1, <1>2, <1>3, Shortest, Zenon DEF EmptyLine, LineInv, WireInv

LEMMA NotAwaited ==
    ASSUME LineInv, ~Awaited, LinkInv
    PROVE  EmptyLine /\ hdlcTX = None
BY Zenon DEF LineInv, WireInv, EmptyLine, Sending, LinkInv

LEMMA Got ==
    ASSUME TypeOK, LinkInv, LineInv, hdlcRX_Count > 0
    PROVE  /\ EmptyLine /\ hdlcTX = None /\ Replied /\ Received = hdlcRX
           /\ Awaited => ~expired
<1>1. hdlcRX_Count = 1
  BY SMT DEF TypeOK, LineInv, WireInv, TooMany
<1>2. Replied /\ hdlcRX_Count # 0
  BY <1>1 DEF Replied
<1> QED BY <1>1, <1>2, Zenon DEF LineInv, WireInv, EmptyLine, Sending, Received, LinkInv, TypeOK

LEMMA GatewayLine ==
    ASSUME TypeOK, LinkInv, LineInv, GatewayStep
    PROVE  LineInv'
<1>1. UNCHANGED <<toMeter, toGateway, lineSnd>> /\ hdlcRX_Count # TooMany
  BY Zenon DEF GatewayStep, linkVars, LineInv, WireInv
<1>10. 0 # TooMany
  BY DEF TooMany
<1>2. CASE TakeOctets \/ TakeCount \/ WaitForGetFrame
  <2>1. UNCHANGED <<lineVars, hdlcTX>> /\ GW_State = "WAIT_FOR_GET_FRAME"
        /\ GW_State' \in {"WAIT_FOR_GET_FRAME", "SNRM_REQUEST", "INFORMATION_FRAME"}
    BY <1>2, Taking, Taken1
  <2>2. ~Awaited /\ ~Awaited' /\ GW_State' \notin {"SEGMENT", "RESPONSE_FOR_MDM", "DISC_REQUEST"}
    BY <2>1 DEF Awaited
  <2> QED BY <1>1, <2>1, <2>2, NotAwaited, Resting, Zenon DEF EmptyLine, lineVars
<1>11. CASE ResponseFaults
  BY <1>1, <1>11 DEF ResponseFaults
<1>3. CASE SnrmRequest
  <2>1. ~Awaited /\ lineRcv' = lineRcv /\ hdlcRX_Count' = 0
    BY <1>3 DEF Flush, SnrmRequest, Awaited
  <2>2. CASE AddressLengthOK(GW_tmp.req)
    <3>1. ~expired' /\ GW_State' = "SNRM_RESPONSE"
      BY <1>3, <2>2, Zenon DEF SnrmRequest
    <3> QED BY <1>1, <2>1, <3>1, NotAwaited, Started, Zenon DEF EmptyLine, Awaited
  <2>3. CASE ~AddressLengthOK(GW_tmp.req)
    <3>1. hdlcTX' = hdlcTX /\ GW_State' = "WAIT_FOR_GET_FRAME"
      BY <1>3, <2>3, Zenon DEF SnrmRequest
    <3>2. ~Awaited' /\ GW_State' \notin {"SEGMENT", "RESPONSE_FOR_MDM", "DISC_REQUEST"}
      BY <3>1 DEF Awaited
    <3> QED BY <1>1, <2>1, <3>1, <3>2, <1>10, NotAwaited, Resting, Zenon DEF EmptyLine
  <2> QED BY <2>2, <2>3
<1>4. CASE InformationFrame
  <2>1. ~Awaited /\ lineRcv' = lineRcv /\ hdlcRX_Count' = 0
    BY <1>4 DEF Flush, InformationFrame, Awaited
  <2>2. CASE AddressOK(GW_tmp.req)
    <3>1. ~expired' /\ GW_State' = "RESPONSE"
      BY <1>4, <2>2, Zenon DEF InformationFrame
    <3> QED BY <1>1, <2>1, <3>1, NotAwaited, Started, Zenon DEF EmptyLine, Awaited
  <2>3. CASE ~AddressOK(GW_tmp.req)
    <3>1. hdlcTX' = hdlcTX /\ GW_State' = "WAIT_FOR_GET_FRAME"
      BY <1>4, <2>3, Zenon DEF InformationFrame
    <3>2. ~Awaited' /\ GW_State' \notin {"SEGMENT", "RESPONSE_FOR_MDM", "DISC_REQUEST"}
      BY <3>1 DEF Awaited
    <3> QED BY <1>1, <2>1, <3>1, <3>2, <1>10, NotAwaited, Resting, Zenon DEF EmptyLine
  <2> QED BY <2>2, <2>3
<1>5. CASE Segment
  <2>1. /\ ~Awaited /\ lineRcv' = lineRcv /\ hdlcRX_Count' = 0
        /\ GW_State' = "RESPONSE"
    BY <1>5 DEF Flush, Segment, Awaited
  <2>2. ~expired'
    BY <1>5, Zenon DEF Segment, LineInv, WireInv
  <2> QED BY <1>1, <2>1, <2>2, NotAwaited, Started, Zenon DEF EmptyLine, Awaited
<1>6. CASE DiscRequest
  <2>1. ~Awaited /\ lineRcv' = lineRcv /\ hdlcRX_Count' = 0
    BY <1>6 DEF Flush, DiscRequest, Awaited
  <2>2. ~expired'
    BY <1>6, Zenon DEF DiscRequest, LineInv, WireInv
  <2>3. CASE AddressLengthOK(GW_tmp.req)
    <3>1. GW_State' = "DISC_RESPONSE"
      BY <1>6, <2>3, Zenon DEF DiscRequest
    <3> QED BY <1>1, <2>1, <2>2, <3>1, NotAwaited, Started, Zenon DEF EmptyLine, Awaited
  <2>4. CASE ~AddressLengthOK(GW_tmp.req)
    <3>1. GW_State' = "RESPONSE_FOR_MDM" /\ hdlcTX' = hdlcTX
      BY <1>6, <2>4, Zenon DEF DiscRequest
    <3>2. ~Awaited'
      BY <3>1 DEF Awaited
    <3> QED BY <1>1, <2>1, <2>2, <3>1, <3>2, <1>10, NotAwaited, Resting, Zenon DEF EmptyLine
  <2> QED BY <2>3, <2>4
<1>7. CASE SnrmResponse \/ Response \/ DiscResponse
  <2>1. hdlcRX_Count > 0 /\ Awaited /\ ~Awaited'
    BY <1>7 DEF SnrmResponse, Response, DiscResponse, Awaited
  <2>2. EmptyLine /\ hdlcTX = None /\ ~expired
    BY <2>1, Got
  <2>3. UNCHANGED <<lineRcv, hdlcTX, expired>>
        /\ (hdlcRX_Count' = hdlcRX_Count \/ hdlcRX_Count' = 0)
    BY <1>7, Zenon DEF SnrmResponse, Response, DiscResponse, lineVars
  <2> QED BY <1>1, <1>10, <2>1, <2>2, <2>3, Resting, Zenon DEF EmptyLine
<1>8. CASE RejectFrame \/ AcceptFrame
  <2>1. ~Awaited /\ ~Awaited'
    BY <1>8 DEF RejectFrame, AcceptFrame, Converting, SetSegmentation, StateAfter, Awaited
  <2>2. UNCHANGED <<lineRcv, hdlcTX, expired, hdlcRX_Count>> /\ ~expired
    BY <1>8, Zenon DEF RejectFrame, AcceptFrame, Converting, SetSegmentation, lineVars, LineInv, WireInv
  <2> QED BY <1>1, <2>1, <2>2, NotAwaited, Resting, Zenon DEF EmptyLine
<1>9. ASSUME NEW state \in {"SNRM_RESPONSE", "RESPONSE", "DISC_RESPONSE"}, TimedOut(state)
      PROVE  LineInv'
  <2>1. GW_State' = "WAIT_FOR_GET_FRAME" /\ expired /\ UNCHANGED <<lineVars, hdlcTX>> /\ Awaited
    BY <1>9, Zenon DEF TimedOut, Awaited
  <2>2. ~Awaited' /\ GW_State' \notin {"SEGMENT", "RESPONSE_FOR_MDM", "DISC_REQUEST"}
    BY <2>1 DEF Awaited
  <2>3. ~Sending /\ ~Replied
    BY <2>1, Zenon DEF LineInv, WireInv
  <2>4. EmptyLine /\ hdlcTX = None
    BY <2>3, Zenon DEF LineInv, WireInv, EmptyLine, Sending, Replied, LinkInv, TypeOK
  <2> QED BY <1>1, <2>1, <2>2, <2>4, Resting, Zenon DEF EmptyLine, lineVars
<1> QED
  BY <1>2, <1>11, <1>3, <1>4, <1>5, <1>6, <1>7, <1>8, <1>9, Zenon DEF GatewayStep, GW_Run

LEMMA Waiting == ASSUME WireInv', Awaited', ~expired' PROVE LineInv'
<1>1. GW_State' \notin {"SEGMENT", "RESPONSE_FOR_MDM", "DISC_REQUEST"}
  BY DEF Awaited
<1> QED BY <1>1, Zenon DEF LineInv

LEMMA ScenarioFixed == [LinkNext]_allVars => scenario' = scenario
<1> SUFFICES ASSUME [LinkNext]_allVars PROVE scenario' = scenario
  OBVIOUS
<1>1. CASE GatewayStep \/ ExpireStep \/ MdmStep \/ LineCounted
  BY <1>1, Zenon DEF GatewayStep, ExpireStep, MdmStep, LineCounted, linkVars
<1>2. CASE MdmSend \/ LineWrite \/ LineWritten
  BY <1>2, Zenon DEF MdmSend, LineWrite, LineWritten
<1>3. CASE LineRead \/ MeterStep
  BY <1>3, Zenon DEF LineRead, MeterStep
<1>4. CASE UNCHANGED allVars \/ LineFailed
  BY <1>4, Zenon DEF allVars, linkVars, LineFailed
<1> QED BY <1>1, <1>2, <1>3, <1>4, Zenon DEF LinkNext

LEMMA LineStep ==
    TypeOK /\ LinkInv /\ LineInv /\ Orderly /\ [LinkNext]_allVars => LineInv'
<1> SUFFICES ASSUME TypeOK, LinkInv, LineInv, Orderly, [LinkNext]_allVars PROVE LineInv'
  OBVIOUS
<1>2. WireInv
  BY Zenon DEF LineInv
<1>3. CASE GatewayStep
  BY <1>3, GatewayLine
<1>4. CASE ExpireStep
  <2>1. ~Sending /\ ~Replied /\ Awaited
    <3>1. "late" \notin Faults
      BY DEF Orderly
    <3>2. Awaited /\ QuietLine
      BY <1>4, <3>1, Zenon DEF ExpireStep
    <3> QED BY <3>2 DEF QuietLine, Sending, Replied
  <2>2. UNCHANGED <<GW_State, lineVars, hdlcTX, toMeter, toGateway, lineSnd>>
    BY <1>4, Zenon DEF ExpireStep, Expire, linkVars
  <2>3. GW_State \notin {"SEGMENT", "RESPONSE_FOR_MDM", "DISC_REQUEST"}
    BY <2>1 DEF Awaited
  <2>4. UNCHANGED <<Sending, Replied, Awaited, WireInv>>
    BY <2>2, Zenon DEF Sending, Replied, Awaited, lineVars, WireInv
  <2> QED BY <1>2, <2>1, <2>2, <2>3, <2>4, Zenon DEF LineInv
<1>5. CASE MdmSend \/ MdmStep \/ UNCHANGED allVars
  <2>1. UNCHANGED <<GW_State, expired, lineVars, hdlcTX, toMeter, toGateway, lineSnd>>
    <3>1. CASE MdmSend
      BY <3>1, Zenon DEF MdmSend, MdmCopy, gwVars
    <3>2. CASE MdmStep
      BY <3>2, Zenon DEF MdmStep, MdmCount, MdmSent, gwVars, linkVars
    <3>3. CASE UNCHANGED allVars
      BY <3>3, Zenon DEF gwVars, linkVars, allVars, vars
    <3> QED BY <1>5, <3>1, <3>2, <3>3
  <2>2. UNCHANGED <<Sending, Replied, Awaited, WireInv>>
    BY <2>1, Zenon DEF Sending, Replied, Awaited, lineVars, WireInv
  <2> QED BY <2>1, <2>2, Zenon DEF LineInv, lineVars
<1>6. CASE LineWrite
  <2>1. Sending /\ Sending' /\ ~Replied'
    <3>1. Sending /\ Sending' /\ Replied' = Replied
      BY <1>6, WriteEffect, Zenon
    <3> QED BY <1>2, <3>1, Zenon DEF WireInv
  <2>2. UNCHANGED <<GW_State, expired, toGateway, lineRcv, hdlcRX_Count>>
    BY <1>6, WriteEffect, Zenon DEF vars, gwVars, lineVars
  <2>3. Awaited' /\ ~expired'
    BY <2>1, <2>2, Zenon DEF LineInv, Awaited
  <2>4. WireInv'
    <3>1. /\ lineSnd' = "written" /\ hdlcTX' # None /\ Len(toMeter') <= 1
          /\ toMeter' # <<>> => Head(toMeter') = hdlcTX'
      BY <1>6, WriteEffect, Zenon
    <3>2. lineSnd' # "idle"
      BY <3>1
    <3> QED BY <1>2, <2>1, <2>2, <3>1, <3>2, Zenon DEF WireInv
  <2> QED BY <2>3, <2>4, Waiting
<1>7. CASE LineWritten
  <2>1. /\ lineSnd' = "idle" /\ hdlcTX' = None /\ lineSnd = "written"
        /\ UNCHANGED <<GW_State, expired, lineRcv, hdlcRX_Count, toMeter, toGateway>>
    BY <1>7, WrittenEffect, Zenon DEF gwVars, lineVars
  <2>2. Sending /\ ~Replied
    BY <1>2, <2>1, Zenon DEF WireInv, Sending
  <2>3. Awaited' /\ ~expired'
    BY <2>1, <2>2, Zenon DEF LineInv, Awaited
  <2>4. WireInv'
    <3>1. ~Replied'
      BY <2>1, <2>2, Zenon DEF Replied
    <3>2. lineSnd' # "written"
      BY <2>1
    <3> QED BY <1>2, <2>1, <3>1, <3>2, Zenon DEF WireInv
  <2> QED BY <2>3, <2>4, Waiting
<1>8. CASE LineRead
  <2>1. /\ toGateway' = <<>> /\ lineRcv' = "copied" /\ hdlcRX_Count' = 0 /\ Replied
        /\ UNCHANGED <<GW_State, expired, hdlcTX, lineSnd, toMeter>> /\ toGateway # <<>>
    BY <1>8, ReadEffect, Zenon DEF gwVars, LineRead
  <2>2. ~Sending
    BY <1>2, <2>1, Zenon DEF WireInv
  <2>3. Awaited' /\ ~expired'
    BY <2>1, Zenon DEF LineInv, Awaited
  <2>4. WireInv'
    <3>1. ~Sending' /\ hdlcRX_Count' # TooMany
      <4>1. 0 # TooMany /\ 1 # TooMany
        BY DEF TooMany
      <4> QED BY <2>1, <2>2, <4>1, Zenon DEF Sending
    <3> QED BY <1>2, <2>1, <3>1, Shortest, Zenon DEF WireInv
  <2> QED BY <2>3, <2>4, Waiting
<1>9. CASE LineCounted
  <2>1. /\ lineRcv = "copied" /\ lineRcv' = "idle" /\ hdlcRX_Count' = 1 /\ Replied
        /\ toGateway = <<>>
        /\ UNCHANGED <<GW_State, expired, hdlcTX, lineSnd, toMeter, toGateway>>
    BY <1>9, CountEffect, Zenon DEF gwVars
  <2>2. ~Sending /\ lineRcv' # "copied" /\ lineRcv # "idle"
    BY <1>2, <2>1 DEF WireInv
  <2>3. Awaited' /\ ~expired'
    BY <2>1, <2>2, Zenon DEF LineInv, Awaited
  <2>4. WireInv'
    <3>1. ~Sending' /\ hdlcRX_Count' # TooMany
      <4>1. 0 # TooMany /\ 1 # TooMany
        BY DEF TooMany
      <4> QED BY <2>1, <2>2, <4>1, Zenon DEF Sending
    <3> QED BY <1>2, <2>1, <2>2, <3>1, Zenon DEF WireInv
  <2> QED BY <2>3, <2>4, Waiting
<1>10. CASE MeterStep
  <2>1. /\ Sending /\ hdlcTX = None /\ lineSnd = "idle" /\ toMeter' = <<>>
        /\ toGateway = <<>> /\ lineRcv # "copied" /\ hdlcRX_Count # 1
        /\ UNCHANGED <<GW_State, expired, lineRcv, hdlcRX_Count, hdlcTX, lineSnd>>
    BY <1>10, MeterEffect, Zenon DEF vars, gwVars, lineVars
  <2>2. hdlcRX_Count = 0 /\ lineRcv = "idle"
    <3>1. hdlcRX_Count \in 0..1 /\ lineRcv \in {"idle", "copied"}
      BY DEF TypeOK, LineInv, WireInv, TooMany
    <3> QED BY <2>1, <3>1, SMT
  <2>3. Awaited' /\ ~expired'
    BY <2>1, Zenon DEF LineInv, Awaited
  <2>4. WireInv'
    <3>4. hdlcRX_Count' # TooMany
      BY <1>2, <2>1, Zenon DEF WireInv
    <3>1. ~Sending'
      BY <2>1, Zenon DEF Sending
    <3>2. Len(toGateway') <= 1
      BY <1>10, MeterLine
    <3>3. lineSnd' # "written"
      BY <2>1
    <3> QED BY <2>1, <2>2, <3>1, <3>2, <3>3, <3>4, Shortest, Zenon DEF WireInv
  <2> QED BY <2>3, <2>4, Waiting
<1> QED
  BY <1>3, <1>4, <1>5, <1>6, <1>7, <1>8, <1>9, <1>10, NoError, Zenon DEF LinkNext

LEMMA LineInit == LinkInit => LineInv
<1> SUFFICES ASSUME LinkInit PROVE LineInv
  OBVIOUS
<1>1. /\ lineSnd = "idle" /\ toMeter = <<>> /\ toGateway = <<>> /\ hdlcTX = None
      /\ lineRcv = "idle" /\ hdlcRX_Count = 0 /\ GW_State = "WAIT_FOR_GET_FRAME"
  BY Zenon DEF LinkInit, Init
<1>2. ~Sending /\ ~Awaited /\ lineSnd # "written" /\ lineRcv # "copied"
      /\ hdlcRX_Count # TooMany
      /\ GW_State \notin {"SEGMENT", "RESPONSE_FOR_MDM", "DISC_REQUEST"}
  BY <1>1 DEF Sending, Awaited, TooMany
<1> QED BY <1>1, <1>2, Shortest, Zenon DEF LineInv, WireInv

-----------------------------------------------------------------------------
(* Whoever answers an SNRM on such a line is a meter that has just been    *)
(* connected by it; no frame of before can stand for its UA. *)
Fresh == meter.connected /\ meter.vr = 0 /\ meter.vs = 0 /\ meter.unacked = <<>>

FreshInv ==
    /\ GW_State = "SNRM_RESPONSE" =>
         /\ RRR = 0 /\ SSS = 0
         /\ Sending => Command.type = "SNRM"
         /\ Replied => Fresh
    /\ GW_State = "INFORMATION_FRAME" /\ GW_tmp.req.kind = "AARQ" =>
         Fresh /\ RRR = 0 /\ SSS = 0

LEMMA GatewayFresh ==
    ASSUME TypeOK, LinkInv, LineInv, FreshInv, GatewayStep
    PROVE  FreshInv'
<1>1. UNCHANGED <<toMeter, toGateway, lineSnd, meter, Fresh>>
  BY Zenon DEF GatewayStep, linkVars, Fresh
<1>2. CASE TakeOctets \/ TakeCount \/ WaitForGetFrame
  <2>1. \/ GW_State' \in {"WAIT_FOR_GET_FRAME", "SNRM_REQUEST"}
        \/ GW_State' = "INFORMATION_FRAME" /\ GW_tmp'.req.kind # "AARQ"
    BY <1>2, Taking, Taken1
  <2>2. GW_State' # "SNRM_RESPONSE"
    BY <2>1
  <2>3. ~(GW_State' = "INFORMATION_FRAME" /\ GW_tmp'.req.kind = "AARQ")
    BY <2>1
  <2> QED BY <2>2, <2>3, Zenon DEF FreshInv
<1>7. ~ResponseFaults
  BY Zenon DEF ResponseFaults, LineInv, WireInv
<1>3. CASE SnrmRequest
  <2>1. CASE AddressLengthOK(GW_tmp.req)
    <3>1. /\ GW_State' = "SNRM_RESPONSE" /\ RRR' = 0 /\ SSS' = 0 /\ hdlcRX_Count' = 0
          /\ hdlcTX' = GW2HDLC_SNRM_Generator /\ lineRcv' = lineRcv
      BY <1>3, <2>1, Zenon DEF SnrmRequest, Flush, ResetSeq
    <3>2. EmptyLine
      <4>1. ~Awaited
        BY <1>3 DEF SnrmRequest, Awaited
      <4> QED BY <4>1, NotAwaited
    <3>3. Command'.type = "SNRM"
      BY <1>1, <3>1, <3>2 DEF Command, EmptyLine, GW2HDLC_SNRM_Generator, HdlcFrame
    <3>4. ~Replied'
      BY <1>1, <3>1, <3>2 DEF Replied, EmptyLine
    <3> QED BY <3>1, <3>3, <3>4, Zenon DEF FreshInv
  <2>2. CASE ~AddressLengthOK(GW_tmp.req)
    <3>1. GW_State' = "WAIT_FOR_GET_FRAME"
      BY <1>3, <2>2, Zenon DEF SnrmRequest
    <3> QED BY <3>1 DEF FreshInv
  <2> QED BY <2>1, <2>2
<1>4. CASE SnrmResponse
  <2>1. /\ GW_State = "SNRM_RESPONSE" /\ hdlcRX_Count > 0 /\ GW_State' = "INFORMATION_FRAME"
        /\ UNCHANGED <<RRR, SSS>>
    BY <1>4, Zenon DEF SnrmResponse
  <2>2. Fresh /\ RRR = 0 /\ SSS = 0
    BY <2>1, Got, Zenon DEF FreshInv
  <2>3. GW_State' # "SNRM_RESPONSE"
    BY <2>1
  <2> QED BY <1>1, <2>1, <2>2, <2>3, Zenon DEF FreshInv
<1>5. CASE \/ InformationFrame \/ Response \/ Segment \/ DiscRequest \/ DiscResponse
           \/ RejectFrame \/ AcceptFrame
  <2>1. GW_State' \notin {"SNRM_RESPONSE", "INFORMATION_FRAME"}
    BY <1>5 DEF InformationFrame, Response, Segment, DiscRequest, DiscResponse, RejectFrame,
                AcceptFrame, SetSegmentation, StateAfter
  <2> QED BY <2>1 DEF FreshInv
<1>6. ASSUME NEW state \in {"SNRM_RESPONSE", "RESPONSE", "DISC_RESPONSE"}, TimedOut(state)
      PROVE  FreshInv'
  BY <1>6 DEF TimedOut, FreshInv
<1> QED BY <1>2, <1>3, <1>4, <1>5, <1>6, <1>7, Zenon DEF GatewayStep, GW_Run

LEMMA FreshStep ==
    TypeOK /\ LinkInv /\ LineInv /\ FreshInv /\ Orderly /\ [LinkNext]_allVars => FreshInv'
<1> SUFFICES ASSUME TypeOK, LinkInv, LineInv, FreshInv, Orderly, [LinkNext]_allVars
             PROVE  FreshInv'
  OBVIOUS
<1> DEFINE kept == UNCHANGED <<GW_State, GW_tmp, RRR, SSS>>
<1>1. CASE GatewayStep
  BY <1>1, GatewayFresh
<1>2. CASE ExpireStep \/ MdmSend \/ MdmStep \/ UNCHANGED allVars
  <2>1. kept /\ UNCHANGED <<lineVars, hdlcTX, toMeter, toGateway, meter>>
    <3>1. CASE ExpireStep
      BY <3>1, Zenon DEF ExpireStep, Expire, linkVars
    <3>2. CASE MdmSend
      BY <3>2, Zenon DEF MdmSend, MdmCopy, gwVars
    <3>3. CASE MdmStep
      BY <3>3, Zenon DEF MdmStep, MdmCount, MdmSent, gwVars, linkVars
    <3>4. CASE UNCHANGED allVars
      BY <3>4, Zenon DEF gwVars, linkVars, allVars, vars
    <3> QED BY <1>2, <3>1, <3>2, <3>3, <3>4
  <2>2. UNCHANGED <<Sending, Replied, Command, Fresh>>
    BY <2>1, Zenon DEF Sending, Replied, Command, Fresh, lineVars
  <2> QED BY <2>1, <2>2, Zenon DEF FreshInv
<1>3. CASE LineWrite
  <2>1. kept /\ Command' = Command /\ Sending /\ Replied' = Replied /\ meter' = meter
    BY <1>3, WriteEffect, Zenon DEF vars, gwVars
  <2>2. Fresh' = Fresh
    BY <2>1, Zenon DEF Fresh
  <2> QED BY <2>1, <2>2, Zenon DEF FreshInv
<1>4. CASE LineWritten
  <2>1. kept /\ hdlcTX' = None /\ UNCHANGED <<toMeter, toGateway, lineVars, meter>>
    BY <1>4, WrittenEffect, Zenon DEF gwVars
  <2>2. Sending' => Sending /\ Command' = Command
    BY <2>1, Zenon DEF Sending, Command
  <2>3. UNCHANGED <<Replied, Fresh>>
    BY <2>1, Zenon DEF Replied, Fresh, lineVars
  <2> QED BY <2>1, <2>2, <2>3, Zenon DEF FreshInv
<1>5. CASE LineRead \/ LineCounted
  <2>1. kept /\ Replied /\ UNCHANGED <<hdlcTX, toMeter, meter>>
    <3>1. CASE LineRead
      BY <3>1, ReadEffect, Zenon DEF gwVars
    <3>2. CASE LineCounted
      BY <3>2, CountEffect, Zenon DEF gwVars
    <3> QED BY <1>5, <3>1, <3>2
  <2>2. UNCHANGED <<Sending, Command, Fresh>>
    BY <2>1, Zenon DEF Sending, Command, Fresh
  <2> QED BY <2>1, <2>2, Zenon DEF FreshInv
<1>6. CASE MeterStep
  <2>1. kept /\ Sending /\ Command = Head(toMeter) /\ hdlcTX' = None /\ toMeter' = <<>>
    BY <1>6, MeterEffect, Zenon DEF vars, gwVars
  <2>2. ~Sending' /\ Awaited
    BY <2>1, Zenon DEF Sending, LineInv
  <2>3. GW_State # "INFORMATION_FRAME"
    BY <2>2 DEF Awaited
  <2>4. CASE GW_State = "SNRM_RESPONSE"
    <3>1. Command.type = "SNRM"
      BY <2>1, <2>4, Zenon DEF FreshInv
    <3>2. MeterConnect(Command)
      <4>1. ~MeterDisconnect(Command) /\ ~MeterAnswer(Command) /\ ~MeterNextSegment(Command)
            /\ ~MeterRefuse(Command)
        BY <3>1 DEF MeterDisconnect, MeterAnswer, MeterNextSegment, MeterRefuse
      <4> QED BY <1>6, <2>1, <4>1, Zenon DEF MeterStep
    <3>3. Fresh'
      BY <3>2 DEF MeterConnect, Fresh
    <3> QED BY <2>1, <2>2, <2>3, <2>4, <3>3, Zenon DEF FreshInv
  <2>5. CASE GW_State # "SNRM_RESPONSE"
    BY <2>1, <2>3, <2>5, Zenon DEF FreshInv
  <2> QED BY <2>4, <2>5
<1> QED BY <1>1, <1>2, <1>3, <1>4, <1>5, <1>6, NoError, Zenon DEF LinkNext

OrderlyInv == Orderly => LineInv /\ FreshInv

LEMMA OrderlyInvariance == LinkSpec => []OrderlyInv
<1>1. LinkInit => OrderlyInv
  <2>1. LinkInit => FreshInv
    BY DEF LinkInit, Init, FreshInv
  <2> QED BY <2>1, LineInit DEF OrderlyInv
<1>2. TypeOK /\ LinkInv /\ OrderlyInv /\ [LinkNext]_allVars => OrderlyInv'
  <2> SUFFICES ASSUME TypeOK, LinkInv, OrderlyInv, [LinkNext]_allVars, Orderly'
               PROVE  LineInv' /\ FreshInv'
    BY DEF OrderlyInv
  <2>1. Orderly
    BY ScenarioFixed, Zenon DEF Orderly, Faults
  <2> QED BY <2>1, LineStep, FreshStep DEF OrderlyInv
<1> QED BY <1>1, <1>2, LinkInvariance, PTL DEF LinkSpec

(* However many frames are lost, the I-frame that carries an AARQ finds    *)
(* the meter newly connected and both sequence numbers reset: only the UA  *)
(* of this SNRM can end the wait for it.                                   *)
THEOREM AssociationIsFresh == LinkSpec => []FreshAssociation
<1>1. OrderlyInv => FreshAssociation
  <2>1. Orderly /\ FreshInv => FreshAssociation
    BY Zenon DEF Orderly, FreshInv, Fresh, FreshAssociation
  <2> QED BY <2>1, Zenon DEF OrderlyInv, Orderly, FreshAssociation
<1> QED BY <1>1, OrderlyInvariance, PTL

-----------------------------------------------------------------------------
(* Only the gateway and the meter change what the two know of each other;  *)
(* the steps between them carry a command or an answer on, or lose it.     *)
Talk == <<GW_State, RLRQ_flag, GW_tmp, HDLC_tmp, RRR, SSS, Segment_bit, segBuf, meter>>

LEMMA Carried ==
    ASSUME TypeOK, LinkInv, LineInv, Orderly, [LinkNext]_allVars, ~GatewayStep, ~MeterStep
    PROVE  /\ UNCHANGED Talk
           /\ gwTX' = gwTX \/ gwTX' = None
           /\ Sending' => Sending /\ Command' = Command
           /\ Replied' => Replied /\ Received' = Received
<1>1. CASE ExpireStep \/ MdmSend \/ MdmStep \/ UNCHANGED allVars
  <2>1. /\ UNCHANGED <<Talk, lineVars, hdlcTX, toMeter, toGateway>>
        /\ gwTX' = gwTX \/ gwTX' = None
    <3>1. CASE ExpireStep
      BY <3>1, Zenon DEF ExpireStep, Expire, linkVars, Talk
    <3>2. CASE MdmSend
      BY <3>2, Zenon DEF MdmSend, MdmCopy, gwVars, Talk
    <3>3. CASE MdmStep
      BY <3>3, Zenon DEF MdmStep, MdmCount, MdmSent, gwVars, linkVars, Talk
    <3>4. CASE UNCHANGED allVars
      BY <3>4, Zenon DEF gwVars, linkVars, allVars, vars, Talk
    <3> QED BY <1>1, <3>1, <3>2, <3>3, <3>4
  <2> QED BY <2>1, Zenon DEF Sending, Command, Replied, Received, lineVars
<1>2. CASE LineWrite
  <2>1. UNCHANGED <<vars, toGateway, meter>> /\ Command' = Command /\ Sending /\ Replied' = Replied
    BY <1>2, WriteEffect, Zenon
  <2> QED BY <2>1, Zenon DEF vars, gwVars, lineVars, Talk, Received
<1>3. CASE LineWritten
  <2>1. /\ hdlcTX' = None /\ UNCHANGED <<gwVars, toMeter, toGateway, lineVars, meter>>
        /\ gwTX' = gwTX
    BY <1>3, WrittenEffect, Zenon DEF LineWritten, LineSent
  <2> QED BY <2>1, Zenon DEF gwVars, lineVars, Talk, Sending, Command, Replied, Received
<1>4. CASE LineRead \/ LineCounted
  <2>1. /\ Replied /\ Received' = Received /\ UNCHANGED <<gwVars, hdlcTX, toMeter, meter>>
        /\ gwTX' = gwTX
    <3>1. CASE LineRead
      BY <3>1, ReadEffect, Zenon DEF LineRead, LineCopy
    <3>2. CASE LineCounted
      BY <3>2, CountEffect, Zenon DEF LineCounted, LineCount
    <3> QED BY <1>4, <3>1, <3>2
  <2> QED BY <2>1, Zenon DEF gwVars, Talk, Sending, Command
<1> QED BY <1>1, <1>2, <1>3, <1>4, NoError, Zenon DEF LinkNext

(* The frame the meter answers with is the one under way *)
LEMMA Answered1 ==
    ASSUME LinkInv, LineInv, Orderly, MeterStep, NEW g \in Frames, Reply1(g)
    PROVE  /\ Replied' => Received' = g
           /\ "loss" \notin Faults => Replied'
<1>1. /\ toGateway = <<>> /\ lineRcv # "copied" /\ hdlcRX_Count # 1
      /\ UNCHANGED <<lineRcv, hdlcRX_Count>>
  BY MeterEffect, Zenon DEF vars, lineVars
<1>2. /\ toGateway' # <<>> => Head(toGateway') = g
      /\ "loss" \notin Faults => toGateway' # <<>>
  BY <1>1, Reply1Effect
<1> QED BY <1>1, <1>2, Zenon DEF Replied, Received

(* The gateway's frame is the one under way once it waits for an answer *)
LEMMA Sent1 ==
    ASSUME TypeOK, LinkInv, LineInv, GatewayStep, ~Awaited, hdlcRX_Count' = 0,
           lineRcv' = lineRcv
    PROVE  ~Replied' /\ Command' = hdlcTX' /\ (hdlcTX' # None => Sending')
<1>1. UNCHANGED <<toMeter, toGateway>> /\ EmptyLine
  BY NotAwaited, Zenon DEF GatewayStep, linkVars
<1>2. lineRcv' # "copied" /\ hdlcRX_Count' # 1
  BY <1>1 DEF EmptyLine
<1> QED BY <1>1, <1>2, Zenon DEF EmptyLine, Replied, Command, Sending

-----------------------------------------------------------------------------
(* The gateway serves what the script asks for, or the empty mailbox *)
Posted == {Script[n] : n \in 1..Len(Script)} \cup {ZeroRequest}

PostInv ==
    /\ gwRX \in Posted /\ GW_tmp.req \in Posted
    /\ GW_State # "WAIT_FOR_GET_FRAME" => (RLRQ_flag <=> GW_tmp.req.kind = "RLRQ")

LEMMA PostInit == LinkInit => PostInv
<1> SUFFICES ASSUME LinkInit PROVE PostInv
  OBVIOUS
<1>1. gwRX = ZeroRequest /\ GW_tmp = [req |-> ZeroRequest, count |-> 0]
      /\ GW_State = "WAIT_FOR_GET_FRAME"
  BY Zenon DEF LinkInit, Init
<1>2. GW_tmp.req = ZeroRequest
  BY <1>1
<1> QED BY <1>1, <1>2 DEF PostInv, Posted

LEMMA PostStep == TypeOK /\ LinkInv /\ PostInv /\ [LinkNext]_allVars => PostInv'
<1> SUFFICES ASSUME TypeOK, LinkInv, PostInv, [LinkNext]_allVars PROVE PostInv'
  OBVIOUS
<1>1. Posted' = Posted
  BY ScenarioFixed, Zenon DEF Posted, Script
<1> DEFINE served == UNCHANGED <<GW_tmp, RLRQ_flag>> /\ GW_State # "WAIT_FOR_GET_FRAME"
           same   == UNCHANGED <<GW_State, GW_tmp, RLRQ_flag>>
<1>2. ASSUME gwRX' = gwRX, served \/ same PROVE PostInv'
  BY <1>1, <1>2 DEF PostInv
<1>3. CASE GatewayStep
  <2>1. CASE TakeOctets \/ TakeCount
    <3>1. /\ GW_State' = "WAIT_FOR_GET_FRAME" /\ gwRX' = gwRX
          /\ GW_tmp'.req = gwRX \/ GW_tmp'.req = GW_tmp.req
      BY <2>1, Taking, Zenon DEF mdmVars
    <3> QED BY <1>1, <3>1, Zenon DEF PostInv
  <2>2. CASE WaitForGetFrame
    <3>1. gwRX' = gwRX /\ GW_tmp' = GW_tmp /\ (RLRQ_flag' <=> GW_tmp.req.kind = "RLRQ")
      BY <2>2, Taken1
    <3> QED BY <1>1, <3>1, Zenon DEF PostInv
  <2>3. CASE AcceptFrame
    <3>1. gwRX' = ZeroRequest /\ UNCHANGED <<GW_tmp, RLRQ_flag>>
          /\ GW_State = "RESPONSE_FOR_MDM"
      BY <2>3, Zenon DEF AcceptFrame, Converting, SetSegmentation
    <3>2. gwRX' \in Posted /\ GW_State # "WAIT_FOR_GET_FRAME"
      BY <3>1 DEF Posted
    <3> QED BY <1>1, <3>1, <3>2, Zenon DEF PostInv
  <2>4. CASE \/ SnrmRequest \/ SnrmResponse \/ InformationFrame \/ Response \/ ResponseFaults
             \/ Segment \/ DiscRequest \/ DiscResponse \/ RejectFrame
    <3>1. UNCHANGED <<gwRX, GW_tmp, RLRQ_flag>>
      BY <2>4, Zenon DEF SnrmRequest, SnrmResponse, InformationFrame, Response, ResponseFaults,
                 Segment, DiscRequest, DiscResponse, RejectFrame, SetSegmentation, mdmVars
    <3>2. GW_State # "WAIT_FOR_GET_FRAME"
      BY <2>4 DEF SnrmRequest, SnrmResponse, InformationFrame, Response, ResponseFaults,
                  Segment, DiscRequest, DiscResponse, RejectFrame, Converting
    <3> QED BY <1>2, <3>1, <3>2
  <2>5. ASSUME NEW state \in {"SNRM_RESPONSE", "RESPONSE", "DISC_RESPONSE"}, TimedOut(state)
        PROVE  PostInv'
    <3>1. UNCHANGED <<gwRX, GW_tmp, RLRQ_flag>>
      BY <2>5, Zenon DEF TimedOut, mdmVars
    <3>2. GW_State # "WAIT_FOR_GET_FRAME"
      BY <2>5 DEF TimedOut
    <3> QED BY <1>2, <3>1, <3>2
  <2> QED BY <1>3, <2>1, <2>2, <2>3, <2>4, <2>5, Zenon DEF GatewayStep, GW_Run
<1>4. CASE MdmSend
  <2>1. sent + 1 \in 1..Len(Script)
    BY <1>4, ScenarioAssumption DEF MdmSend, LinkInv, Script
  <2>2. gwRX' \in Posted /\ UNCHANGED <<GW_State, GW_tmp, RLRQ_flag>>
    BY <1>4, <2>1, Zenon DEF MdmSend, MdmCopy, gwVars, Posted
  <2> QED BY <1>1, <2>2, Zenon DEF PostInv
<1>5. CASE ExpireStep \/ MdmStep \/ LineCounted \/ LineWritten
  <2>1. UNCHANGED <<gwRX, GW_State, GW_tmp, RLRQ_flag>>
    BY <1>5, Zenon DEF ExpireStep, Expire, MdmStep, MdmCount, MdmSent, LineCounted, LineCount,
               LineWritten, LineSent, gwVars, mdmVars
  <2> QED BY <1>2, <2>1
<1>6. CASE LineWrite \/ LineRead \/ LineFailed \/ MeterStep \/ UNCHANGED allVars
  <2>1. UNCHANGED <<gwRX, GW_State, GW_tmp, RLRQ_flag>>
    <3>1. CASE LineRead
      BY <3>1, Zenon DEF LineRead, LineCopy, gwVars, mdmVars
    <3>2. CASE LineFailed
      BY <3>2, Zenon DEF LineFailed, LineError, gwVars, mdmVars
    <3> QED BY <1>6, <3>1, <3>2, Zenon DEF LineWrite, MeterStep, allVars, vars, gwVars, mdmVars
  <2> QED BY <1>2, <2>1
<1> QED BY <1>3, <1>4, <1>5, <1>6, Zenon DEF LinkNext

(* A request with a good address is one of the script *)
LEMMA Asked1 ==
    ASSUME LinkInv, PostInv, TypeOK, GW_tmp.req.addr = "good"
    PROVE  /\ \E n \in 1..Len(Script) : Script[n] = GW_tmp.req
           /\ Segments[GW_tmp.req.id] \in Nat \ {0}
<1>1. GW_tmp.req # ZeroRequest
  BY RequestAssumption
<1>2. GW_tmp.req \in Requests /\ scenario \in Scenarios
  BY DEF TypeOK, Copies, LinkInv
<1> QED BY <1>1, <1>2, MeterAssumption DEF PostInv, Posted, Segments

-----------------------------------------------------------------------------
(* A line without faults.  While the gateway waits, its command or the     *)
(* answer is under way, so no wait ever times out. *)
Calm == Faults = {}

CalmInv ==
    /\ Awaited => Sending \/ Replied
    /\ lineSnd = "written" => toMeter # <<>>

LEMMA CalmIsOrderly == Calm => Orderly /\ "loss" \notin Faults
BY DEF Calm, Orderly

LEMMA SomeFrame ==
    ASSUME TypeOK
    PROVE  /\ GW2HDLC_SNRM_Generator # None /\ GW2HDLC_DISC_Generator # None
           /\ GW2HDLC_Poll_For_Remained_Data # None /\ GW2HDLC_Frame_Convertor # None
BY HdlcFrameType, NoneAssumption
DEF GW2HDLC_SNRM_Generator, GW2HDLC_DISC_Generator, GW2HDLC_Poll_For_Remained_Data,
    GW2HDLC_Frame_Convertor

LEMMA GatewayCalm ==
    ASSUME TypeOK, LinkInv, LineInv, AddressChecked, CalmInv, GatewayStep
    PROVE  CalmInv'
<1>1. UNCHANGED <<toMeter, toGateway, lineSnd>>
  BY Zenon DEF GatewayStep, linkVars
<1>2. lineSnd' = "written" => toMeter' # <<>>
  BY <1>1, Zenon DEF CalmInv
<1>3. CASE ~Awaited'
  BY <1>2, <1>3, Zenon DEF CalmInv
<1>4. CASE hdlcTX' # None
  BY <1>2, <1>4, Zenon DEF CalmInv, Sending
<1>9. CASE TakeOctets \/ TakeCount \/ WaitForGetFrame
  <2>1. ~Awaited'
    BY <1>9, Taking, Taken1 DEF Awaited
  <2> QED BY <1>3, <2>1
<1>5. CASE SnrmResponse \/ Response \/ DiscResponse \/ RejectFrame \/ AcceptFrame
  <2>1. ~Awaited'
    BY <1>5 DEF SnrmResponse, Response, DiscResponse, RejectFrame, AcceptFrame,
                SetSegmentation, StateAfter, Awaited
  <2> QED BY <1>3, <2>1
<1>6. CASE SnrmRequest \/ InformationFrame
  <2>1. hdlcTX' # None \/ GW_State' = "WAIT_FOR_GET_FRAME"
    BY <1>6, SomeFrame, Zenon DEF SnrmRequest, InformationFrame
  <2>2. GW_State' = "WAIT_FOR_GET_FRAME" => ~Awaited'
    BY DEF Awaited
  <2> QED BY <1>3, <1>4, <2>1, <2>2
<1>7. CASE Segment \/ DiscRequest
  <2>1. GW_State = "SEGMENT" \/ GW_State = "DISC_REQUEST"
    BY <1>7, Zenon DEF Segment, DiscRequest
  <2>2. AddressLengthOK(GW_tmp.req)
    BY <2>1 DEF AddressChecked, AddressLengthOK
  <2>3. hdlcTX' # None
    BY <1>7, <2>2, SomeFrame, Zenon DEF Segment, DiscRequest
  <2> QED BY <1>4, <2>3
<1>8. ASSUME NEW state \in {"SNRM_RESPONSE", "RESPONSE", "DISC_RESPONSE"}, TimedOut(state)
      PROVE  ~Awaited'
  BY <1>8 DEF TimedOut, Awaited
<1>10. ~ResponseFaults
  BY Zenon DEF ResponseFaults, LineInv, WireInv
<1> QED BY <1>3, <1>5, <1>6, <1>7, <1>8, <1>9, <1>10, Zenon DEF GatewayStep, GW_Run

LEMMA CalmStep ==
    TypeOK /\ LinkInv /\ LineInv /\ AddressChecked /\ CalmInv /\ Calm /\ [LinkNext]_allVars
        => CalmInv'
<1> SUFFICES ASSUME TypeOK, LinkInv, LineInv, AddressChecked, CalmInv, Calm, [LinkNext]_allVars
             PROVE  CalmInv'
  OBVIOUS
<1>1. Orderly /\ "loss" \notin Faults
  BY CalmIsOrderly
<1>2. CASE GatewayStep
  BY <1>2, GatewayCalm
<1>3. CASE ExpireStep \/ MdmSend \/ MdmStep \/ UNCHANGED allVars
  <2>1. UNCHANGED <<GW_State, lineVars, hdlcTX, toMeter, toGateway, lineSnd>>
    BY <1>3, Zenon DEF ExpireStep, Expire, MdmSend, MdmCopy, MdmStep, MdmCount, MdmSent,
               gwVars, linkVars, allVars, vars
  <2> QED BY <2>1, Zenon DEF CalmInv, Awaited, Sending, Replied, lineVars
<1>4. CASE LineWrite
  BY <1>1, <1>4, WriteEffect, Zenon DEF CalmInv
<1>5. CASE LineWritten
  <2>1. lineSnd' # "written" /\ toMeter' # <<>>
    <3>1. lineSnd' = "idle" /\ toMeter' = toMeter /\ lineSnd = "written"
      BY <1>5, WrittenEffect, Zenon
    <3> QED BY <3>1 DEF CalmInv
  <2> QED BY <2>1, Zenon DEF CalmInv, Sending
<1>6. CASE LineRead \/ LineCounted
  <2>1. Replied' /\ UNCHANGED <<toMeter, lineSnd>>
    BY <1>1, <1>6, ReadEffect, CountEffect, Zenon
  <2> QED BY <2>1, Zenon DEF CalmInv
<1>7. CASE MeterStep
  <2>1. PICK g \in Frames : Reply1(g)
    BY <1>1, <1>7, MeterEffect, MeterSends, Zenon DEF MeterStep
  <2>2. Replied' /\ lineSnd' = "idle"
    BY <1>1, <1>7, <2>1, Answered1, MeterEffect
  <2>3. lineSnd' # "written"
    BY <2>2
  <2> QED BY <2>2, <2>3, Zenon DEF CalmInv
<1> QED BY <1>1, <1>2, <1>3, <1>4, <1>5, <1>6, <1>7, NoError, Zenon DEF LinkNext

(* The gateway gives up waiting only if something was lost *)
LEMMA NoTimeout ==
    ASSUME TypeOK, LineInv, CalmInv,
           NEW state \in {"SNRM_RESPONSE", "RESPONSE", "DISC_RESPONSE"}, TimedOut(state)
    PROVE  FALSE
<1>1. Awaited /\ expired
  BY DEF TimedOut, Awaited
<1> QED BY <1>1, Zenon DEF CalmInv, LineInv

-----------------------------------------------------------------------------
(* The numbers without faults.  Between exchanges each station expects     *)
(* what the other sends next (Even); with an answer under way the gateway  *)
(* is one behind the meter (Behind).  A meter that is not connected gives  *)
(* a bare answer, which the convertor rejects. *)
Even   == meter.connected => RRR = meter.vs /\ SSS = meter.vr
Behind == Succ(RRR) = meter.vs /\ SSS = meter.vr /\ RRR \in 0..MaxSeq

(* all segments but the last say that more follow *)
Graded(q) == \A i \in 1..Len(q) : q[i].valid /\ (q[i].seg <=> i < Len(q))

Unread(f) ==
    /\ meter.connected => Behind /\ f.valid /\ (f.seg => Len(meter.unacked) > 1)
    /\ ~meter.connected => f = Bare

Asks ==
    \/ /\ Command.type = "I" /\ Command.req = GW_tmp.req
       /\ meter.connected => /\ Command.ns = meter.vr /\ SSS = Succ(meter.vr)
                             /\ RRR = meter.vs
    \/ /\ Command.type = "RR"
       /\ meter.connected => /\ Command.nr = meter.vs /\ SSS = meter.vr
                             /\ RRR = meter.vs /\ Len(meter.unacked) > 1

NumberInv ==
    /\ Graded(meter.unacked)
    /\ GW_State \in {"WAIT_FOR_GET_FRAME", "SNRM_REQUEST", "INFORMATION_FRAME", "SEGMENT"}
         => Even
    /\ GW_State = "SEGMENT" /\ meter.connected => Len(meter.unacked) > 1
    /\ GW_State = "RESPONSE" => (Sending => Asks) /\ (Replied => Unread(Received))
    /\ GW_State \in {"DISC_REQUEST", "DISC_RESPONSE"} => RLRQ_flag
    /\ GW_State = "DISC_RESPONSE" => /\ Sending => Command.type = "DISC"
                                     /\ Replied => ~meter.connected
    /\ GW_State = "RESPONSE_FOR_MDM" =>
         IF RLRQ_flag THEN ~meter.connected ELSE Unread(HDLC_tmp)

LEMMA Wraps == ASSUME NEW n \in 0..MaxSeq PROVE NextSeq(n) = Succ(n) /\ Field(n) = n
BY SequenceAssumption, SMT DEF NextSeq, Succ, Field

LEMMA GradedTail ==
    ASSUME NEW q \in Seq(Frames), Graded(q), Len(q) > 1
    PROVE  /\ Graded(Tail(q)) /\ Len(Tail(q)) = Len(q) - 1
           /\ q[2].valid /\ (q[2].seg => Len(Tail(q)) > 1)
<1>1. Len(Tail(q)) = Len(q) - 1 /\ \A i \in 1..Len(Tail(q)) : Tail(q)[i] = q[i + 1]
  OBVIOUS
<1>2. q[2].valid /\ (q[2].seg => Len(Tail(q)) > 1)
  BY <1>1 DEF Graded
<1>3. ASSUME NEW i \in 1..Len(Tail(q))
      PROVE  Tail(q)[i].valid /\ (Tail(q)[i].seg <=> i < Len(Tail(q)))
  BY <1>1 DEF Graded
<1> QED BY <1>1, <1>2, <1>3 DEF Graded

LEMMA AnswerFields ==
    ASSUME NEW id, NEW k \in Nat
    PROVE  /\ AnswerFrame(id, k).valid /\ AnswerFrame(id, k).data = Payload(id, k)
           /\ AnswerFrame(id, k).seg <=> k < Segments[id]
BY DEF AnswerFrame, FrameOf

LEMMA GradedAnswer ==
    ASSUME NEW id, Segments[id] \in Nat \ {0}
    PROVE  /\ Graded(AnswerFrames(id)) /\ Len(AnswerFrames(id)) = Segments[id]
           /\ AnswerFrame(id, 1).valid
           /\ AnswerFrame(id, 1).seg => Len(AnswerFrames(id)) > 1
<1>1. /\ Len(AnswerFrames(id)) = Segments[id]
      /\ \A k \in 1..Segments[id] : AnswerFrames(id)[k] = AnswerFrame(id, k)
  BY DEF AnswerFrames
<1> QED BY <1>1, AnswerFields DEF Graded

(* The meter's part, on each kind of command *)
LEMMA AnswerNumbers ==
    ASSUME TypeOK, LinkInv, Graded(meter.unacked), GW_State = "RESPONSE", Command \in MeterFrames,
           Asks, UNCHANGED <<GW_tmp, RRR, SSS>>,
           MeterAnswer(Command), Replied' => Received' = AnswerFrame(Command.req.id, 1)
    PROVE  /\ Graded(meter.unacked)' /\ meter'.connected /\ Command.type = "I"
           /\ Replied' => Unread(Received)'
<1>1. /\ meter.connected /\ Command.type = "I" /\ Command.type # "RR"
      /\ meter' = [meter EXCEPT !.vr = Succ(meter.vr), !.vs = Succ(meter.vs),
                                !.unacked = AnswerFrames(Command.req.id)]
  BY DEF MeterAnswer
<1>2. SSS = Succ(meter.vr) /\ RRR = meter.vs
  BY <1>1, Zenon DEF Asks
<1>3. meter \in Meters /\ Segments[Command.req.id] \in Nat \ {0}
  <2>1. Command.req \in Requests /\ Command.req.addr = "good" /\ scenario \in Scenarios
    BY <1>1 DEF MeterFrames, HdlcFrames, LinkInv
  <2> QED BY <2>1, MeterAssumption DEF LinkInv, Segments
<1>4. /\ meter'.connected /\ meter'.vr = Succ(meter.vr) /\ meter'.vs = Succ(meter.vs)
      /\ meter'.unacked = AnswerFrames(Command.req.id)
  BY <1>1, <1>3 DEF Meters
<1>5. Behind'
  BY <1>2, <1>3, <1>4 DEF Behind, Meters, Succ
<1> QED BY <1>1, <1>3, <1>4, <1>5, GradedAnswer, Zenon DEF Unread

LEMMA SegmentNumbers ==
    ASSUME TypeOK, LinkInv, Graded(meter.unacked), Command.type = "RR", Asks, MeterStep,
           UNCHANGED <<RRR, SSS>>, MeterNextSegment(Command)
    PROVE  /\ meter.connected /\ Len(meter.unacked) > 1
           /\ Reply1(meter.unacked[2]) /\ meter.unacked[2] \in Frames
           /\ meter' = [meter EXCEPT !.vs = Succ(meter.vs), !.unacked = Tail(meter.unacked)]
           /\ meter'.connected /\ meter'.unacked = Tail(meter.unacked)
           /\ Graded(meter.unacked)'
           /\ Replied' /\ Received' = meter.unacked[2] => Unread(Received)'
<1>1. meter.connected /\ Command.type # "I"
  BY DEF MeterNextSegment
<1>2. Command.nr = meter.vs /\ SSS = meter.vr /\ RRR = meter.vs /\ Len(meter.unacked) > 1
  BY <1>1, Zenon DEF Asks
<1>3. /\ meter' = [meter EXCEPT !.vs = Succ(meter.vs), !.unacked = Tail(meter.unacked)]
      /\ Reply1(meter.unacked[2])
  BY <1>2, Zenon DEF MeterNextSegment
<1>4. meter \in Meters /\ meter.unacked \in Seq(Frames) /\ meter.unacked[2] \in Frames
  BY <1>2 DEF LinkInv, Meters
<1>5. /\ meter'.connected /\ meter'.vr = meter.vr /\ meter'.vs = Succ(meter.vs)
      /\ meter'.unacked = Tail(meter.unacked)
  BY <1>1, <1>3, <1>4 DEF Meters
<1>6. Behind'
  BY <1>2, <1>4, <1>5 DEF Behind, Meters, Succ
<1>7. /\ Graded(Tail(meter.unacked)) /\ meter.unacked[2].valid
      /\ meter.unacked[2].seg => Len(Tail(meter.unacked)) > 1
  BY <1>2, <1>4, GradedTail
<1> QED BY <1>1, <1>2, <1>3, <1>4, <1>5, <1>6, <1>7, Zenon DEF Unread

LEMMA RefusedNumbers ==
    ASSUME Asks, MeterRefuse(Command)
    PROVE  ~meter.connected /\ meter' = meter /\ Reply1(Bare)
<1>1. Reply1(Bare) /\ meter' = meter
  BY Zenon DEF MeterRefuse
<1>2. ASSUME meter.connected PROVE FALSE
  <2>1. Command.type = "RR" => meter.unacked # <<>>
    <3>1. Len(<<>>) = 0 /\ ~(0 > 1) /\ "RR" # "I"
      OBVIOUS
    <3> QED BY <1>2, <3>1, Zenon DEF Asks
  <2>2. Command.type = "I" => Command.ns = meter.vr
    <3>1. "RR" # "I"
      OBVIOUS
    <3> QED BY <1>2, <3>1, Zenon DEF Asks
  <2> QED BY <1>2, <2>1, <2>2, Zenon DEF MeterRefuse
<1> QED BY <1>1, <1>2

LEMMA MeterNumbers ==
    ASSUME TypeOK, LinkInv, LineInv, FreshInv, NumberInv, Orderly, MeterStep
    PROVE  NumberInv'
<1>1. /\ Sending /\ Command = Head(toMeter) /\ Command \in MeterFrames
      /\ hdlcTX' = None /\ toMeter' = <<>>
      /\ UNCHANGED <<GW_State, RLRQ_flag, GW_tmp, HDLC_tmp, RRR, SSS>>
  BY MeterEffect, Zenon DEF vars, gwVars
<1>2. ~Sending' /\ Awaited
  BY <1>1, Zenon DEF Sending, LineInv
<1>3. /\ GW_State \notin {"WAIT_FOR_GET_FRAME", "SNRM_REQUEST", "INFORMATION_FRAME", "SEGMENT"}
      /\ GW_State \notin {"DISC_REQUEST", "RESPONSE_FOR_MDM"}
  BY <1>2 DEF Awaited
<1>4. SUFFICES /\ Graded(meter.unacked)'
               /\ GW_State = "RESPONSE" /\ Replied' => Unread(Received)'
               /\ GW_State = "DISC_RESPONSE" /\ Replied' => ~meter'.connected
  BY <1>1, <1>2, <1>3 DEF NumberInv
<1>5. Bare \in Frames /\ Graded(meter.unacked) /\ Graded(<<>>)
  BY MeterAssumption DEF NumberInv, Graded
<1>6. CASE GW_State = "SNRM_RESPONSE"
  <2>1. Command.type = "SNRM"
    BY <1>1, <1>6, Zenon DEF FreshInv
  <2>2. MeterConnect(Command)
    <3>1. ~MeterDisconnect(Command) /\ ~MeterAnswer(Command) /\ ~MeterNextSegment(Command)
          /\ ~MeterRefuse(Command)
      BY <2>1 DEF MeterDisconnect, MeterAnswer, MeterNextSegment, MeterRefuse
    <3> QED BY <1>1, <3>1, Zenon DEF MeterStep
  <2>3. meter'.unacked = <<>>
    BY <2>2 DEF MeterConnect
  <2> QED BY <1>5, <1>6, <2>3
<1>7. CASE GW_State = "DISC_RESPONSE"
  <2>1. Command.type = "DISC"
    BY <1>1, <1>7, Zenon DEF NumberInv
  <2>2. MeterDisconnect(Command)
    <3>1. ~MeterConnect(Command) /\ ~MeterAnswer(Command) /\ ~MeterNextSegment(Command)
          /\ ~MeterRefuse(Command)
      BY <2>1 DEF MeterConnect, MeterAnswer, MeterNextSegment, MeterRefuse
    <3> QED BY <1>1, <3>1, Zenon DEF MeterStep
  <2>3. meter'.unacked = <<>> /\ ~meter'.connected
    BY <2>2 DEF MeterDisconnect, LinkInv, Meters
  <2> QED BY <1>5, <1>7, <2>3
<1>8. CASE GW_State = "RESPONSE"
  <2>1. Asks
    BY <1>1, <1>8, Zenon DEF NumberInv
  <2>2. MeterAnswer(Command) \/ MeterNextSegment(Command) \/ MeterRefuse(Command)
    <3>1. ~MeterConnect(Command) /\ ~MeterDisconnect(Command)
      BY <2>1 DEF Asks, MeterConnect, MeterDisconnect
    <3> QED BY <1>1, <3>1, Zenon DEF MeterStep
  <2>3. CASE MeterAnswer(Command)
    <3>1. Reply1(AnswerFrame(Command.req.id, 1)) /\ AnswerFrame(Command.req.id, 1) \in Frames
      BY <1>1, <2>3, AnswerType, Zenon DEF MeterAnswer
    <3>2. Replied' => Received' = AnswerFrame(Command.req.id, 1)
      BY <3>1, Answered1
    <3> QED BY <1>1, <1>5, <1>8, <2>1, <2>3, <3>2, AnswerNumbers, Zenon
  <2>4. CASE MeterNextSegment(Command)
    <3>1. Command.type = "RR"
      BY <2>4, Zenon DEF MeterNextSegment
    <3>2. /\ Reply1(meter.unacked[2]) /\ meter.unacked[2] \in Frames
          /\ Graded(meter.unacked)'
          /\ Replied' /\ Received' = meter.unacked[2] => Unread(Received)'
      BY <1>1, <1>5, <2>1, <2>4, <3>1, SegmentNumbers, Zenon
    <3>3. Replied' => Received' = meter.unacked[2]
      BY <3>2, Answered1
    <3> QED BY <1>8, <3>2, <3>3
  <2>5. CASE MeterRefuse(Command)
    <3>1. ~meter.connected /\ meter' = meter /\ Reply1(Bare)
      BY <2>1, <2>5, RefusedNumbers
    <3>2. Replied' => Received' = Bare
      BY <1>5, <3>1, Answered1
    <3> QED BY <1>5, <1>8, <3>1, <3>2, Zenon DEF Unread
  <2> QED BY <2>2, <2>3, <2>4, <2>5
<1> QED BY <1>2, <1>6, <1>7, <1>8, Zenon DEF Awaited

(* The gateway's part *)
LEMMA GatewayNumbers ==
    ASSUME TypeOK, LinkInv, LineInv, FreshInv, AddressChecked, CalmInv, NumberInv, GatewayStep
    PROVE  NumberInv'
<1>1. UNCHANGED <<toMeter, toGateway, lineSnd, meter>> /\ Graded(meter.unacked)'
  BY Zenon DEF GatewayStep, linkVars, NumberInv
<1>2. meter \in Meters /\ (meter.connected => meter.vr \in 0..MaxSeq /\ meter.vs \in 0..MaxSeq)
  BY DEF LinkInv, Meters
<1>14. ~ResponseFaults
  BY Zenon DEF ResponseFaults, LineInv, WireInv
<1>3. CASE TakeOctets \/ TakeCount \/ WaitForGetFrame
  <2>1. /\ GW_State' \in {"WAIT_FOR_GET_FRAME", "SNRM_REQUEST", "INFORMATION_FRAME"}
        /\ UNCHANGED <<RRR, SSS>> /\ GW_State = "WAIT_FOR_GET_FRAME"
    BY <1>3, Taking, Taken1
  <2> QED BY <1>1, <2>1 DEF NumberInv, Even
<1>4. CASE SnrmRequest
  <2>1. \/ GW_State' = "SNRM_RESPONSE"
        \/ GW_State' = "WAIT_FOR_GET_FRAME" /\ UNCHANGED <<RRR, SSS>>
    BY <1>4, Zenon DEF SnrmRequest
  <2>2. GW_State = "SNRM_REQUEST"
    BY <1>4, Zenon DEF SnrmRequest
  <2> QED BY <1>1, <2>1, <2>2 DEF NumberInv, Even
<1>5. CASE SnrmResponse
  <2>1. /\ GW_State = "SNRM_RESPONSE" /\ hdlcRX_Count > 0 /\ GW_State' = "INFORMATION_FRAME"
        /\ UNCHANGED <<RRR, SSS>>
    BY <1>5, Zenon DEF SnrmResponse
  <2>2. Fresh /\ RRR = 0 /\ SSS = 0
    BY <2>1, Got, Zenon DEF FreshInv
  <2> QED BY <1>1, <2>1, <2>2 DEF NumberInv, Even, Fresh
<1>6. CASE InformationFrame
  <2>1. GW_State = "INFORMATION_FRAME" /\ Even /\ ~Awaited /\ hdlcRX_Count' = 0
        /\ UNCHANGED <<RRR, GW_tmp, lineRcv>>
    BY <1>6 DEF InformationFrame, NumberInv, Awaited, Flush
  <2>2. CASE AddressOK(GW_tmp.req)
    <3>1. /\ GW_State' = "RESPONSE" /\ hdlcTX' = GW2HDLC_Frame_Convertor
          /\ SSS' = NextSeq(SSS)
      BY <1>6, <2>2, Zenon DEF InformationFrame
    <3>2. ~Replied' /\ Command' = GW2HDLC_Frame_Convertor
      BY <2>1, <3>1, Sent1, Zenon
    <3>3. Command'.type = "I" /\ Command'.req = GW_tmp.req /\ Command'.ns = Field(SSS)
      BY <3>2 DEF GW2HDLC_Frame_Convertor, HdlcFrame
    <3>4. meter.connected => SSS' = Succ(meter.vr) /\ Command'.ns = meter.vr /\ RRR' = meter.vs
      BY <1>2, <2>1, <3>1, <3>3, Wraps DEF Even
    <3>5. Asks'
      BY <1>1, <2>1, <3>3, <3>4, Zenon DEF Asks
    <3> QED BY <1>1, <3>1, <3>2, <3>5 DEF NumberInv
  <2>3. CASE ~AddressOK(GW_tmp.req)
    <3>1. GW_State' = "WAIT_FOR_GET_FRAME" /\ SSS' = SSS
      BY <1>6, <2>3, Zenon DEF InformationFrame
    <3> QED BY <1>1, <2>1, <3>1 DEF NumberInv, Even
  <2> QED BY <2>2, <2>3
<1>7. CASE Response
  <2>1. /\ GW_State = "RESPONSE" /\ hdlcRX_Count > 0 /\ HDLC_tmp' = hdlcRX
        /\ GW_State' = IF RLRQ_flag THEN "DISC_REQUEST" ELSE "RESPONSE_FOR_MDM"
        /\ UNCHANGED <<RLRQ_flag, RRR, SSS>>
    BY <1>7, Zenon DEF Response
  <2>2. Unread(HDLC_tmp)'
    <3>1. Unread(hdlcRX)
      BY <2>1, Got, Zenon DEF NumberInv
    <3> QED BY <1>1, <2>1, <3>1, Zenon DEF Unread, Behind
  <2>3. CASE RLRQ_flag
    <3>1. GW_State' = "DISC_REQUEST" /\ RLRQ_flag'
      BY <2>1, <2>3, Zenon
    <3> QED BY <1>1, <3>1 DEF NumberInv
  <2>4. CASE ~RLRQ_flag
    <3>1. GW_State' = "RESPONSE_FOR_MDM" /\ ~RLRQ_flag'
      BY <2>1, <2>4, Zenon
    <3> QED BY <1>1, <2>2, <3>1 DEF NumberInv
  <2> QED BY <2>3, <2>4
<1>8. CASE Segment
  <2>1. /\ GW_State = "SEGMENT" /\ Even /\ ~Awaited /\ hdlcRX_Count' = 0
        /\ UNCHANGED <<RRR, SSS, GW_tmp, lineRcv>> /\ GW_State' = "RESPONSE"
        /\ meter.connected => Len(meter.unacked) > 1
    BY <1>8 DEF Segment, NumberInv, Awaited, Flush
  <2>2. hdlcTX' = GW2HDLC_Poll_For_Remained_Data
    <3>1. AddressLengthOK(GW_tmp.req)
      BY <2>1 DEF AddressChecked, AddressLengthOK
    <3> QED BY <1>8, <3>1, Zenon DEF Segment
  <2>3. ~Replied' /\ Command' = GW2HDLC_Poll_For_Remained_Data
    BY <2>1, <2>2, Sent1, Zenon
  <2>4. Command'.type = "RR" /\ Command'.nr = Field(RRR)
    BY <2>3 DEF GW2HDLC_Poll_For_Remained_Data, HdlcFrame
  <2>5. meter.connected => Command'.nr = meter.vs /\ SSS' = meter.vr /\ RRR' = meter.vs
    BY <1>2, <2>1, <2>4, Wraps DEF Even
  <2>6. Asks'
    BY <1>1, <2>1, <2>4, <2>5, Zenon DEF Asks
  <2> QED BY <1>1, <2>1, <2>3, <2>6 DEF NumberInv
<1>9. CASE DiscRequest
  <2>1. /\ GW_State = "DISC_REQUEST" /\ ~Awaited /\ hdlcRX_Count' = 0 /\ RLRQ_flag'
        /\ UNCHANGED lineRcv
    BY <1>9 DEF DiscRequest, NumberInv, Awaited, Flush
  <2>2. hdlcTX' = GW2HDLC_DISC_Generator /\ GW_State' = "DISC_RESPONSE"
    <3>1. AddressLengthOK(GW_tmp.req)
      BY <2>1 DEF AddressChecked, AddressLengthOK
    <3> QED BY <1>9, <3>1, Zenon DEF DiscRequest
  <2>3. ~Replied' /\ Command' = GW2HDLC_DISC_Generator
    BY <2>1, <2>2, Sent1, Zenon
  <2>4. Command'.type = "DISC"
    BY <2>3 DEF GW2HDLC_DISC_Generator, HdlcFrame
  <2> QED BY <1>1, <2>1, <2>2, <2>3, <2>4 DEF NumberInv
<1>10. CASE DiscResponse
  <2>1. /\ GW_State = "DISC_RESPONSE" /\ hdlcRX_Count > 0 /\ GW_State' = "RESPONSE_FOR_MDM"
        /\ RLRQ_flag' = RLRQ_flag
    BY <1>10, Zenon DEF DiscResponse
  <2>2. ~meter.connected /\ RLRQ_flag
    BY <2>1, Got DEF NumberInv
  <2> QED BY <1>1, <2>1, <2>2 DEF NumberInv
<1>11. CASE RejectFrame
  <2>1. /\ GW_State = "RESPONSE_FOR_MDM" /\ ~HDLC_tmp.valid /\ UNCHANGED <<RLRQ_flag, RRR, SSS>>
        /\ GW_State' \in {"SEGMENT", "WAIT_FOR_GET_FRAME"}
    BY <1>11 DEF RejectFrame, Converting, SetSegmentation, StateAfter
  <2>2. ~meter.connected
    BY <2>1 DEF NumberInv, Unread
  <2> QED BY <1>1, <2>1, <2>2 DEF NumberInv, Even
<1>12. CASE AcceptFrame
  <2>1. /\ GW_State = "RESPONSE_FOR_MDM" /\ HDLC_tmp.valid /\ RRR' = NextSeq(RRR)
        /\ UNCHANGED SSS /\ GW_State' = StateAfter(HDLC_tmp)
    BY <1>12, Zenon DEF AcceptFrame, Converting, SetSegmentation
  <2>2. meter.connected => Behind /\ (HDLC_tmp.seg => Len(meter.unacked) > 1)
    BY <2>1 DEF NumberInv, Unread
  <2>3. Even'
    BY <1>1, <2>1, <2>2, Wraps DEF Even, Behind
  <2>4. \/ GW_State' = "SEGMENT" /\ HDLC_tmp.seg
        \/ GW_State' = "WAIT_FOR_GET_FRAME"
    BY <2>1, Zenon DEF StateAfter
  <2> QED BY <1>1, <2>2, <2>3, <2>4 DEF NumberInv
<1>13. ASSUME NEW state \in {"SNRM_RESPONSE", "RESPONSE", "DISC_RESPONSE"}, TimedOut(state)
       PROVE  NumberInv'
  BY <1>13, NoTimeout, Zenon
<1> QED BY <1>3, <1>4, <1>5, <1>6, <1>7, <1>8, <1>9, <1>10, <1>11, <1>12, <1>13, <1>14, Zenon
        DEF GatewayStep, GW_Run

LEMMA NumberStep ==
    TypeOK /\ LinkInv /\ LineInv /\ FreshInv /\ AddressChecked /\ CalmInv /\ NumberInv
        /\ Orderly /\ [LinkNext]_allVars
        => NumberInv'
<1> SUFFICES ASSUME TypeOK, LinkInv, LineInv, FreshInv, AddressChecked, CalmInv, NumberInv,
                    Orderly, [LinkNext]_allVars
             PROVE  NumberInv'
  OBVIOUS
<1>1. CASE GatewayStep
  BY <1>1, GatewayNumbers
<1>2. CASE MeterStep
  BY <1>2, MeterNumbers
<1>3. CASE ~GatewayStep /\ ~MeterStep
  <2>1. /\ UNCHANGED Talk
        /\ Sending' => Sending /\ Command' = Command
        /\ Replied' => Replied /\ Received' = Received
    BY <1>3, Carried
  <2>2. UNCHANGED <<GW_State, RLRQ_flag, GW_tmp, HDLC_tmp, RRR, SSS, meter, Even, Behind>>
    BY <2>1, Zenon DEF Talk, Even, Behind
  <2>3. /\ Sending' => (Asks' <=> Asks)
        /\ Replied' => (Unread(Received)' <=> Unread(Received))
        /\ Unread(HDLC_tmp)' <=> Unread(HDLC_tmp)
    BY <2>1, <2>2, Zenon DEF Asks, Unread
  <2> QED BY <2>1, <2>2, <2>3, Zenon DEF NumberInv
<1> QED BY <1>1, <1>2, <1>3

CalmLink == Calm => LineInv /\ FreshInv /\ CalmInv /\ NumberInv

LEMMA CalmInvariance == LinkSpec => []CalmLink
<1>1. LinkInit => CalmLink
  <2> SUFFICES ASSUME LinkInit PROVE CalmInv /\ NumberInv /\ FreshInv /\ LineInv
    BY DEF CalmLink
  <2>1. /\ GW_State = "WAIT_FOR_GET_FRAME" /\ lineSnd = "idle"
        /\ meter = [connected |-> FALSE, vr |-> 0, vs |-> 0, unacked |-> <<>>]
    BY Zenon DEF LinkInit, Init
  <2>2. CalmInv /\ FreshInv
    BY <2>1 DEF CalmInv, FreshInv, Awaited
  <2>3. NumberInv
    BY <2>1 DEF NumberInv, Graded, Even
  <2> QED BY <2>2, <2>3, LineInit
<1>2. TypeOK /\ LinkInv /\ AddressChecked /\ CalmLink /\ [LinkNext]_allVars => CalmLink'
  <2> SUFFICES ASSUME TypeOK, LinkInv, AddressChecked, CalmLink, [LinkNext]_allVars, Calm'
               PROVE  LineInv' /\ FreshInv' /\ CalmInv' /\ NumberInv'
    BY DEF CalmLink
  <2>1. Calm
    BY ScenarioFixed, Zenon DEF Calm, Faults
  <2>2. Orderly
    BY <2>1, CalmIsOrderly
  <2> QED BY <2>1, <2>2, LineStep, FreshStep, CalmStep, NumberStep DEF CalmLink
<1>3. LinkSpec => []AddressChecked
  BY LinkImplementsGateway, AddressesChecked, PTL
<1> QED BY <1>1, <1>2, <1>3, LinkInvariance, PTL DEF LinkSpec

(* On a line without faults the stations agree on both sequence numbers    *)
(* whenever the gateway waits for the MDM, whatever the script: NextSeq,   *)
(* the reset after an SNRM and the two fields of the control octet keep    *)
(* step with a meter that counts modulo MaxSeq + 1. *)
THEOREM NumbersInStep == LinkSpec => []InStep
<1>1. CalmLink => InStep
  BY DEF CalmLink, Calm, NumberInv, Even, InStep
<1> QED BY <1>1, CalmInvariance, PTL

LEMMA PostInvariance == LinkSpec => [](PostInv /\ AddressChecked)
<1>1. LinkSpec => []AddressChecked
  BY LinkImplementsGateway, AddressesChecked, PTL
<1> QED BY <1>1, PostInit, PostStep, LinkInvariance, PTL DEF LinkSpec

-----------------------------------------------------------------------------
(* Answers of one frame on a line that loses frames.  Nothing is ever left *)
(* in the reassembly buffer; the answer the gateway gets while it waits    *)
(* for one is the meter's to the I-frame of this exchange, or bare. *)
Id == GW_tmp.req.id
Single(f) == f = Bare \/ f = AnswerFrame(Id, 1)
Part(id, k) == Octets(Payload(id, k))
Parts(id) == [k \in 1..Segments[id] |-> Part(id, k)]
AnswerReady ==
    gwTX # None => /\ gwTX.data = Parts(gwTX.for.id)
                   /\ gwTX.cut <=> Segments[gwTX.for.id] > 1

LEMMA PartsPassed ==
    ASSUME AnswerReady, gwTX # None
    PROVE  PassedOn(gwTX, gwTX.for.id)
<1>1. \A id, k : Part(id, k) = [of |-> Payload(id, k), whole |-> k = 1]
  BY DEF Part, Octets, Payload
<1>2. \A id : Parts(id) = [k \in 1..Segments[id] |->
                             [of |-> Payload(id, k), whole |-> k = 1]]
  BY <1>1, Zenon DEF Parts
<1> QED BY <1>2, Zenon DEF AnswerReady, PassedOn

OwnInv ==
    /\ Segment_bit = "SINGLE" /\ segBuf = <<>>
    /\ GW_State # "SEGMENT"
    /\ GW_State = "RESPONSE" => /\ Sending => Command.type = "I" /\ Command.req = GW_tmp.req
                                /\ Replied => Single(Received)
    /\ GW_State \in {"DISC_REQUEST", "DISC_RESPONSE", "RESPONSE_FOR_MDM"} => Single(HDLC_tmp)
    /\ AnswerReady

LEMMA ScenarioKeeps ==
    ASSUME scenario' = scenario
    PROVE  /\ \A id, k : AnswerFrame(id, k)' = AnswerFrame(id, k)
           /\ \A id : Parts(id)' = Parts(id)
           /\ Segments' = Segments
           /\ OneFrameEach' = OneFrameEach /\ OneFrameRelease' = OneFrameRelease
BY Zenon DEF AnswerFrame, Parts, OneFrameEach, OneFrameRelease, Segments, Script

LEMMA AnswerKept ==
    ASSUME scenario' = scenario, AnswerReady, gwTX' = gwTX \/ gwTX' = None
    PROVE  AnswerReady'
BY ScenarioKeeps, Zenon DEF AnswerReady

LEMMA OneFrame ==
    ASSUME TypeOK, LinkInv, PostInv, OneFrameEach, GW_tmp.req.addr = "good", NEW f, Single(f)
    PROVE  /\ ~f.seg /\ Segments[Id] = 1
           /\ f.valid => f.data = Payload(Id, 1) /\ <<Octets(f.data)>> = Parts(Id)
<1>1. Segments[Id] = 1
  BY Asked1 DEF OneFrameEach, Id
<1>2. CASE f = Bare
  BY <1>1, <1>2 DEF Bare
<1>3. CASE f = AnswerFrame(Id, 1)
  <2>1. ~f.seg /\ f.data = Payload(Id, 1)
    <3>1. ~(1 < Segments[Id]) /\ 1 \in Nat
      BY <1>1
    <3> QED BY <1>3, <3>1, AnswerFields, Zenon
  <2>2. <<Part(Id, 1)>> = [k \in 1..1 |-> Part(Id, k)]
    OBVIOUS
  <2>3. <<Octets(f.data)>> = <<Part(Id, 1)>>
    BY <2>1, Zenon DEF Part
  <2> QED BY <1>1, <2>1, <2>2, <2>3, Zenon DEF Parts
<1> QED BY <1>2, <1>3 DEF Single

LEMMA GatewayOwn ==
    ASSUME TypeOK, LinkInv, LineInv, PostInv, AddressChecked, OneFrameEach, OwnInv, GatewayStep
    PROVE  OwnInv'
<1>1. UNCHANGED <<toMeter, toGateway, lineSnd, scenario>>
  BY Zenon DEF GatewayStep, linkVars
<1> DEFINE kept == UNCHANGED <<Segment_bit, segBuf, gwTX, GW_tmp, HDLC_tmp>>
<1>2. ASSUME kept PROVE Single(HDLC_tmp)' <=> Single(HDLC_tmp)
  BY <1>1, <1>2, ScenarioKeeps, Zenon DEF Single, Id
<1>3. ASSUME UNCHANGED gwTX PROVE AnswerReady'
  BY <1>1, <1>3, AnswerKept DEF OwnInv
<1>12. ~ResponseFaults
  BY Zenon DEF ResponseFaults, LineInv, WireInv
<1>4. CASE TakeOctets \/ TakeCount \/ WaitForGetFrame
  <2>1. /\ GW_State' \in {"WAIT_FOR_GET_FRAME", "SNRM_REQUEST", "INFORMATION_FRAME"}
        /\ UNCHANGED <<Segment_bit, segBuf, gwTX>>
    BY <1>4, Taking, Taken1
  <2> QED BY <1>3, <2>1 DEF OwnInv
<1>5. CASE SnrmRequest \/ SnrmResponse
  <2>1. /\ GW_State' \in {"SNRM_RESPONSE", "WAIT_FOR_GET_FRAME", "INFORMATION_FRAME"}
        /\ UNCHANGED <<Segment_bit, segBuf, gwTX>>
    BY <1>5 DEF SnrmRequest, SnrmResponse
  <2> QED BY <1>3, <2>1 DEF OwnInv
<1>6. CASE InformationFrame
  <2>1. ~Awaited /\ hdlcRX_Count' = 0 /\ UNCHANGED lineRcv /\ kept
    BY <1>6 DEF InformationFrame, Awaited, Flush
  <2>2. CASE AddressOK(GW_tmp.req)
    <3>1. GW_State' = "RESPONSE" /\ hdlcTX' = GW2HDLC_Frame_Convertor
      BY <1>6, <2>2, Zenon DEF InformationFrame
    <3>2. ~Replied' /\ Command' = GW2HDLC_Frame_Convertor
      BY <2>1, <3>1, Sent1, Zenon
    <3>3. Command'.type = "I" /\ Command'.req = GW_tmp.req
      BY <3>2 DEF GW2HDLC_Frame_Convertor, HdlcFrame
    <3> QED BY <1>3, <2>1, <3>1, <3>2, <3>3 DEF OwnInv
  <2>3. CASE ~AddressOK(GW_tmp.req)
    <3>1. GW_State' = "WAIT_FOR_GET_FRAME"
      BY <1>6, <2>3, Zenon DEF InformationFrame
    <3> QED BY <1>3, <2>1, <3>1 DEF OwnInv
  <2> QED BY <2>2, <2>3
<1>7. CASE Response
  <2>1. /\ GW_State = "RESPONSE" /\ hdlcRX_Count > 0 /\ HDLC_tmp' = hdlcRX
        /\ GW_State' \in {"DISC_REQUEST", "RESPONSE_FOR_MDM"}
        /\ UNCHANGED <<Segment_bit, segBuf, gwTX, GW_tmp>>
    BY <1>7 DEF Response
  <2>2. Single(hdlcRX)
    BY <2>1, Got, Zenon DEF OwnInv
  <2>3. Single(HDLC_tmp)'
    BY <1>1, <2>1, <2>2, ScenarioKeeps, Zenon DEF Single, Id
  <2> QED BY <1>3, <2>1, <2>3 DEF OwnInv
<1>8. CASE Segment
  BY <1>8, Zenon DEF Segment, OwnInv
<1>9. CASE DiscRequest \/ DiscResponse
  <2>1. /\ GW_State \in {"DISC_REQUEST", "DISC_RESPONSE"}
        /\ GW_State' \in {"DISC_RESPONSE", "RESPONSE_FOR_MDM"} /\ kept
    BY <1>9 DEF DiscRequest, DiscResponse
  <2> QED BY <1>2, <1>3, <2>1 DEF OwnInv
<1>10. CASE RejectFrame \/ AcceptFrame
  <2>1. /\ GW_State = "RESPONSE_FOR_MDM" /\ Segment_bit' = SegmentBitAfter(HDLC_tmp)
        /\ GW_State' = StateAfter(HDLC_tmp)
    BY <1>10, Zenon DEF RejectFrame, AcceptFrame, Converting, SetSegmentation
  <2>2. Single(HDLC_tmp) /\ Segment_bit # "MIDDLE" /\ GW_tmp.req.addr = "good"
    BY <2>1 DEF OwnInv, AddressChecked
  <2>3. ~HDLC_tmp.seg /\ (HDLC_tmp.valid => <<Octets(HDLC_tmp.data)>> = Parts(Id))
        /\ Segments[Id] = 1
    BY <2>2, OneFrame
  <2>4. Segment_bit' = "SINGLE" /\ GW_State' = "WAIT_FOR_GET_FRAME"
    BY <2>1, <2>2, <2>3, Zenon DEF SegmentBitAfter, StateAfter
  <2>5. segBuf' = <<>> /\ AnswerReady'
    <3>1. CASE RejectFrame
      BY <1>3, <2>4, <3>1, Zenon DEF RejectFrame, Kept
    <3>2. CASE AcceptFrame
      <4>1. Segment_bit' # "MIDDLE" /\ Segment_bit' # "LAST"
        BY <2>4
      <4>2. segBuf' = <<>> /\ gwTX' = Reply(<<Octets(HDLC_tmp.data)>>, FALSE) /\ HDLC_tmp.valid
        BY <3>2, <4>1, Zenon DEF AcceptFrame
      <4>3. /\ gwTX'.for = GW_tmp.req /\ gwTX'.data = Parts(Id)
            /\ gwTX'.cut <=> Segments[Id] > 1
        BY <2>3, <4>2 DEF Reply
      <4> QED BY <1>1, <4>2, <4>3, ScenarioKeeps, Zenon DEF AnswerReady, Id
    <3> QED BY <1>10, <3>1, <3>2
  <2> QED BY <2>4, <2>5 DEF OwnInv
<1>11. ASSUME NEW state \in {"SNRM_RESPONSE", "RESPONSE", "DISC_RESPONSE"}, TimedOut(state)
       PROVE  OwnInv'
  <2>1. GW_State' = "WAIT_FOR_GET_FRAME" /\ kept
    BY <1>11, Zenon DEF TimedOut
  <2> QED BY <1>3, <2>1 DEF OwnInv
<1> QED
  BY <1>4, <1>5, <1>6, <1>7, <1>8, <1>9, <1>10, <1>11, <1>12, Zenon DEF GatewayStep, GW_Run

LEMMA MeterOwn ==
    ASSUME TypeOK, LinkInv, LineInv, Orderly, OwnInv, MeterStep
    PROVE  OwnInv'
<1>1. /\ Sending /\ Command = Head(toMeter) /\ Command \in MeterFrames
      /\ hdlcTX' = None /\ toMeter' = <<>> /\ UNCHANGED <<vars, scenario>>
  BY MeterEffect, Zenon DEF vars
<1>2. /\ UNCHANGED <<GW_State, GW_tmp, HDLC_tmp, Segment_bit, segBuf, gwTX>>
      /\ ~Sending'
  BY <1>1, Zenon DEF vars, gwVars, Sending
<1>3. AnswerReady' /\ (Single(HDLC_tmp)' <=> Single(HDLC_tmp))
  BY <1>1, <1>2, AnswerKept, ScenarioKeeps, Zenon DEF OwnInv, Single, Id
<1>4. ASSUME GW_State = "RESPONSE", Replied' PROVE Single(Received)'
  <2>1. Command.type = "I" /\ Command.req = GW_tmp.req
    BY <1>1, <1>4, Zenon DEF OwnInv
  <2>2. MeterAnswer(Command) \/ MeterRefuse(Command)
    <3>1. ~MeterConnect(Command) /\ ~MeterDisconnect(Command) /\ ~MeterNextSegment(Command)
      BY <2>1 DEF MeterConnect, MeterDisconnect, MeterNextSegment
    <3> QED BY <1>1, <3>1, Zenon DEF MeterStep
  <2>3. AnswerFrame(Id, 1) \in Frames /\ Bare \in Frames
    BY <1>1, <2>1, AnswerType, MeterAssumption, Zenon DEF Id
  <2>4. Reply1(AnswerFrame(Id, 1)) \/ Reply1(Bare)
    BY <2>1, <2>2, Zenon DEF MeterAnswer, MeterRefuse, Id
  <2>5. Received' = AnswerFrame(Id, 1) \/ Received' = Bare
    BY <1>4, <2>3, <2>4, Answered1, Zenon
  <2> QED BY <1>1, <1>2, <2>5, ScenarioKeeps, Zenon DEF Single, Id
<1> QED BY <1>2, <1>3, <1>4, Zenon DEF OwnInv

LEMMA OwnStep ==
    TypeOK /\ LinkInv /\ LineInv /\ PostInv /\ AddressChecked /\ Orderly /\ OneFrameEach
        /\ OwnInv /\ [LinkNext]_allVars => OwnInv'
<1> SUFFICES ASSUME TypeOK, LinkInv, LineInv, PostInv, AddressChecked, Orderly, OneFrameEach,
                    OwnInv, [LinkNext]_allVars
             PROVE  OwnInv'
  OBVIOUS
<1>1. CASE GatewayStep
  BY <1>1, GatewayOwn
<1>2. CASE MeterStep
  BY <1>2, MeterOwn
<1>3. CASE ~GatewayStep /\ ~MeterStep
  <2>1. /\ UNCHANGED Talk /\ (gwTX' = gwTX \/ gwTX' = None)
        /\ Sending' => Sending /\ Command' = Command
        /\ Replied' => Replied /\ Received' = Received
    BY <1>3, Carried
  <2>2. UNCHANGED <<GW_State, GW_tmp, HDLC_tmp, Segment_bit, segBuf>> /\ scenario' = scenario
    BY <2>1, ScenarioFixed, Zenon DEF Talk
  <2>3. AnswerReady' /\ (Single(HDLC_tmp)' <=> Single(HDLC_tmp))
    BY <2>1, <2>2, AnswerKept, ScenarioKeeps, Zenon DEF OwnInv, Single, Id
  <2>4. Replied' /\ Single(Received) => Single(Received)'
    BY <2>1, <2>2, ScenarioKeeps, Zenon DEF Single, Id
  <2> QED BY <2>1, <2>2, <2>3, <2>4, Zenon DEF OwnInv
<1> QED BY <1>1, <1>2, <1>3

OwnLink == Orderly /\ OneFrameEach => OwnInv

(* However many frames are lost, whatever the MDM is given is the meter's  *)
(* answer to the request it is given for, when each answer is one frame:   *)
(* the flush before every frame to the meter keeps an earlier answer away. *)
THEOREM AnswersAreOwn == LinkSpec => []AnswerIsOwn
<1>1. LinkInit => OwnLink
  <2> SUFFICES ASSUME LinkInit PROVE OwnInv
    BY DEF OwnLink
  <2>1. /\ GW_State = "WAIT_FOR_GET_FRAME" /\ Segment_bit = "SINGLE" /\ segBuf = <<>>
        /\ gwTX = None
    BY Zenon DEF LinkInit, Init
  <2> QED BY <2>1 DEF OwnInv, AnswerReady
<1>2. TypeOK /\ LinkInv /\ OrderlyInv /\ PostInv /\ AddressChecked /\ OwnLink
         /\ [LinkNext]_allVars => OwnLink'
  <2> SUFFICES ASSUME TypeOK, LinkInv, OrderlyInv, PostInv, AddressChecked, OwnLink,
                      [LinkNext]_allVars, Orderly', OneFrameEach'
               PROVE  OwnInv'
    BY DEF OwnLink
  <2>1. Orderly /\ OneFrameEach
    BY ScenarioFixed, ScenarioKeeps, Zenon DEF Orderly, Faults
  <2> QED BY <2>1, OwnStep DEF OrderlyInv, OwnLink
<1>3. OwnLink => AnswerIsOwn
  BY PartsPassed, Zenon DEF OwnLink, Orderly, OwnInv, AnswerIsOwn
<1> QED BY <1>1, <1>2, <1>3, LinkInvariance, OrderlyInvariance, PostInvariance, PTL DEF LinkSpec

-----------------------------------------------------------------------------
(* Answers of any length without faults.  The buffer holds the first       *)
(* segments of the answer to this exchange (Begun); the frame to be        *)
(* converted is the next one (Coming), and the meter still keeps those     *)
(* from it on (Rest). *)
Taken == Len(segBuf)
Rest(k) == [i \in 1..(Segments[Id] - k) |-> AnswerFrame(Id, k + i)]
Empty == segBuf = <<>> /\ Segment_bit # "MIDDLE"
Begun ==
    /\ Taken < Segments[Id]
    /\ segBuf = [i \in 1..Taken |-> Part(Id, i)]
    /\ Segment_bit = "MIDDLE" <=> Taken > 0

Coming(f) ==
    \/ f = Bare /\ Empty
    \/ Begun /\ f = AnswerFrame(Id, Taken + 1) /\ (RLRQ_flag => Taken = 0)

More ==
    /\ Begun /\ Taken > 0 /\ ~RLRQ_flag
    /\ meter.connected /\ meter.unacked = Rest(Taken - 1)

DataInv ==
    /\ GW_State \in {"WAIT_FOR_GET_FRAME", "SNRM_REQUEST", "SNRM_RESPONSE", "INFORMATION_FRAME"}
         => Empty
    /\ GW_State = "SEGMENT" => More
    /\ GW_State = "RESPONSE" =>
         /\ Sending => (Command.type = "I" => Empty) /\ (Command.type = "RR" => More)
         /\ Replied => /\ Coming(Received)
                       /\ meter.connected => meter.unacked = Rest(Taken)
    /\ GW_State \in {"DISC_REQUEST", "DISC_RESPONSE", "RESPONSE_FOR_MDM"} => Coming(HDLC_tmp)
    /\ GW_State = "RESPONSE_FOR_MDM" /\ ~RLRQ_flag /\ meter.connected
         => meter.unacked = Rest(Taken)
    /\ AnswerReady

AllParts(id) == {Part(id, i) : i \in Nat}

LEMMA OneMore ==
    ASSUME NEW id, NEW k \in Nat
    PROVE  Append([i \in 1..k |-> Part(id, i)], Part(id, k + 1))
               = [i \in 1..(k + 1) |-> Part(id, i)]
<1> DEFINE q == [i \in 1..k |-> Part(id, i)]
           r == [i \in 1..(k + 1) |-> Part(id, i)]
<1>1. q \in Seq(AllParts(id)) /\ Len(q) = k /\ Part(id, k + 1) \in AllParts(id)
  BY DEF AllParts
<1>2. r \in Seq(AllParts(id)) /\ Len(r) = k + 1
  BY DEF AllParts
<1>3. Append(q, Part(id, k + 1)) \in Seq(AllParts(id))
      /\ Len(Append(q, Part(id, k + 1))) = k + 1
  BY <1>1
<1>4. ASSUME NEW i \in 1..(k + 1) PROVE Append(q, Part(id, k + 1))[i] = r[i]
  BY <1>1
<1> QED BY <1>2, <1>3, <1>4

(* Nothing is taken of an answer that has begun with an empty buffer *)
LEMMA EmptyBegins ==
    ASSUME Empty, Segments[Id] \in Nat \ {0}
    PROVE  Begun /\ Taken = 0
<1>1. Len(segBuf) = 0
  BY DEF Empty
<1>2. <<>> = [i \in 1..0 |-> Part(Id, i)]
  OBVIOUS
<1> QED BY <1>1, <1>2 DEF Empty, Begun, Taken

LEMMA RestTail ==
    ASSUME NEW k \in Nat, k > 0, Segments[Id] \in Nat, k < Segments[Id]
    PROVE  /\ Len(Rest(k - 1)) > 1 /\ Rest(k - 1)[2] = AnswerFrame(Id, k + 1)
           /\ Tail(Rest(k - 1)) = Rest(k)
<1> DEFINE n == Segments[Id]
           F == {AnswerFrame(Id, j) : j \in Nat}
<1>1. /\ Rest(k - 1) \in Seq(F) /\ Len(Rest(k - 1)) = n - (k - 1)
      /\ \A i \in 1..(n - (k - 1)) : Rest(k - 1)[i] = AnswerFrame(Id, (k - 1) + i)
  BY SMTT(30) DEF Rest
<1>2. /\ Rest(k) \in Seq(F) /\ Len(Rest(k)) = n - k
      /\ \A i \in 1..(n - k) : Rest(k)[i] = AnswerFrame(Id, k + i)
  BY SMTT(30) DEF Rest
<1>3. 2 \in 1..(n - (k - 1)) /\ (k - 1) + 2 = k + 1
  OBVIOUS
<1>4. /\ Tail(Rest(k - 1)) \in Seq(F) /\ Len(Tail(Rest(k - 1))) = n - k
      /\ \A i \in 1..(n - k) : Tail(Rest(k - 1))[i] = Rest(k - 1)[i + 1]
  BY <1>1, <1>3, SMTT(30)
<1>5. ASSUME NEW i \in 1..(n - k) PROVE Tail(Rest(k - 1))[i] = Rest(k)[i]
  <2>1. i + 1 \in 1..(n - (k - 1)) /\ (k - 1) + (i + 1) = k + i
    OBVIOUS
  <2> QED BY <1>1, <1>2, <1>4, <2>1
<1>6. Tail(Rest(k - 1)) = Rest(k)
  <2> DEFINE a == Tail(Rest(k - 1))
             b == Rest(k)
  <2>1. a \in Seq(F) /\ b \in Seq(F) /\ Len(a) = n - k /\ Len(b) = n - k
        /\ \A i \in 1..(n - k) : a[i] = b[i]
    BY <1>2, <1>4, <1>5
  <2> HIDE DEF a, b, F, n
  <2>2. a = b
    BY <2>1, SMTT(30)
  <2> QED BY <2>2 DEF a, b
<1> QED BY <1>1, <1>3, <1>6

LEMMA RestStarts ==
    ASSUME Segments[Id] \in Nat
    PROVE  AnswerFrames(Id) = Rest(0)
<1>1. \A k \in 1..Segments[Id] : 0 + k = k
  OBVIOUS
<1>2. Segments[Id] - 0 = Segments[Id]
  OBVIOUS
<1> QED BY <1>1, <1>2 DEF AnswerFrames, Rest

LEMMA DataKeeps ==
    ASSUME UNCHANGED <<scenario, GW_tmp, segBuf, Segment_bit, RLRQ_flag>>
    PROVE  /\ Taken' = Taken /\ Id' = Id /\ \A k : Rest(k)' = Rest(k)
           /\ (Empty' <=> Empty) /\ (Begun' <=> Begun)
           /\ HDLC_tmp' = HDLC_tmp => (Coming(HDLC_tmp)' <=> Coming(HDLC_tmp))
           /\ Received' = Received => (Coming(Received)' <=> Coming(Received))
<1>1. Taken' = Taken /\ Id' = Id /\ Segments' = Segments
  BY Zenon DEF Taken, Id, Segments
<1>2. \A id, k : AnswerFrame(id, k)' = AnswerFrame(id, k)
  BY ScenarioKeeps
<1>3. \A k : Rest(k)' = Rest(k)
  BY <1>1, <1>2, Zenon DEF Rest
<1>4. (Empty' <=> Empty) /\ (Begun' <=> Begun)
  BY <1>1, Zenon DEF Empty, Begun
<1> QED BY <1>1, <1>2, <1>3, <1>4, Zenon DEF Coming

LEMMA NothingSent ==
    ASSUME GW_State \in {"WAIT_FOR_GET_FRAME", "SNRM_REQUEST", "SNRM_RESPONSE",
                         "INFORMATION_FRAME"},
           Empty, AnswerReady
    PROVE  DataInv
BY DEF DataInv

(* A frame is converted: it is bare, or the next of the answer *)
LEMMA RejectData ==
    ASSUME GW_State = "RESPONSE_FOR_MDM", Coming(HDLC_tmp), AnswerReady, scenario' = scenario,
           RejectFrame
    PROVE  DataInv'
<1>1. /\ ~HDLC_tmp.valid /\ segBuf' = Kept(Segment_bit') /\ gwTX' = gwTX
      /\ Segment_bit' = SegmentBitAfter(HDLC_tmp) /\ GW_State' = StateAfter(HDLC_tmp)
  BY Zenon DEF RejectFrame, Converting, SetSegmentation
<1>2. HDLC_tmp = Bare /\ Empty
  <2>1. HDLC_tmp # AnswerFrame(Id, Taken + 1)
    BY <1>1 DEF AnswerFrame, FrameOf
  <2> QED BY <2>1, Zenon DEF Coming
<1>3. ~HDLC_tmp.seg /\ Segment_bit # "MIDDLE"
  BY <1>2 DEF Bare, Empty
<1>4. Segment_bit' = "SINGLE" /\ GW_State' = "WAIT_FOR_GET_FRAME"
  BY <1>1, <1>3, Zenon DEF SegmentBitAfter, StateAfter
<1>5. Empty'
  BY <1>1, <1>4 DEF Kept, Empty
<1>6. AnswerReady'
  BY <1>1, AnswerKept
<1> QED BY <1>4, <1>5, <1>6 DEF DataInv

LEMMA AcceptData ==
    ASSUME TypeOK, LinkInv, PostInv, AddressChecked, OneFrameRelease, NumberInv, DataInv,
           UNCHANGED <<scenario, meter>>, AcceptFrame
    PROVE  DataInv'
<1>1. /\ GW_State = "RESPONSE_FOR_MDM" /\ HDLC_tmp.valid
      /\ Segment_bit' = SegmentBitAfter(HDLC_tmp) /\ GW_State' = StateAfter(HDLC_tmp)
      /\ UNCHANGED <<GW_tmp, RLRQ_flag>>
  BY Zenon DEF AcceptFrame, Converting, SetSegmentation
<1>2. /\ Taken \in Nat /\ GW_tmp.req.addr = "good" /\ Segments[Id] \in Nat \ {0}
      /\ \E n \in 1..Len(Script) : Script[n] = GW_tmp.req
  <2>1. Taken \in Nat
    BY DEF TypeOK, Taken
  <2>2. GW_tmp.req.addr = "good"
    BY <1>1 DEF AddressChecked
  <2> QED BY <2>1, <2>2, Asked1 DEF Id
<1>3. Begun /\ HDLC_tmp = AnswerFrame(Id, Taken + 1) /\ (RLRQ_flag => Taken = 0)
  <2>1. HDLC_tmp # Bare
    BY <1>1 DEF Bare
  <2>2. Coming(HDLC_tmp)
    BY <1>1 DEF DataInv
  <2> QED BY <2>1, <2>2, Zenon DEF Coming
<1>4. /\ HDLC_tmp.data = Payload(Id, Taken + 1)
      /\ HDLC_tmp.seg <=> Taken + 1 < Segments[Id]
  BY <1>2, <1>3, AnswerFields
<1>5. Append(segBuf, Octets(HDLC_tmp.data)) = [i \in 1..(Taken + 1) |-> Part(Id, i)]
  <2>1. Octets(HDLC_tmp.data) = Part(Id, Taken + 1)
    BY <1>4, Zenon DEF Part
  <2> QED BY <1>2, <1>3, <2>1, OneMore DEF Begun
<1>6. CASE HDLC_tmp.seg
  <2>1. Segment_bit' = "MIDDLE" /\ GW_State' = "SEGMENT"
    BY <1>1, <1>6, Zenon DEF SegmentBitAfter, StateAfter
  <2>2. segBuf' = Append(segBuf, Octets(HDLC_tmp.data)) /\ gwTX' = None
    <3>1. Segment_bit' # "LAST" /\ Segment_bit' # "SINGLE"
      BY <2>1
    <3> QED BY <3>1, Zenon DEF AcceptFrame
  <2>3. ~RLRQ_flag
    <3>1. RLRQ_flag => Segments[Id] = 1
      BY <1>1, <1>2 DEF PostInv, OneFrameRelease, Id
    <3> QED BY <1>2, <1>3, <1>4, <1>6, <3>1
  <2>4. meter.connected /\ meter.unacked = Rest(Taken)
    <3>1. meter.connected
      <4>1. ~meter.connected => HDLC_tmp = Bare
        BY <1>1, <2>3, Zenon DEF NumberInv, Unread
      <4> QED BY <1>1, <4>1 DEF Bare
    <3> QED BY <1>1, <2>3, <3>1 DEF DataInv
  <2>5. Taken' = Taken + 1 /\ Taken' < Segments[Id] /\ Taken' > 0 /\ Taken' - 1 = Taken
    BY <1>2, <1>4, <1>5, <1>6, <2>2 DEF Taken
  <2>6. Segments' = Segments /\ Id' = Id
        /\ \A id, k : AnswerFrame(id, k)' = AnswerFrame(id, k)
    BY <1>1, ScenarioKeeps, Zenon DEF Segments, Id
  <2>7. Rest(Taken - 1)' = Rest(Taken)
    BY <2>5, <2>6, Zenon DEF Rest
  <2>8. Begun'
    BY <1>5, <2>1, <2>2, <2>5, <2>6 DEF Begun
  <2>9. More'
    BY <1>1, <2>3, <2>4, <2>5, <2>7, <2>8 DEF More
  <2> QED BY <2>1, <2>2, <2>9 DEF DataInv, AnswerReady
<1>7. CASE ~HDLC_tmp.seg
  <2>1. Taken + 1 = Segments[Id]
    BY <1>2, <1>3, <1>4, <1>7 DEF Begun
  <2>2. GW_State' = "WAIT_FOR_GET_FRAME" /\ Segment_bit' \in {"LAST", "SINGLE"}
        /\ (Segment_bit' = "SINGLE" => Segment_bit # "MIDDLE")
    BY <1>1, <1>7 DEF SegmentBitAfter, StateAfter
  <2>3. Append(segBuf, Octets(HDLC_tmp.data)) = Parts(Id)
    BY <1>5, <2>1, Zenon DEF Parts
  <2>4. segBuf' = <<>> /\ \E cut \in BOOLEAN : /\ gwTX' = Reply(Parts(Id), cut)
                                               /\ cut <=> Segments[Id] > 1
    <3>1. CASE Segment_bit' = "LAST"
      <4>1. Segment_bit' # "MIDDLE" /\ Segment_bit' # "SINGLE"
        BY <3>1
      <4>2. Segments[Id] > 1
        <5>1. Segment_bit = "MIDDLE"
          BY <1>1, <1>7, <3>1 DEF SegmentBitAfter
        <5> QED BY <1>2, <1>3, <2>1, <5>1 DEF Begun
      <4>3. segBuf' = <<>> /\ gwTX' = Reply(Parts(Id), TRUE)
        BY <2>3, <4>1, Zenon DEF AcceptFrame
      <4> QED BY <4>2, <4>3, Zenon
    <3>2. CASE Segment_bit' = "SINGLE"
      <4>1. Segment_bit' # "MIDDLE" /\ Segment_bit' # "LAST"
        BY <3>2
      <4>2. segBuf = <<>>
        <5>1. ~(Taken > 0)
          BY <2>2, <3>2, <1>3 DEF Begun
        <5>2. Len(segBuf) = 0 /\ segBuf \in Seq(Pieces)
          BY <1>2, <5>1 DEF Taken, TypeOK
        <5> QED BY <5>2
      <4>3. <<Octets(HDLC_tmp.data)>> = Parts(Id)
        <5>1. Append(<<>>, Octets(HDLC_tmp.data)) = <<Octets(HDLC_tmp.data)>>
          OBVIOUS
        <5> QED BY <2>3, <4>2, <5>1
      <4>4. segBuf' = <<>> /\ gwTX' = Reply(Parts(Id), FALSE)
        BY <4>1, <4>3, Zenon DEF AcceptFrame
      <4>5. ~(Segments[Id] > 1)
        <5>1. Taken = 0
          BY <4>2 DEF Taken
        <5> QED BY <2>1, <5>1
      <4> QED BY <4>4, <4>5, Zenon
    <3> QED BY <2>2, <3>1, <3>2
  <2>5. /\ gwTX'.for = GW_tmp.req /\ gwTX'.data = Parts(Id)
        /\ gwTX'.cut <=> Segments[Id] > 1
    BY <2>4 DEF Reply
  <2>6. AnswerReady'
    BY <2>5, ScenarioKeeps, Zenon DEF AnswerReady, Id
  <2>7. Empty'
    BY <2>2, <2>4 DEF Empty
  <2> QED BY <2>2, <2>6, <2>7 DEF DataInv
<1> QED BY <1>6, <1>7

LEMMA GatewayData ==
    ASSUME TypeOK, LinkInv, LineInv, PostInv, AddressChecked, OneFrameRelease, CalmInv, NumberInv,
           DataInv, GatewayStep
    PROVE  DataInv'
<1>1. UNCHANGED <<toMeter, toGateway, lineSnd, scenario, meter>> /\ AnswerReady
  BY Zenon DEF GatewayStep, linkVars, DataInv
<1> DEFINE kept == UNCHANGED <<Segment_bit, segBuf, gwTX, GW_tmp, RLRQ_flag>>
<1>2. ASSUME UNCHANGED gwTX PROVE AnswerReady'
  BY <1>1, <1>2, AnswerKept
<1>12. ~ResponseFaults
  BY Zenon DEF ResponseFaults, LineInv, WireInv
<1>3. CASE TakeOctets \/ TakeCount \/ WaitForGetFrame
  <2>1. /\ GW_State' \in {"WAIT_FOR_GET_FRAME", "SNRM_REQUEST", "INFORMATION_FRAME"}
        /\ UNCHANGED <<Segment_bit, segBuf, gwTX>> /\ GW_State = "WAIT_FOR_GET_FRAME"
    BY <1>3, Taking, Taken1
  <2>2. Empty'
    BY <2>1 DEF DataInv, Empty
  <2> QED BY <1>2, <2>1, <2>2 DEF DataInv
<1>4. CASE SnrmRequest \/ SnrmResponse
  <2>1. /\ GW_State' \in {"SNRM_RESPONSE", "WAIT_FOR_GET_FRAME", "INFORMATION_FRAME"}
        /\ UNCHANGED <<Segment_bit, segBuf, gwTX>>
        /\ GW_State \in {"SNRM_REQUEST", "SNRM_RESPONSE"}
    BY <1>4 DEF SnrmRequest, SnrmResponse
  <2>2. Empty'
    BY <2>1 DEF DataInv, Empty
  <2> QED BY <1>2, <2>1, <2>2 DEF DataInv
<1>5. CASE InformationFrame
  <2>1. /\ ~Awaited /\ hdlcRX_Count' = 0 /\ UNCHANGED lineRcv /\ kept
        /\ GW_State = "INFORMATION_FRAME"
    BY <1>5 DEF InformationFrame, Awaited, Flush
  <2>2. Empty'
    BY <2>1 DEF DataInv, Empty
  <2>3. CASE AddressOK(GW_tmp.req)
    <3>1. GW_State' = "RESPONSE" /\ hdlcTX' = GW2HDLC_Frame_Convertor
      BY <1>5, <2>3, Zenon DEF InformationFrame
    <3>2. ~Replied' /\ Command' = GW2HDLC_Frame_Convertor
      BY <2>1, <3>1, Sent1, Zenon
    <3>3. Command'.type # "RR"
      BY <3>2 DEF GW2HDLC_Frame_Convertor, HdlcFrame
    <3> QED BY <1>2, <2>1, <2>2, <3>1, <3>2, <3>3 DEF DataInv
  <2>4. CASE ~AddressOK(GW_tmp.req)
    <3>1. GW_State' = "WAIT_FOR_GET_FRAME"
      BY <1>5, <2>4, Zenon DEF InformationFrame
    <3> QED BY <1>2, <2>1, <2>2, <3>1 DEF DataInv
  <2> QED BY <2>3, <2>4
<1>6. CASE Response
  <2>1. /\ GW_State = "RESPONSE" /\ hdlcRX_Count > 0 /\ HDLC_tmp' = hdlcRX
        /\ GW_State' = IF RLRQ_flag THEN "DISC_REQUEST" ELSE "RESPONSE_FOR_MDM"
        /\ kept
    BY <1>6, Zenon DEF Response
  <2>2. /\ Replied /\ Received = hdlcRX /\ Coming(Received)
        /\ meter.connected => meter.unacked = Rest(Taken)
    BY <2>1, Got, Zenon DEF DataInv
  <2>3. Coming(HDLC_tmp)'
    <3>1. /\ Taken' = Taken /\ Id' = Id /\ (Empty' <=> Empty) /\ (Begun' <=> Begun)
          /\ AnswerFrame(Id, Taken + 1)' = AnswerFrame(Id, Taken + 1)
      BY <1>1, <2>1, DataKeeps, ScenarioKeeps, Zenon
    <3> QED BY <2>1, <2>2, <3>1, Zenon DEF Coming
  <2>4. meter'.connected => meter'.unacked = Rest(Taken)'
    BY <1>1, <2>1, <2>2, DataKeeps, Zenon
  <2>5. GW_State' \in {"DISC_REQUEST", "RESPONSE_FOR_MDM"}
    BY <2>1
  <2> QED BY <1>2, <2>1, <2>3, <2>4, <2>5 DEF DataInv
<1>7. CASE Segment
  <2>1. /\ GW_State = "SEGMENT" /\ ~Awaited /\ hdlcRX_Count' = 0 /\ UNCHANGED lineRcv
        /\ GW_State' = "RESPONSE" /\ kept
    BY <1>7 DEF Segment, Awaited, Flush
  <2>2. hdlcTX' = GW2HDLC_Poll_For_Remained_Data
    <3>1. AddressLengthOK(GW_tmp.req)
      BY <2>1 DEF AddressChecked, AddressLengthOK
    <3> QED BY <1>7, <3>1, Zenon DEF Segment
  <2>3. ~Replied' /\ Command' = GW2HDLC_Poll_For_Remained_Data
    BY <2>1, <2>2, Sent1, Zenon
  <2>4. Command'.type # "I"
    BY <2>3 DEF GW2HDLC_Poll_For_Remained_Data, HdlcFrame
  <2>5. More'
    <3>1. More
      BY <2>1 DEF DataInv
    <3>2. Taken' = Taken /\ (Begun' <=> Begun) /\ Rest(Taken - 1)' = Rest(Taken - 1)
      <4>1. Taken' = Taken /\ (Begun' <=> Begun) /\ Id' = Id
        BY <1>1, <2>1, DataKeeps, Zenon
      <4>2. \A id, k : AnswerFrame(id, k)' = AnswerFrame(id, k)
        BY <1>1, ScenarioKeeps
      <4>3. Segments' = Segments
        BY <1>1, Zenon DEF Segments
      <4> QED BY <4>1, <4>2, <4>3, Zenon DEF Rest
    <3> QED BY <1>1, <2>1, <3>1, <3>2, Zenon DEF More
  <2> QED BY <1>2, <2>1, <2>3, <2>4, <2>5 DEF DataInv
<1>8. CASE DiscRequest \/ DiscResponse
  <2>1. /\ GW_State \in {"DISC_REQUEST", "DISC_RESPONSE"} /\ RLRQ_flag
        /\ GW_State' \in {"DISC_RESPONSE", "RESPONSE_FOR_MDM"} /\ kept /\ HDLC_tmp' = HDLC_tmp
    BY <1>8 DEF DiscRequest, DiscResponse, NumberInv
  <2>2. Coming(HDLC_tmp)'
    BY <1>1, <2>1, DataKeeps DEF DataInv
  <2> QED BY <1>2, <2>1, <2>2 DEF DataInv
<1>9. CASE RejectFrame
  <2>1. GW_State = "RESPONSE_FOR_MDM"
    BY <1>9, Zenon DEF RejectFrame, Converting
  <2>2. Coming(HDLC_tmp)
    BY <2>1 DEF DataInv
  <2> QED BY <1>1, <1>9, <2>1, <2>2, RejectData
<1>10. CASE AcceptFrame
  BY <1>1, <1>10, AcceptData
<1>11. ASSUME NEW state \in {"SNRM_RESPONSE", "RESPONSE", "DISC_RESPONSE"}, TimedOut(state)
       PROVE  DataInv'
  BY <1>11, NoTimeout, Zenon
<1> QED
  BY <1>3, <1>4, <1>5, <1>6, <1>7, <1>8, <1>9, <1>10, <1>11, <1>12, Zenon DEF GatewayStep, GW_Run

(* The meter's part: the first segment in answer to the I-frame, the next  *)
(* in answer to an RR, bare only when it is not connected *)
LEMMA MeterData ==
    ASSUME TypeOK, LinkInv, LineInv, PostInv, AddressChecked, Orderly, NumberInv, DataInv, MeterStep
    PROVE  DataInv'
<1>1. /\ Sending /\ Command = Head(toMeter) /\ Command \in MeterFrames
      /\ hdlcTX' = None /\ toMeter' = <<>> /\ UNCHANGED <<vars, scenario>>
  BY MeterEffect, Zenon DEF vars
<1>2. /\ UNCHANGED <<GW_State, RLRQ_flag, GW_tmp, HDLC_tmp, Segment_bit, segBuf, gwTX, RRR, SSS>>
      /\ ~Sending' /\ Awaited
  BY <1>1, Zenon DEF vars, gwVars, Sending, LineInv
<1>3. /\ AnswerReady' /\ (Empty' <=> Empty) /\ (Coming(HDLC_tmp)' <=> Coming(HDLC_tmp))
      /\ (Begun' <=> Begun) /\ Taken' = Taken /\ Id' = Id /\ \A k : Rest(k)' = Rest(k)
      /\ AnswerFrame(Id, Taken + 1)' = AnswerFrame(Id, Taken + 1)
  BY <1>1, <1>2, AnswerKept, DataKeeps, ScenarioKeeps, Zenon DEF DataInv
<1>4. /\ GW_State # "SEGMENT" /\ GW_State # "RESPONSE_FOR_MDM"
  BY <1>2 DEF Awaited
<1>5. ASSUME GW_State = "RESPONSE", Replied'
      PROVE  Coming(Received)' /\ (meter'.connected => meter'.unacked = Rest(Taken)')
  <2>1. Asks /\ Graded(meter.unacked) /\ Bare \in Frames
    BY <1>1, <1>5, MeterAssumption, Zenon DEF NumberInv
  <2>2. MeterAnswer(Command) \/ MeterNextSegment(Command) \/ MeterRefuse(Command)
    <3>1. ~MeterConnect(Command) /\ ~MeterDisconnect(Command)
      BY <2>1 DEF Asks, MeterConnect, MeterDisconnect
    <3> QED BY <1>1, <3>1, Zenon DEF MeterStep
  <2>3. Segments[Id] \in Nat \ {0} /\ Taken \in Nat
    <3>1. GW_tmp.req.addr = "good"
      BY <1>5 DEF AddressChecked
    <3>2. Taken \in Nat
      BY DEF TypeOK, Taken
    <3> QED BY <3>1, <3>2, Asked1 DEF Id
  <2>4. CASE MeterAnswer(Command)
    <3>1. Command.type = "I" /\ Command.type # "RR" /\ meter \in Meters
      BY <2>4 DEF MeterAnswer, LinkInv
    <3>2. Command.req = GW_tmp.req /\ Empty
      BY <1>1, <1>5, <2>1, <3>1, Zenon DEF Asks, DataInv
    <3>3. Reply1(AnswerFrame(Id, 1)) /\ AnswerFrame(Id, 1) \in Frames
      BY <1>1, <2>4, <3>1, <3>2, AnswerType, Zenon DEF MeterAnswer, Id
    <3>4. Received' = AnswerFrame(Id, 1)
      BY <1>5, <3>3, Answered1, Zenon
    <3>5. Begun /\ Taken = 0 /\ AnswerFrames(Id) = Rest(0) /\ 0 + 1 = 1
      BY <2>3, <3>2, EmptyBegins, RestStarts
    <3>6. Coming(Received)'
      BY <1>3, <3>4, <3>5, Zenon DEF Coming
    <3>7. meter'.unacked = AnswerFrames(Id)
      BY <2>4, <3>1, <3>2 DEF MeterAnswer, Meters, Id
    <3> QED BY <1>3, <3>5, <3>6, <3>7, Zenon
  <2>5. CASE MeterNextSegment(Command)
    <3>1. Command.type = "RR"
      BY <2>5, Zenon DEF MeterNextSegment
    <3>2. More
      BY <1>1, <1>5, <3>1, Zenon DEF DataInv
    <3>3. /\ Reply1(meter.unacked[2]) /\ meter.unacked[2] \in Frames
          /\ meter'.unacked = Tail(meter.unacked)
      BY <1>1, <1>2, <2>1, <2>5, <3>1, SegmentNumbers, Zenon
    <3>4. Received' = meter.unacked[2]
      BY <1>5, <3>3, Answered1, Zenon
    <3>5. /\ Begun /\ Taken > 0 /\ ~RLRQ_flag /\ meter.unacked = Rest(Taken - 1)
          /\ Taken < Segments[Id]
      BY <3>2 DEF More, Begun
    <3>6. meter.unacked[2] = AnswerFrame(Id, Taken + 1) /\ Tail(meter.unacked) = Rest(Taken)
      BY <2>3, <3>5, RestTail
    <3> QED BY <1>2, <1>3, <3>3, <3>4, <3>5, <3>6, Zenon DEF Coming
  <2>6. CASE MeterRefuse(Command)
    <3>1. ~meter.connected /\ meter' = meter /\ Reply1(Bare)
      BY <2>1, <2>6, RefusedNumbers
    <3>2. Received' = Bare
      BY <1>5, <2>1, <3>1, Answered1
    <3>3. Command.type # "RR"
      BY <1>1, <1>5, <3>1, Zenon DEF DataInv, More
    <3>4. Empty
      BY <1>1, <1>5, <2>1, <3>3, Zenon DEF DataInv, Asks
    <3> QED BY <1>3, <3>1, <3>2, <3>4, Zenon DEF Coming
  <2> QED BY <2>2, <2>4, <2>5, <2>6
<1> QED BY <1>2, <1>3, <1>4, <1>5, Zenon DEF DataInv

LEMMA DataStep ==
    TypeOK /\ LinkInv /\ LineInv /\ PostInv /\ AddressChecked /\ OneFrameRelease /\ CalmInv
        /\ NumberInv /\ DataInv /\ Orderly /\ [LinkNext]_allVars => DataInv'
<1> SUFFICES ASSUME TypeOK, LinkInv, LineInv, PostInv, AddressChecked, OneFrameRelease, CalmInv,
                    NumberInv, DataInv, Orderly, [LinkNext]_allVars
             PROVE  DataInv'
  OBVIOUS
<1>1. CASE GatewayStep
  BY <1>1, GatewayData
<1>2. CASE MeterStep
  BY <1>2, MeterData
<1>3. CASE ~GatewayStep /\ ~MeterStep
  <2>1. /\ UNCHANGED Talk /\ (gwTX' = gwTX \/ gwTX' = None)
        /\ Sending' => Sending /\ Command' = Command
        /\ Replied' => Replied /\ Received' = Received
    BY <1>3, Carried
  <2>2. UNCHANGED <<GW_State, RLRQ_flag, GW_tmp, HDLC_tmp, Segment_bit, segBuf, meter, scenario>>
    BY <2>1, ScenarioFixed, Zenon DEF Talk
  <2>3. /\ AnswerReady' /\ (Empty' <=> Empty) /\ (Coming(HDLC_tmp)' <=> Coming(HDLC_tmp))
        /\ (Begun' <=> Begun) /\ Taken' = Taken /\ \A k : Rest(k)' = Rest(k)
        /\ Replied' => (Coming(Received)' <=> Coming(Received))
    BY <2>1, <2>2, AnswerKept, DataKeeps, Zenon DEF DataInv
  <2>4. More' <=> More
    <3>1. Rest(Taken - 1)' = Rest(Taken - 1)
      <4>1. \A id, k : AnswerFrame(id, k)' = AnswerFrame(id, k)
        BY <2>2, ScenarioKeeps
      <4>2. Segments' = Segments /\ Id' = Id
        BY <2>2, Zenon DEF Segments, Id
      <4> QED BY <2>3, <4>1, <4>2, Zenon DEF Rest
    <3> QED BY <2>2, <2>3, <3>1, Zenon DEF More
  <2>5. Rest(Taken)' = Rest(Taken)
    <3>1. Segments' = Segments /\ Id' = Id /\ \A id, k : AnswerFrame(id, k)' = AnswerFrame(id, k)
      BY <2>2, ScenarioKeeps, Zenon DEF Segments, Id
    <3> QED BY <2>3, <3>1, Zenon DEF Rest
  <2> QED BY <2>1, <2>2, <2>3, <2>4, <2>5, Zenon DEF DataInv
<1> QED BY <1>1, <1>2, <1>3

DataLink == Calm /\ OneFrameRelease => DataInv

(* On a line without faults each segment of the meter's answer goes into   *)
(* what the MDM is given, once and in order, however many there are and    *)
(* whatever the script: each RR acknowledges one segment and fetches the   *)
(* next, and Segment_bit tells the first and the last from the others.     *)
(* Of an answer of one frame all the octets are there; one of several is   *)
(* short of three octets of each later segment and of three at the end. *)
THEOREM AnswersInOrder == LinkSpec => []AnswerInOrder
<1>1. LinkInit => DataLink
  <2> SUFFICES ASSUME LinkInit PROVE DataInv
    BY DEF DataLink
  <2>1. /\ GW_State = "WAIT_FOR_GET_FRAME" /\ Segment_bit = "SINGLE" /\ segBuf = <<>>
        /\ gwTX = None
    BY Zenon DEF LinkInit, Init
  <2> QED BY <2>1, NothingSent DEF Empty, AnswerReady
<1>2. TypeOK /\ LinkInv /\ CalmLink /\ PostInv /\ AddressChecked /\ DataLink
         /\ [LinkNext]_allVars => DataLink'
  <2> SUFFICES ASSUME TypeOK, LinkInv, CalmLink, PostInv, AddressChecked, DataLink,
                      [LinkNext]_allVars, Calm', OneFrameRelease'
               PROVE  DataInv'
    BY DEF DataLink
  <2>1. Calm /\ OneFrameRelease
    BY ScenarioFixed, ScenarioKeeps, Zenon DEF Calm, Faults
  <2> QED BY <2>1, CalmIsOrderly, DataStep DEF CalmLink, DataLink
<1>3. DataLink => AnswerInOrder
  BY PartsPassed, Zenon DEF DataLink, Calm, DataInv, AnswerInOrder
<1> QED BY <1>1, <1>2, <1>3, LinkInvariance, CalmInvariance, PostInvariance, PTL DEF LinkSpec
=============================================================================
