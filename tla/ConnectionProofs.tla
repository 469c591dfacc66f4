-------------------------- MODULE ConnectionProofs -------------------------
(***************************************************************************)
(* Proofs about two of the connections of connection.c, which share no     *)
(* state: the optical port, for every size of receivedData and any number  *)
(* of repetitions and sessions; and the TCP client, with                   *)
(* and without an inactivity time-out and for any bound on the upsets.     *)
(*                                                                         *)
(* The argument about the port has two halves.  The port alone: in mode E, *)
(* as long as no session timed out, it is at the fast rate exactly when it is *)
(* connected, but for the moment between a reply and the change of the     *)
(* rate (PortInv).  The two ends: the message or the answer under way      *)
(* belongs to what the client waits for, so that a client that hears an    *)
(* answer knows the state the port was in when it wrote it, and is in      *)
(* still (ClientInv, SignedOnInv).                                         *)
(***************************************************************************)
EXTENDS OpticalPort, TcpClient, TLAPS

-----------------------------------------------------------------------------
(* The optical port *)

PortInv ==
    /\ mode = "HDLC" => port = "fast" /\ thread # "update"
    /\ mode = "E" /\ ~cutOff =>
        /\ connected # "none" => newBaudRate
        /\ thread = "update" => connected \in {"iec", "none"}
        /\ thread # "update" => port = IF connected = "none" THEN "sign" ELSE "fast"

ClientInv ==
    /\ wire = Nothing \/ answer = Nothing
    /\ client.step \in {"away", "open"} => wire = Nothing /\ answer = Nothing
    /\ wire # Nothing => wire.kind = "junk" \/ wire.kind = KindOf[client.step]
    /\ client.step \in {"open", "snrm", "request", "disc"} => client.rate = "fast"

SignedOnInv ==
    ~left /\ ~cutOff =>
        /\ client.step = "snrm" /\ answer.kind = "UA" => connected = "hdlc"
        /\ client.step = "request" /\ answer.kind = "data" => connected = "hdlc"
        /\ client.step = "disc" /\ answer.kind \in {"UA", "DM"} => connected = "none"
        /\ client.step = "open" => connected = "hdlc"
        /\ client.step \in {"request", "disc"} => connected # "iec"
        /\ client.step = "away" /\ mode = "E" => connected = "none"

RateInv == PortTypeOK /\ PortInv /\ ClientInv /\ SignedOnInv

(* The invariant gives both properties of the port's rate.                 *)
LEMMA RateInvGives == RateInv => HomeBetweenSessions /\ SameRateInSession
  <1>1. ASSUME RateInv PROVE HomeBetweenSessions
    BY <1>1 DEF RateInv, PortInv, SignedOnInv, HomeBetweenSessions
  <1>2. ASSUME RateInv PROVE SameRateInSession
    BY <1>2 DEF RateInv, PortTypeOK, PortInv, ClientInv, SignedOnInv, SameRateInSession
  <1> QED BY <1>1, <1>2

-----------------------------------------------------------------------------
(* What may be under way, and what a client may be *)

LEMMA MessageTyped ==
    ASSUME NEW k \in Asked, NEW r \in Rates
    PROVE  [kind |-> k, rate |-> r] \in Message
  BY DEF Message

LEMMA AnswerTyped ==
    ASSUME NEW k \in {"ident", "ackReply", "UA", "DM", "data", "FRMR"}, NEW r \in Rates
    PROVE  [kind |-> k, rate |-> r] \in Answers
  BY DEF Answers

Client0 == [step : {"away", "open"} \cup DOMAIN KindOf, rate : Rates, tries : 0..MaxTries]

LEMMA KindsOfSteps == DOMAIN KindOf = {"sign", "ack", "snrm", "request", "disc"}
  BY DEF KindOf

LEMMA AskTyped ==
    ASSUME NEW k \in Asked, NEW s \in DOMAIN KindOf, NEW r \in Rates, Ask(k, s, r)
    PROVE  wire' \in Message /\ client' \in Client0
  <1>1. wire' \in Message
    BY MessageTyped DEF Ask
  <1>2. 0 \in 0..MaxTries
    BY BoundAssumption
  <1> QED BY <1>1, <1>2 DEF Ask, Client0

(* The variables of the port and of the bounds, and those of the messages  *)
PortTyped ==
    /\ mode \in {"E", "HDLC"} /\ timeout \in {"short", "long"}
    /\ initialized \in BOOLEAN
    /\ thread \in {"read", "update", "ended"} /\ port \in Rates
    /\ connected \in {"none", "iec", "hdlc"} /\ newBaudRate \in BOOLEAN
    /\ left \in BOOLEAN /\ cutOff \in BOOLEAN

LEMMA ReplyTyped ==
    ASSUME PortTyped, NEW k \in {"ident", "ackReply", "UA", "DM", "data", "FRMR"},
           NEW s \in {"none", "iec", "hdlc"}, NEW c \in BOOLEAN, Reply(k, s, c)
    PROVE  /\ answer' \in Answers /\ connected' \in {"none", "iec", "hdlc"}
           /\ newBaudRate' \in BOOLEAN /\ thread' \in {"read", "update"}
  BY AnswerTyped DEF Reply, PortTyped

-----------------------------------------------------------------------------
(* The steps of the port *)

USE DEF server, history, Rates

LEMMA PortStep ==
    ASSUME RateInv, NEW stale \in BOOLEAN, NEW timedOut \in BOOLEAN, Port(stale, timedOut)
    PROVE  RateInv'
  <1> USE DEF Arrives, NoReply, Reply, Port, TakesFrame
  <1>1. junk' \in 0..Capacity
    <2>1. junk \in 0..Capacity /\ 0 \in 0..Capacity /\ Capacity \in Nat
      BY BoundAssumption DEF RateInv, PortTypeOK
    <2>2. CASE junk' = 0
      BY <2>1, <2>2
    <2>3. CASE Junk(stale)
      BY <2>1, <2>3 DEF Junk, Held
    <2> QED BY <2>2, <2>3 DEF Full, Spoilt, SignOn, Snrm, Disc, Request, WrongNumber
  <1>2. wire' = Nothing /\ (answer' = answer \/ answer' \in Answers)
    <2> USE DEF RateInv, PortTypeOK
    <2>1. CASE Full(stale) \/ Spoilt(stale) \/ SignOn(stale)
      BY <2>1, AnswerTyped DEF Full, Spoilt, SignOn
    <2>2. CASE Junk(stale) \/ WrongNumber(stale)
      BY <2>2 DEF Junk, WrongNumber
    <2>3. CASE Snrm(stale) \/ Disc(stale, timedOut) \/ Request(stale, timedOut)
      BY <2>3, AnswerTyped DEF Snrm, Disc, Request
    <2> QED BY <2>1, <2>2, <2>3
  <1>3. PortTypeOK'
    <2> USE <1>1, <1>2 DEF RateInv, PortTypeOK, Message
    <2>0. CASE Full(stale)
      BY <2>0 DEF Full
    <2>1. CASE Spoilt(stale)
      BY <2>1 DEF Spoilt
    <2>4. CASE SignOn(stale)
      BY <2>4 DEF SignOn
    <2>2. CASE Junk(stale) \/ WrongNumber(stale)
      BY <2>2 DEF Junk, WrongNumber
    <2>3. CASE Snrm(stale) \/ Disc(stale, timedOut) \/ Request(stale, timedOut)
      BY <2>3 DEF Snrm, Disc, Request
    <2> QED BY <2>0, <2>1, <2>2, <2>3, <2>4
  <1>4. PortInv'
    <2> USE DEF RateInv, PortTypeOK, PortInv, UpdateNeeded, Speaks
    <2>1. CASE Full(stale)  BY <2>1 DEF Full
    <2>2. CASE Junk(stale)  BY <2>2 DEF Junk
    <2>3. CASE Spoilt(stale)  BY <2>3 DEF Spoilt
    <2>4. CASE SignOn(stale)  BY <2>4 DEF SignOn
    <2>5. CASE Snrm(stale)  BY <2>5 DEF Snrm
    <2>6. CASE Disc(stale, timedOut)  BY <2>6 DEF Disc
    <2>7. CASE Request(stale, timedOut)  BY <2>7 DEF Request
    <2>8. CASE WrongNumber(stale)  BY <2>8 DEF WrongNumber
    <2> QED BY <2>1, <2>2, <2>3, <2>4, <2>5, <2>6, <2>7, <2>8
  <1>5. ClientInv'
    BY <1>2 DEF RateInv, PortTypeOK, ClientInv, KindOf, Message, Nothing, Full, Junk, Spoilt,
                SignOn, Snrm, Disc, Request, WrongNumber
  <1>6. SignedOnInv'
    <2> USE DEF RateInv, PortTypeOK, ClientInv, SignedOnInv, PortInv, KindOf, Message,
                     Nothing, Speaks
    <2>1. CASE Full(stale)  BY <2>1 DEF Full
    <2>2. CASE Junk(stale)  BY <2>2 DEF Junk
    <2>3. CASE Spoilt(stale)  BY <2>3 DEF Spoilt
    <2>4. CASE SignOn(stale)  BY <2>4 DEF SignOn
    <2>5. CASE Snrm(stale)  BY <2>5 DEF Snrm
    <2>6. CASE Disc(stale, timedOut)  BY <2>6 DEF Disc
    <2>7. CASE Request(stale, timedOut)  BY <2>7 DEF Request
    <2>8. CASE WrongNumber(stale)  BY <2>8 DEF WrongNumber
    <2> QED BY <2>1, <2>2, <2>3, <2>4, <2>5, <2>6, <2>7, <2>8
  <1> QED BY <1>3, <1>4, <1>5, <1>6 DEF RateInv

-----------------------------------------------------------------------------
(* The other steps of the port *)

LEMMA OtherStep ==
    ASSUME RateInv, Initialize \/ TooEarly \/ Garbled \/ Update
    PROVE  RateInv'
  <1> USE DEF RateInv, PortTypeOK, PortInv, ClientInv, SignedOnInv, Nothing, Message, KindOf
  <1>1. CASE Initialize
    BY <1>1 DEF Initialize
  <1>2. CASE TooEarly
    BY <1>2 DEF TooEarly
  <1>3. CASE Garbled
    <2>1. wire \in [kind : Asked \cup {"junk"}, rate : Rates]
      BY <1>3 DEF Garbled
    <2>2. wire' \in [kind : Asked \cup {"junk"}, rate : Rates] /\ wire'.kind = "junk"
      BY <1>3, <2>1 DEF Garbled
    <2>3. wire' \in Message /\ wire # Nothing
      BY <1>3, <2>2 DEF Garbled
    <2>4. PortTypeOK'
      BY <1>3, <2>3 DEF Garbled
    <2>5. PortInv' /\ SignedOnInv'
      BY <1>3 DEF Garbled
    <2>6. ClientInv'
      BY <1>3, <2>2, <2>3 DEF Garbled
    <2> QED BY <2>4, <2>5, <2>6
  <1>4. CASE Update
    BY <1>4 DEF Update
  <1> QED BY <1>1, <1>2, <1>3, <1>4

-----------------------------------------------------------------------------
(* The steps of the client *)

LEMMA ClientStep ==
    ASSUME RateInv, Client \/ Unplug
    PROVE  RateInv'
  <1> USE DEF RateInv
  <1>1. CASE Begin
    <2> USE <1>1 DEF Begin
    <2>1. wire' \in Message /\ client' \in Client0
      BY AskTyped, KindsOfSteps DEF Asked
    <2>2. PortTypeOK'
      BY <2>1 DEF PortTypeOK, Client0
    <2>3. PortInv' /\ ClientInv' /\ SignedOnInv'
      BY DEF PortTypeOK, PortInv, ClientInv, SignedOnInv, Ask, KindOf, Nothing
    <2> QED BY <2>2, <2>3
  <1>2. CASE GoOn
    <2>0. 0 \in 0..MaxTries
      BY BoundAssumption
    <2> USE DEF Heard, Away, KindOf
    <2>1. /\ UNCHANGED <<server, left, cutOff>> /\ answer' = Nothing
          /\ answer # Nothing /\ wire = Nothing
      BY <1>2 DEF GoOn, ClientInv, Nothing
    <2>2. ASSUME NEW k \in Asked, NEW s \in DOMAIN KindOf, NEW r \in Rates,
                 Ask(k, s, r), k = KindOf[s], s \in {"sign", "ack", "snrm"},
                 s = "snrm" => r = "fast", sessions' = sessions
          PROVE  RateInv'
      <3>1. PortTypeOK'
        BY <2>1, <2>2, AskTyped DEF PortTypeOK, Client0, Answers
      <3>2. PortInv' /\ ClientInv' /\ SignedOnInv'
        BY <2>1, <2>2 DEF PortInv, ClientInv, SignedOnInv, Ask, Nothing
      <3> QED BY <3>1, <3>2
    <2>3. CASE Heard("ident", "sign") /\ Ask("ack", "ack", "sign") /\ UNCHANGED sessions
      BY <2>2, <2>3 DEF Asked
    <2>4. CASE Heard("ackReply", "ack") /\ Ask("snrm", "snrm", "fast") /\ UNCHANGED sessions
      BY <2>2, <2>4 DEF Asked
    <2>5. CASE /\ Heard("UA", "snrm") \/ Heard("data", "request")
               /\ client' = [client EXCEPT !.step = "open", !.tries = 0]
               /\ UNCHANGED <<wire, sessions>>
      <3>1. client' \in Client0 /\ client'.step = "open" /\ client'.rate = client.rate
        BY <2>0, <2>5 DEF PortTypeOK, Client0
      <3>2. PortTypeOK'
        BY <2>1, <2>5, <3>1 DEF PortTypeOK, Client0, Answers
      <3>3. PortInv' /\ ClientInv' /\ SignedOnInv'
        BY <2>1, <2>5, <3>1 DEF PortTypeOK, PortInv, ClientInv, SignedOnInv, Nothing
      <3> QED BY <3>2, <3>3
    <2>6. CASE /\ Heard("UA", "disc") \/ Heard("DM", "disc")
               /\ client' = Away /\ sessions' = sessions + 1
               /\ UNCHANGED wire
      <3>1. PortTypeOK'
        BY <2>0, <2>1, <2>6 DEF PortTypeOK, Answers
      <3>2. PortInv' /\ ClientInv' /\ SignedOnInv'
        BY <2>1, <2>6 DEF PortTypeOK, PortInv, ClientInv, SignedOnInv, Nothing
      <3> QED BY <3>1, <3>2
    <2> QED BY <1>2, <2>3, <2>4, <2>5, <2>6 DEF GoOn
  <1>3. CASE Ignore
    BY <1>3 DEF Ignore, PortTypeOK, PortInv, ClientInv, SignedOnInv, Answers, Nothing
  <1>4. CASE Use
    <2>1. wire' \in Message /\ client' \in Client0
      BY <1>4, AskTyped, KindsOfSteps DEF Asked, Use, PortTypeOK, Ask
    <2>2. PortTypeOK'
      BY <1>4, <2>1 DEF PortTypeOK, Client0, Use
    <2>3. PortInv' /\ ClientInv' /\ SignedOnInv'
      BY <1>4 DEF Use, PortTypeOK, PortInv, ClientInv, SignedOnInv, Ask, KindOf, Nothing
    <2> QED BY <2>2, <2>3
  <1>5. CASE Repeat
    <2> USE <1>5 DEF Repeat, TimedOut, Waiting
    <2>1. client.step \in DOMAIN KindOf /\ KindOf[client.step] \in Asked
      BY DEF PortTypeOK, KindOf, Asked
    <2>2. wire' \in Message
      BY <2>1, MessageTyped DEF PortTypeOK
    <2>3. client' \in Client0
      BY BoundAssumption DEF PortTypeOK, Client0
    <2>4. PortTypeOK'
      BY <2>2, <2>3 DEF PortTypeOK, Client0
    <2>5. PortInv' /\ ClientInv' /\ SignedOnInv'
      BY <2>1 DEF PortTypeOK, PortInv, ClientInv, SignedOnInv, KindOf, Nothing, Asked
    <2> QED BY <2>4, <2>5
  <1>6. CASE GiveUp \/ Unplug
    <2>1. /\ Leaves /\ wire = Nothing /\ answer = Nothing /\ client' = Away
          /\ UNCHANGED <<server, wire, answer, cutOff, sessions>>
      BY <1>6 DEF GiveUp, Unplug, TimedOut, Leaves
    <2>2. 0 \in 0..MaxTries
      BY BoundAssumption
    <2>3. PortTypeOK'
      BY <2>1, <2>2 DEF PortTypeOK, Leaves, Away
    <2>4. PortInv' /\ ClientInv' /\ SignedOnInv'
      BY <2>1 DEF Leaves, PortTypeOK, PortInv, ClientInv, SignedOnInv, Away, Nothing
    <2> QED BY <2>3, <2>4
  <1> QED BY <1>1, <1>2, <1>3, <1>4, <1>5, <1>6 DEF Client

-----------------------------------------------------------------------------

LEMMA RateInitially == PortInit => RateInv
  <1>1. 0 \in 0..Capacity /\ 0 \in 0..MaxTries
    BY BoundAssumption
  <1>2. PortInit => PortTypeOK
    <2>1. PortInit => client \in [step : {"away", "open"} \cup DOMAIN KindOf, rate : Rates,
                              tries : 0..MaxTries]
      BY <1>1 DEF PortInit, Away
    <2>2. PortInit => wire \in Message /\ answer \in Answers
      BY DEF PortInit, Message, Answers
    <2>3. PortInit => initialized \in BOOLEAN /\ newBaudRate \in BOOLEAN /\ left \in BOOLEAN
                         /\ cutOff = FALSE /\ cutOff \in BOOLEAN
      BY Zenon DEF PortInit
    <2>4. PortInit => mode \in {"E", "HDLC"} /\ port \in Rates /\ timeout \in {"short", "long"}
      BY DEF PortInit
    <2>5. PortInit => thread = "read" /\ connected = "none" /\ junk = 0 /\ sessions = 0
      BY Zenon DEF PortInit
    <2>6. PortInit => sessions \in Nat /\ junk \in 0..Capacity
      BY <1>1, <2>5
    <2> QED BY <2>1, <2>2, <2>3, <2>4, <2>5, <2>6, Zenon DEF PortTypeOK
  <1>3. PortInit => PortInv /\ ClientInv /\ SignedOnInv
    BY DEF PortInit, PortInv, ClientInv, SignedOnInv, Nothing, Away
  <1> QED BY <1>2, <1>3 DEF RateInv

LEMMA RateInductive == RateInv /\ [PortNext]_portVars => RateInv'
  <1>1. ASSUME RateInv, UNCHANGED portVars PROVE RateInv'
    BY <1>1 DEF portVars, RateInv, PortTypeOK, PortInv, ClientInv, SignedOnInv
  <1> QED BY <1>1, PortStep, OtherStep, ClientStep DEF PortNext

LEMMA RateInvariance == PortSpec => []RateInv
  <1> QED BY RateInitially, RateInductive, PTL DEF PortSpec

(* Every variable keeps its type: junk never outgrows receivedData         *)
(* (svr_handleRequest4), a client never repeats more often than it may.    *)
THEOREM PortTypeCorrect == PortSpec => []PortTypeOK
  <1>1. RateInv => PortTypeOK
    BY DEF RateInv
  <1> QED BY <1>1, RateInvariance, PTL

(* In mode E the port is back at 300 baud whenever no session is on and    *)
(* nobody left in the middle (IEC_Serial_Thread, updateSerialport).        *)
THEOREM HomeRate == PortSpec => []HomeBetweenSessions
  BY RateInvGives, RateInvariance, PTL

(* A client in session and a port ready to read have the same rate.        *)
THEOREM SessionRate == PortSpec => []SameRateInSession
  BY RateInvGives, RateInvariance, PTL

-----------------------------------------------------------------------------
(* The TCP client *)

USE DEF ResetIfNew, TimerRestart, Succeeded

(* Every variable keeps to the values TypeOK lists; the bound on upsets    *)
(* and the record req are treated apart from the flags and program         *)
(* counters.                                                               *)
THEOREM ClientTypeCorrect == Spec => []TypeOK
<1>1. Init => TypeOK
  <2> SUFFICES ASSUME Init PROVE TypeOK
    OBVIOUS
  <2>1. /\ Connected \in BOOLEAN /\ Opened \in BOOLEAN /\ idle \in BOOLEAN
        /\ reachable \in BOOLEAN /\ straddled \in BOOLEAN
        /\ SigpipeIgnored \in BOOLEAN
    BY Zenon DEF Init
  <2>2. req \in [kind : Kinds, here : BOOLEAN]
    BY DEF Init, NoReq, Kinds
  <2>3. upsets \in 0..MaxUpsets
    BY UpsetAssumption DEF Init
  <2> QED BY <2>1, <2>2, <2>3 DEF Init, TypeOK
<1>2. TypeOK /\ [Next]_vars => TypeOK'
  <2> SUFFICES ASSUME TypeOK, [Next]_vars
               PROVE  TypeOK'
    OBVIOUS
  <2> USE DEF Next, Manage, Reopen, Retry, Connect, PushDone, FindIdle, DropIdle,
             Receive, ReceiveCheck, ReceiveCall, ReceiveEnd, Handled,
             ReceiveReturns, ReceiveRequest, ReceiveGatewayFrame,
             Send, SendCheck, SendCall, SendCallFails, SendCallKills, SendFailed,
             Network, Break, NetworkDown, NetworkUp, IdleSpell, Silence, vars, flags
  <2>1. upsets' \in 0..MaxUpsets
    <3>1. Upset => upsets' \in 0..MaxUpsets
      BY UpsetAssumption DEF TypeOK, Upset
    <3>2. UNCHANGED upsets => upsets' \in 0..MaxUpsets
      BY DEF TypeOK
    <3>3. Upset \/ UNCHANGED upsets
      OBVIOUS
    <3> QED BY <3>1, <3>2, <3>3
  <2>2. req' \in [kind : Kinds, here : BOOLEAN]
    <3>1. NoReq \in [kind : Kinds, here : BOOLEAN]
      BY DEF NoReq, Kinds
    <3>2. [req EXCEPT !.here = FALSE] \in [kind : Kinds, here : BOOLEAN]
      BY DEF TypeOK
    <3>3. \A kind \in Kinds : [kind |-> kind, here |-> TRUE]
                               \in [kind : Kinds, here : BOOLEAN]
      OBVIOUS
    <3>4. req \in [kind : Kinds, here : BOOLEAN]
      BY DEF TypeOK
    <3>5. \/ UNCHANGED req \/ req' = NoReq \/ req' = [req EXCEPT !.here = FALSE]
          \/ \E kind \in Kinds : req' = [kind |-> kind, here |-> TRUE]
      OBVIOUS
    <3> HIDE DEF Next
    <3> QED BY <3>1, <3>2, <3>3, <3>4, <3>5, Zenon
  <2>3. /\ Connected' \in BOOLEAN /\ Opened' \in BOOLEAN /\ idle' \in BOOLEAN
        /\ reachable' \in BOOLEAN
    BY Zenon DEF TypeOK
  <2>4. /\ fd' \in {"none", "created", "connected", "lost", "broken"}
        /\ mgr' \in {"loop", "connect", "push", "drop", "killed"}
        /\ snd' \in {"loop", "checked", "failed", "killed"}
    BY SMTT(30) DEF TypeOK
  <2>5. /\ rcv' \in {"loop", "checked", "blocked", "ended", "handling", "killed"}
        /\ assoc' \in {"none", "here", "before"}
    BY SMTT(30) DEF TypeOK, Wake
  <2>6. straddled' \in BOOLEAN
    <3>1. UNCHANGED straddled \/ Straddles \/ straddled' = (straddled \/ rcv = "handling")
      OBVIOUS
    <3>2. straddled \in BOOLEAN
      BY DEF TypeOK
    <3> HIDE DEF Next
    <3> QED BY <3>1, <3>2, Zenon DEF Straddles
  <2>7. Version' \in {"OLD", "NEW"} /\ SigpipeIgnored' \in BOOLEAN
    <3>1. UNCHANGED fixed
      OBVIOUS
    <3> QED BY <3>1, Zenon DEF fixed, TypeOK
  <2> HIDE DEF Next, vars
  <2> QED BY <2>1, <2>2, <2>3, <2>4, <2>5, <2>6, <2>7 DEF TypeOK
<1> QED BY <1>1, <1>2, PTL DEF Spec

(* The flag three threads write never claims a connection that was not     *)
(* made.  The invariant is inductive: only Connect raises the flag, and    *)
(* only Reopen, which finds it lowered, replaces the descriptor.           *)
THEOREM FlagIsRight == Spec => []ConnectedIsConnected
<1>1. Init => ConnectedIsConnected
  BY DEF Init, ConnectedIsConnected
<1>2. ConnectedIsConnected /\ [Next]_vars => ConnectedIsConnected'
  <2> SUFFICES ASSUME ConnectedIsConnected, [Next]_vars
               PROVE  ConnectedIsConnected'
    OBVIOUS
  <2> USE DEF ConnectedIsConnected, flags
  <2>1. CASE Manage
    BY <2>1 DEF Manage, Reopen, Retry, Connect, Established, PushDone, FindIdle, DropIdle
  <2>2. CASE Receive
    BY <2>2 DEF Receive, ReceiveCheck, ReceiveCall, ReceiveEnd, Handled
  <2>3. CASE ReceiveReturns
    BY <2>3 DEF ReceiveReturns, ReceiveRequest, ReceiveGatewayFrame
  <2>4. CASE Send
    BY <2>4
       DEF Send, SendCheck, SendCall, SendCallFails, SendCallKills, SendFailed
  <2>5. CASE Network
    BY <2>5 DEF Network, Break, NetworkDown, NetworkUp, IdleSpell, Silence
  <2>6. CASE UNCHANGED vars
    BY <2>6 DEF vars
  <2> QED BY <2>1, <2>2, <2>3, <2>4, <2>5, <2>6 DEF Next
<1> QED BY <1>1, <1>2, PTL DEF Spec

(* Why no request meets an association of an earlier connection.  The      *)
(* manager connects only what it has opened anew, and a recv() on what was *)
(* open before has ended by then.  A request that is handled keeps the     *)
(* connection from being idle, so nobody drops it meanwhile; whoever drops *)
(* it later finds the receiver in recv(), or at its end, where it goes on  *)
(* to end the association.                                                 *)
SessionInv ==
    /\ mgr = "connect" => ~Connected /\ ~Opened
    /\ ~Opened => fd \in {"none", "created"}
    /\ rcv = "blocked" => fd \in {"connected", "lost"}
    /\ rcv = "handling" => ~idle
    /\ Version = "NEW" /\ ~straddled =>
          /\ rcv = "handling" => Connected /\ mgr # "drop" /\ snd = "loop" /\ req.here
          /\ assoc = "before" => rcv \in {"ended", "killed"}
          /\ assoc # "none" /\ (idle \/ mgr = "drop" \/ ~Connected) => rcv \in {"blocked", "ended", "killed"}

LEMMA SessionStep == TypeOK /\ SessionInv /\ [Next]_vars => SessionInv'
<1> SUFFICES ASSUME TypeOK, SessionInv, [Next]_vars
             PROVE  SessionInv'
  OBVIOUS
<1> USE DEF SessionInv, flags, fixed
<1>1. CASE Manage
  <2>1. CASE Reopen
    BY <2>1 DEF Reopen, Wake
  <2>2. CASE Retry
    BY <2>2 DEF Retry
  <2>3. CASE Connect
    BY <2>3, SMTT(30) DEF Connect, Established, TypeOK
  <2>4. CASE PushDone
    BY <2>4 DEF PushDone
  <2>5. CASE FindIdle \/ DropIdle
    BY <2>5 DEF FindIdle, DropIdle
  <2> QED BY <1>1, <2>1, <2>2, <2>3, <2>4, <2>5 DEF Manage
<1>2. CASE Receive
  <2>1. CASE ReceiveCheck
    BY <2>1 DEF ReceiveCheck
  <2>2. CASE ReceiveCall
    BY <2>2 DEF ReceiveCall
  <2>3. CASE ReceiveEnd
    BY <2>3 DEF ReceiveEnd
  <2>4. CASE Handled
    BY <2>4, SMTT(30) DEF Handled, TypeOK, Kinds
  <2> QED BY <1>2, <2>1, <2>2, <2>3, <2>4 DEF Receive
<1>3. CASE ReceiveReturns
  <2>1. ASSUME NEW kind \in Kinds, ReceiveRequest(kind) PROVE SessionInv'
    BY <2>1 DEF ReceiveRequest, Arriving, Straddles
  <2>2. CASE ReceiveGatewayFrame
    BY <2>2 DEF ReceiveGatewayFrame, Arriving, Straddles
  <2> QED BY <1>3, <2>1, <2>2 DEF ReceiveReturns
<1>4. CASE Send
  <2>1. CASE SendCheck
    BY <2>1 DEF SendCheck
  <2>2. CASE SendCall \/ SendCallFails
    BY <2>2 DEF SendCall, SendCallFails
  <2>3. CASE SendCallKills
    BY <2>3 DEF SendCallKills
  <2>4. CASE SendFailed
    BY <2>4 DEF SendFailed
  <2> QED BY <1>4, <2>1, <2>2, <2>3, <2>4 DEF Send
<1>5. CASE Network
  <2>1. CASE Break
    BY <2>1 DEF Break, Wake
  <2>2. CASE NetworkDown \/ NetworkUp
    BY <2>2 DEF NetworkDown, NetworkUp
  <2>3. CASE IdleSpell \/ Silence
    BY <2>3 DEF IdleSpell, Silence, AllWaiting
  <2> QED BY <1>5, <2>1, <2>2, <2>3 DEF Network
<1>6. CASE UNCHANGED vars
  BY <1>6 DEF vars
<1> QED BY <1>1, <1>2, <1>3, <1>4, <1>5, <1>6 DEF Next

(* With the new protocol no request is handled in an association of an     *)
(* earlier connection, unless something has come at the moment its         *)
(* connection was given up.                                                *)
THEOREM SessionIsFresh == Spec => []FreshSession
<1>1. Init => SessionInv
  BY DEF Init, SessionInv
<1>2. SessionInv => FreshSession
  BY DEF SessionInv, FreshSession
<1> QED BY <1>1, <1>2, ClientTypeCorrect, SessionStep, PTL DEF Spec
=============================================================================
