---------------------------- MODULE OpticalPort ----------------------------
(***************************************************************************)
(* The optical port: IEC_Serial_Thread of connection.c and what            *)
(* svr_handleRequest4 does with the interface of this port.  In mode E a   *)
(* client signs on at 300 baud, both change to the rate agreed, speak HDLC *)
(* and go back to 300 baud after DISC; when localPortSetup says so the     *)
(* port speaks HDLC from the start and never changes its rate.             *)
(*                                                                         *)
(* Octets that arrive at another rate than the port has are junk: they     *)
(* stay in receivedData, without an answer, until the buffer is full; once *)
(* HDLC is spoken they may also spoil the next frame.                      *)
(* Time is a choice: a message may come when inactivityTimeout has passed  *)
(* since the last message (frameReceived, kept to 16 bits) or since the    *)
(* last that was handled (dataReceived); time_elapsed counts the processor *)
(* time of the process.                                                    *)
(***************************************************************************)
EXTENDS Naturals

CONSTANTS
    Capacity,       \* junk messages receivedData has room for
    MaxTries,       \* bound: times a client repeats a message
    MaxSessions     \* bound: sessions that end with DISC

ASSUME BoundAssumption ==
    Capacity \in Nat \ {0} /\ MaxTries \in Nat /\ MaxSessions \in Nat

VARIABLES
    mode,           \* interfaceType: "E" or "HDLC"
    timeout,        \* inactivityTimeout: "short", up to 65 s, or "long" (180 s,
                    \* as addIecHdlcSetup has it)
    initialized,    \* svr_initialize has been called
    thread,         \* IEC_Serial_Thread: "read", "update" (the reply is
                    \* written) or "ended"
    port,           \* the rate of the UART: "sign" (300 7E1) or "fast"
    connected,      \* "none", "iec" or "hdlc"
    newBaudRate,    \* sr.newBaudRate is not 0
    junk,           \* in receivedData
    wire, answer,   \* the message under way to the port, and to the client
    client,         \* what the client waits for, its rate, its repetitions
    left,           \* history: a client went away in the middle
    cutOff,         \* history: a request came when the session had timed out
    sessions        \* history: the sessions that ended

server   == <<mode, timeout, initialized, thread, port, connected, newBaudRate, junk>>
history  == <<left, cutOff, sessions>>
portVars == <<server, wire, answer, client, history>>

Rates   == {"sign", "fast"}
Nothing == [kind |-> "none", rate |-> "sign"]
Asked   == {"signOn", "ack", "snrm", "request", "disc"}
Message == [kind : Asked \cup {"junk"}, rate : Rates] \cup {Nothing}
Answers == [kind : {"ident", "ackReply", "UA", "DM", "data", "FRMR"}, rate : Rates]
               \cup {Nothing}

Away == [step |-> "away", rate |-> "sign", tries |-> 0]

PortInit ==
    /\ mode \in {"E", "HDLC"} /\ timeout \in {"short", "long"}
    /\ initialized = FALSE /\ thread = "read"
    /\ port = IF mode = "E" THEN "sign" ELSE "fast"
    /\ connected = "none" /\ newBaudRate = FALSE
    /\ junk = 0
    /\ wire = Nothing /\ answer = Nothing
    /\ client = Away
    /\ left = FALSE /\ cutOff = FALSE /\ sessions = 0

-----------------------------------------------------------------------------
(* The port *)

(* IEC_start calls svr_initialize when the thread already runs *)
Initialize ==
    /\ ~initialized /\ initialized' = TRUE
    /\ UNCHANGED <<mode, timeout, thread, port, connected, newBaudRate, junk, wire, answer,
                   client, history>>

(* svr_handleRequest4 returns NOT_INITIALIZED: the thread ends for ever *)
TooEarly ==
    /\ thread = "read" /\ wire # Nothing /\ ~initialized
    /\ thread' = "ended"
    /\ wire' = Nothing
    /\ UNCHANGED <<mode, timeout, initialized, port, connected, newBaudRate, junk, answer,
                   client, history>>

Arrives == thread = "read" /\ wire # Nothing /\ initialized /\ wire' = Nothing

UpdateAlways(state, change) == change                   \* mutant
UpdateFaster(state, change) == change /\ state = "iec"  \* mutant: never back
UpdateNeeded(state, change) == change /\ state \in {"iec", "none"}

(* The reply is written; only then the rate may be changed, and only when  *)
(* there is a reply                                                        *)
Reply(kind, state, change) ==
    /\ answer' = [kind |-> kind, rate |-> port]
    /\ connected' = state /\ newBaudRate' = change
    /\ thread' = IF mode = "E" /\ UpdateNeeded(state, change) THEN "update" ELSE "read"

NoReply == UNCHANGED <<answer, newBaudRate, thread>>

(* (uint16_t)(now - frameReceived) / 1000 never gets over 65               *)
FullWidth(stale) == TRUE                                \* mutant: not cut to 16 bits
Reaches(stale)   == stale => timeout = "short"

(* After inactivityTimeout what is in receivedData is dropped *)
Held(stale) == IF stale THEN 0 ELSE junk

Speaks(kinds) ==
    /\ wire.rate = port /\ wire.kind \in kinds
    /\ (kinds = {"signOn", "ack"}) = (mode = "E" /\ connected = "none")

Full(stale) ==
    /\ Arrives /\ Reaches(stale)
    /\ Held(stale) = Capacity
    /\ junk' = 0
    /\ Reply("FRMR", connected, newBaudRate)
    /\ UNCHANGED <<mode, timeout, initialized, port, client, history>>

Junk(stale) ==
    /\ Arrives /\ Reaches(stale)
    /\ Held(stale) < Capacity
    /\ ~Speaks({"signOn", "ack"}) /\ ~Speaks({"snrm", "request", "disc"})
    /\ junk' = Held(stale) + 1
    /\ NoReply
    /\ UNCHANGED <<mode, timeout, initialized, port, connected, client, history>>

(* dlms_getData2 takes junk for a frame, alone or with what follows it: a  *)
(* CRC error, or a frame reject.  Not while a sign-on is looked for.       *)
Spoilt(stale) ==
    /\ Arrives /\ Reaches(stale)
    /\ Held(stale) < Capacity
    /\ mode = "HDLC" \/ connected # "none"
    /\ Held(stale) > 0 \/ ~Speaks({"snrm", "request", "disc"})
    /\ junk' = 0
    /\ \/ NoReply /\ UNCHANGED connected
       \/ connected = "hdlc" /\ Reply("FRMR", connected, newBaudRate)
    /\ UNCHANGED <<mode, timeout, initialized, port, client, history>>

(* "/?!" and the acknowledgement that chooses the rate *)
SignOn(stale) ==
    /\ Arrives /\ Reaches(stale)
    /\ Held(stale) < Capacity
    /\ Speaks({"signOn", "ack"})
    /\ junk' = 0
    /\ IF wire.kind = "signOn" THEN Reply("ident", "none", FALSE)
                               ELSE Reply("ackReply", "iec", TRUE)
    /\ UNCHANGED <<mode, timeout, initialized, port, client, history>>

TakesFrame(stale, kind) ==
    /\ Arrives /\ Reaches(stale)
    /\ Held(stale) < Capacity
    /\ Speaks({"snrm", "request", "disc"}) /\ wire.kind = kind
    /\ junk' = 0
    /\ UNCHANGED <<mode, timeout, initialized, port, client, left, sessions>>

Snrm(stale) ==
    TakesFrame(stale, "snrm") /\ Reply("UA", "hdlc", newBaudRate) /\ UNCHANGED cutOff

(* Without a session, and after inactivityTimeout, the answer is DM *)
Disc(stale, timedOut) ==
    /\ TakesFrame(stale, "disc")
    /\ Reply(IF connected = "hdlc" /\ ~timedOut THEN "UA" ELSE "DM",
             IF connected = "hdlc" THEN "none" ELSE connected, newBaudRate)
    /\ UNCHANGED cutOff

(* After inactivityTimeout the session is reset, without an answer         *)
Request(stale, timedOut) ==
    /\ TakesFrame(stale, "request")
    /\ cutOff' = (cutOff \/ timedOut)
    /\ \/ ~timedOut /\ Reply("data", "hdlc", newBaudRate)
       \/ timedOut /\ connected' = "none" /\ NoReply

(* ... and later requests have the wrong number (INVALID_FRAME_NUMBER),    *)
(* but for one that has the number of a first, which Request takes         *)
WrongNumber(stale) ==
    /\ TakesFrame(stale, "request") /\ connected # "hdlc"
    /\ NoReply /\ UNCHANGED <<connected, cutOff>>

(* Octets that come while the reply has gone out and the rate is still the *)
(* old one                                                                 *)
Garbled ==
    /\ thread = "update" /\ wire # Nothing /\ wire.rate # port
    /\ wire' = [wire EXCEPT !.kind = "junk"]
    /\ wire # wire'
    /\ UNCHANGED <<server, answer, client, history>>

Update ==
    /\ thread = "update"
    /\ port' = IF connected = "iec" THEN "fast" ELSE "sign"
    /\ thread' = "read"
    /\ UNCHANGED <<mode, timeout, initialized, connected, newBaudRate, junk, wire, answer,
                   client, history>>

Port(stale, timedOut) ==
    \/ Full(stale) \/ Junk(stale) \/ Spoilt(stale) \/ SignOn(stale) \/ Snrm(stale)
    \/ Disc(stale, timedOut) \/ Request(stale, timedOut) \/ WrongNumber(stale)

-----------------------------------------------------------------------------
(* The client *)

Ask(kind, step, rate) ==
    /\ wire' = [kind |-> kind, rate |-> rate]
    /\ client' = [step |-> step, rate |-> rate, tries |-> 0]

Waiting == client.step \notin {"away", "open"}

Begin ==
    /\ client.step = "away" /\ wire = Nothing /\ sessions < MaxSessions
    /\ IF mode = "E" THEN Ask("signOn", "sign", "sign") ELSE Ask("snrm", "snrm", "fast")
    /\ UNCHANGED <<server, answer, history>>

Heard(kind, step) ==
    /\ answer.kind = kind /\ client.step = step /\ answer.rate = client.rate
    /\ answer' = Nothing

(* ... the next question follows the answer *)
GoOn ==
    /\ \/ Heard("ident", "sign") /\ Ask("ack", "ack", "sign") /\ UNCHANGED sessions
       \/ Heard("ackReply", "ack") /\ Ask("snrm", "snrm", "fast") /\ UNCHANGED sessions
       \/ /\ Heard("UA", "snrm") \/ Heard("data", "request")
          /\ client' = [client EXCEPT !.step = "open", !.tries = 0]
          /\ UNCHANGED <<wire, sessions>>
       \/ /\ Heard("UA", "disc") \/ Heard("DM", "disc")
          /\ client' = Away /\ sessions' = sessions + 1
          /\ UNCHANGED wire
    /\ UNCHANGED <<server, left, cutOff>>

Ignore ==
    /\ answer # Nothing
    /\ \A k \in {<<"ident", "sign">>, <<"ackReply", "ack">>, <<"UA", "snrm">>,
                 <<"data", "request">>, <<"UA", "disc">>, <<"DM", "disc">>} :
           ~(answer.kind = k[1] /\ client.step = k[2] /\ answer.rate = client.rate)
    /\ answer' = Nothing
    /\ UNCHANGED <<server, wire, client, history>>

Use ==
    /\ client.step = "open" /\ wire = Nothing /\ answer = Nothing
    /\ Ask("request", "request", client.rate) \/ Ask("disc", "disc", client.rate)
    /\ UNCHANGED <<server, answer, history>>

(* The client waits longer than the port needs *)
TimedOut == Waiting /\ wire = Nothing /\ answer = Nothing /\ thread # "update"

KindOf == [sign |-> "signOn", ack |-> "ack", snrm |-> "snrm", request |-> "request",
           disc |-> "disc"]

Repeat ==
    /\ TimedOut /\ client.tries < MaxTries
    /\ wire' = [kind |-> KindOf[client.step], rate |-> client.rate]
    /\ client' = [client EXCEPT !.tries = @ + 1]
    /\ UNCHANGED <<server, answer, history>>

Leaves ==
    /\ client' = Away
    /\ left' = (left \/ (mode = "E" /\ connected # "none"))
    /\ UNCHANGED <<server, wire, answer, cutOff, sessions>>

GiveUp == TimedOut /\ client.tries = MaxTries /\ Leaves

(* The probe is taken off *)
Unplug ==
    /\ client.step # "away" /\ wire = Nothing /\ answer = Nothing /\ thread # "update"
    /\ Leaves

Client == Begin \/ GoOn \/ Ignore \/ Use \/ Repeat \/ GiveUp

PortNext ==
    \/ Initialize \/ TooEarly \/ Garbled \/ Update \/ Client \/ Unplug
    \/ \E stale, timedOut \in BOOLEAN : Port(stale, timedOut)

PortSpec == PortInit /\ [][PortNext]_portVars

(* The thread reads and updates on its own; the start of the program goes  *)
(* on; clients keep coming, hear, repeat and give up                       *)
PortFairness ==
    /\ WF_portVars(Initialize) /\ WF_portVars(TooEarly) /\ WF_portVars(Update)
    /\ WF_portVars(\E stale, timedOut \in BOOLEAN : Port(stale, timedOut))
    /\ WF_portVars(Begin \/ GoOn \/ Ignore \/ Repeat \/ GiveUp)

PortFairSpec == PortSpec /\ PortFairness

-----------------------------------------------------------------------------
(* Properties *)

PortTypeOK ==
    /\ mode \in {"E", "HDLC"} /\ timeout \in {"short", "long"}
    /\ initialized \in BOOLEAN
    /\ thread \in {"read", "update", "ended"} /\ port \in Rates
    /\ connected \in {"none", "iec", "hdlc"} /\ newBaudRate \in BOOLEAN
    /\ junk \in 0..Capacity
    /\ wire \in Message /\ answer \in Answers
    /\ client \in [step : {"away", "open"} \cup DOMAIN KindOf, rate : Rates,
                   tries : 0..MaxTries]
    /\ left \in BOOLEAN /\ cutOff \in BOOLEAN /\ sessions \in Nat

(* Between two sessions the port is back at the rate of the next sign-on,  *)
(* however often messages met a port that was just changing its rate: as   *)
(* long as nobody left in the middle and no session timed out.             *)
HomeBetweenSessions ==
    /\ client.step = "away" /\ wire = Nothing /\ thread = "read"
    /\ mode = "E" /\ ~left /\ ~cutOff
    => connected = "none" /\ port = "sign"

(* The other half: a client in session and a port ready to read have the   *)
(* same rate, so what the client sends next is understood.                 *)
SameRateInSession ==
    client.step = "open" /\ thread = "read" /\ ~left /\ ~cutOff =>
        connected = "hdlc" /\ client.rate = port

(* Whoever signs on gets a session in the end, even when the port reset    *)
(* the last one after its inactivity timeout and stayed at the fast rate:  *)
(* the junk the next clients send fills receivedData, however late and     *)
(* however often they come, and the frame reject that follows takes the    *)
(* port back to 300 baud.  It fills because the 65 s to which              *)
(* svr_handleRequest4 cuts the time do not reach inactivityTimeout: when a *)
(* client sets that to less, the junk may be dropped for ever.  Not so     *)
(* either when a client left in the middle in mode E (connected is not     *)
(* "none" then, and svr_handleInactivityTimeout is never called), or when  *)
(* octets came before svr_initialize.                                      *)
EverySignOnServed ==
    timeout = "long" /\ client.step \in {"sign", "snrm"} ~>
        client.step = "open" \/ left \/ thread = "ended"
=============================================================================
