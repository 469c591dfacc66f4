------------------------------ MODULE HdlcLink ------------------------------
(***************************************************************************)
(* HDLC on the optical port, between a client and the COSEM server of the  *)
(* firmware: the frame numbers of dlmsSettings.c, the frames dlms.c makes  *)
(* and takes apart, and what svr_handleRequest4 does with them.  The       *)
(* client numbers and checks its frames as the client half of the same     *)
(* library does; when it repeats and when it gives up is its own choice.   *)
(*                                                                         *)
(* The window is one frame, so every frame has the poll/final bit and it   *)
(* is not modelled.  A request or an answer that does not fit one frame    *)
(* goes in parts, each acknowledged by RR.  The line keeps the order; it   *)
(* may lose a frame or damage it, and an answer may come after the client  *)
(* has repeated its question.                                              *)
(***************************************************************************)
EXTENDS Naturals, Sequences

CONSTANTS
    Kinds,          \* of requests: see KindAssumption
    MaxRequests,    \* bound: requests the client wants answered
    MaxTries,       \* bound: repetitions of one frame
    MaxSessions,    \* bound: SNRM
    MaxFaults       \* bound: lost, damaged and late frames

(* frames: of the request.  parts: of the answer.  flagged: the answer is  *)
(* longer than maximumInfoLengthTransmit, the configured length; one in    *)
(* two parts need not be, because a part is three octets shorter than the  *)
(* length agreed by SNRM, which may itself be shorter than that configured *)
ASSUME KindAssumption ==
    Kinds \subseteq [frames : Nat \ {0}, parts : Nat \ {0}, flagged : BOOLEAN]
ASSUME BoundAssumption ==
    /\ MaxRequests \in Nat /\ MaxTries \in Nat /\ MaxSessions \in Nat
    /\ MaxFaults \in Nat

VARIABLES
    server,     \* session: of the last SNRM, 0 for none.  senderFrame,
                \* receiverFrame.  request: parts in info.data.  rest: of the
                \* answer, in info.data.  transaction: its command is set.
                \* count: requests handled in this session.  History: heard,
                \* the number of the I-frame it took last; sent, the data of
                \* the I-frame it sent last.
    client,     \* at: "off", "snrm", "idle" or "wait".  session, senderFrame,
                \* receiverFrame.  frame: sent last.  tries.  outbox: frames of
                \* the request not sent yet.  got: parts of the answer.
                \* count: answers taken in this session.  History: missed,
                \* frames that went by since the last part of an answer.
    done,       \* requests answered
    kind,       \* of the request the client works on
    toServer, toClient,     \* the line
    faults,
    misled,     \* history: a damaged frame set the server's numbers back,
                \* cleared what was in info.data, or was counted by a client
                \* that had a part of an answer; or the client took the UA of
                \* an earlier SNRM, or an answer because it takes any number;
                \* or so many frames were damaged, or missed, that the numbers,
                \* which count to 8, came round to those of earlier frames
    whole       \* history: what was handled and what was taken for an answer
                \* was complete and in order

link == <<toServer, toClient>>
vars == <<server, client, done, kind, link, faults, misled, whole>>

Inc(n) == (n + 1) % 8

NoKind == [frames |-> 0, parts |-> 0, flagged |-> FALSE]
Nobody == [session |-> 0, id |-> 0, kind |-> NoKind, part |-> 0]    \* no data

(* An I-frame without data is marked by a part after the last *)
NextPart(data) == [data EXCEPT !.part = @ + 1]
NoPart(data)   == data.part > data.kind.parts

(* The n parts of request id of a kind, or of its answer *)
Parts(session, id, k, n) ==
    [i \in 1..n |-> [session |-> session, id |-> id, kind |-> k, part |-> i]]

Frame(type, nr, ns, more, data) ==
    [type |-> type, nr |-> nr, ns |-> ns, more |-> more, data |-> data]
U(type, data) == Frame(type, 0, 0, FALSE, data)     \* SNRM, UA, FRMR
RR(nr)        == Frame("RR", nr, 0, FALSE, Nobody)
I(s, more, data) == Frame("I", s.nr, s.ns, more, data)

-----------------------------------------------------------------------------
(* dlmsSettings.c *)

ServerStart == [sender |-> [nr |-> 0, ns |-> 7, rr |-> FALSE], receiver |-> [nr |-> 7, ns |-> 7]]
ClientStart == [sender |-> [nr |-> 7, ns |-> 7, rr |-> FALSE], receiver |-> [nr |-> 0, ns |-> 7]]

getNextSend(s, first) ==
    [nr |-> IF first THEN Inc(s.nr) ELSE s.nr, ns |-> Inc(s.ns), rr |-> FALSE]
getReceiverReady(s) == [s EXCEPT !.nr = Inc(@), !.rr = TRUE]
getKeepAlive(s)     == [s EXCEPT !.rr = TRUE]

AnyNumber(end, f)  == TRUE                              \* mutant: no check
NextNumber(end, f) ==
    /\ f.ns = Inc(end.receiver.ns)
    /\ f.nr = IF end.sender.rr THEN end.receiver.nr ELSE Inc(end.receiver.nr)

(* "Pre-established connections": a client whose receiverFrame is 0xFE     *)
(* takes any frame; the 0x0E at which a server would needs a frame without *)
(* the final bit                                                           *)
TakesAny(end) == end.role = "client" /\ end.receiver = [nr |-> 7, ns |-> 7]

checkFrame(end, f) ==
    \/ f.type = "I" /\ (NextNumber(end, f) \/ TakesAny(end))
    \/ f.type = "RR" /\ ~(end.sender.rr /\ end.sender.nr = f.nr)    \* an echo
    \/ f.type = "UA" /\ end.sender = ClientStart.sender /\ end.receiver = ClientStart.receiver
    \/ f.type \in {"SNRM", "FRMR"}

Checked(end, f) ==
    CASE f.type = "I"  -> [end EXCEPT !.receiver = [nr |-> f.nr, ns |-> f.ns]]
      [] f.type = "RR" -> [end EXCEPT !.receiver.nr = Inc(@)]
      [] f.type = "SNRM" ->
            LET start == IF end.role = "client" THEN ClientStart ELSE ServerStart IN
            [end EXCEPT !.sender = start.sender, !.receiver = start.receiver]
      [] OTHER -> end

(* A frame with a wrong checksum.  The number is checked, and the numbers  *)
(* of this end changed, before the checksum: control is what the frame     *)
(* looks like.                                                             *)
Controls == {"I", "RR", "SNRM", "other"}

Misread(end, control) ==
    IF control = "other" THEN end
    ELSE Checked(end, [type |-> control, nr |-> IF end.sender.rr THEN end.receiver.nr
                                                ELSE Inc(end.receiver.nr),
                       ns |-> Inc(end.receiver.ns)])

-----------------------------------------------------------------------------
Init ==
    /\ server = [role |-> "server", session |-> 0, sender |-> ServerStart.sender,
                 receiver |-> ServerStart.receiver, request |-> << >>,
                 rest |-> << >>, transaction |-> FALSE, count |-> 0, heard |-> 7,
                 sent |-> Nobody]
    /\ client = [role |-> "client", at |-> "off", session |-> 0,
                 sender |-> ClientStart.sender, receiver |-> ClientStart.receiver,
                 frame |-> U("SNRM", Nobody), tries |-> 0, outbox |-> << >>,
                 got |-> << >>, count |-> 0, missed |-> 0]
    /\ done = 0 /\ kind = NoKind
    /\ toServer = << >> /\ toClient = << >>
    /\ faults = 0 /\ misled = FALSE /\ whole = TRUE

Fault == faults < MaxFaults /\ faults' = faults + 1

(* The server: svr_handleRequest4 *)

Takes(f) == toServer # << >> /\ f = Head(toServer) /\ toServer' = Tail(toServer)
Reply(f) == toClient' = Append(toClient, f)
Others   == UNCHANGED <<client, done, kind, faults, misled>>

(* svr_handleSnrmRequest: svr_reset *)
HandleSnrm(f) ==
    /\ Takes(f) /\ f.type = "SNRM"
    /\ server' = [Checked(server, f) EXCEPT !.session = f.data.session,
                     !.request = << >>, !.rest = << >>, !.transaction = FALSE, !.count = 0,
                     !.heard = 7, !.sent = Nobody]
    /\ Reply(U("UA", f.data))
    /\ UNCHANGED whole /\ Others

(* DLMS_ERROR_CODE_INVALID_FRAME_NUMBER *)
RejectFrame(f) ==
    /\ Takes(f) /\ ~checkFrame(server, f)
    /\ IF server.session = 0 THEN UNCHANGED toClient ELSE Reply(U("FRMR", Nobody))
    /\ UNCHANGED <<server, whole>> /\ Others

(* A part of a request, and more to come *)
TakePart(f) ==
    /\ Takes(f) /\ f.type = "I" /\ f.more /\ checkFrame(server, f)
    /\ LET ready == getReceiverReady(server.sender) IN
       /\ server' = [Checked(server, f) EXCEPT !.sender = ready,
                        !.request = Append(@, f.data), !.heard = f.ns]
       /\ Reply(RR(ready.nr))
    /\ UNCHANGED whole /\ Others

(* svr_handleCommand *)
HandleRequest(f) ==
    /\ Takes(f) /\ f.type = "I" /\ ~f.more /\ checkFrame(server, f)
    /\ LET k       == f.data.kind
           request == Append(server.request, f.data)
           answer  == Parts(server.session, f.data.id, k, k.parts)
           next    == getNextSend(server.sender, TRUE) IN
       /\ server' = [Checked(server, f) EXCEPT !.sender = next, !.request = << >>,
                        !.rest = Tail(answer), !.count = @ + 1,
                        !.transaction = @ \/ k.flagged, !.heard = f.ns,
                        !.sent = Head(answer)]
       /\ Reply(I(next, k.parts > 1, Head(answer)))
       /\ whole' = (whole /\ request = Parts(server.session, f.data.id, k, k.frames))
    /\ Others

RestLost(rest) == << >>     \* mutant: what was not sent yet is cleared
RestLeft(rest) == Tail(rest)

(* RR.  With a transaction, the next part, or an empty frame when there is *)
(* none.  Without, svr_handleCommand(DLMS_COMMAND_NONE) counts the frame   *)
(* twice.  keepAlive when there is nothing to send.                        *)
GetNextFrame(f) ==
    /\ Takes(f) /\ f.type = "RR" /\ checkFrame(server, f)
    /\ LET rest == server.rest
           data == IF rest # << >> THEN Head(rest) ELSE NextPart(server.sent)
           next == CASE rest # << >> /\ server.transaction -> getNextSend(server.sender, FALSE)
                     [] rest # << >> /\ ~server.transaction ->
                            getNextSend(getNextSend(server.sender, FALSE), TRUE)
                     [] rest = << >> /\ server.transaction -> getNextSend(server.sender, TRUE)
                     [] OTHER -> getKeepAlive(server.sender) IN
       /\ server' = [Checked(server, f) EXCEPT !.sender = next,
                        !.rest = IF rest = << >> THEN rest ELSE RestLeft(rest),
                        !.sent = IF rest # << >> \/ server.transaction THEN data ELSE @]
       /\ Reply(IF rest # << >> \/ server.transaction THEN I(next, Len(rest) > 1, data)
                                                       ELSE RR(next.nr))
    /\ UNCHANGED whole /\ Others

(* A checksum is wrong: nothing is answered, and info is cleared, unless   *)
(* it is the checksum of the header and enough octets follow to look for   *)
(* another frame in them.  Or the number looked wrong already.             *)
TakeDamaged(f, control, cleared) ==
    /\ Takes(f) /\ Fault
    /\ \/ /\ server' = IF cleared
                      THEN [Misread(server, control) EXCEPT !.request = << >>, !.rest = << >>]
                      ELSE Misread(server, control)
          /\ UNCHANGED toClient
       \/ /\ control \in {"I", "RR"} /\ server.session # 0
          /\ Reply(U("FRMR", Nobody))
          /\ UNCHANGED server
    /\ f.type = "RR" => cleared
    /\ misled' = (misled \/ control = "SNRM" \/ (cleared /\ server.request \o server.rest # << >>)
                  \/ Inc(server'.receiver.ns) = server.heard)
    /\ UNCHANGED <<client, done, kind, whole>>

Serve ==
    \E f \in {toServer[i] : i \in DOMAIN toServer} :
        \/ HandleSnrm(f) \/ RejectFrame(f) \/ TakePart(f) \/ HandleRequest(f)
        \/ GetNextFrame(f)

-----------------------------------------------------------------------------
(* The client *)

Send(f) == toServer' = Append(toServer, f)

(* cl_snrmRequest *)
Connect ==
    IF client.session < MaxSessions
    THEN LET session == client.session + 1
             f == U("SNRM", [Nobody EXCEPT !.session = session]) IN
         /\ client' = [client EXCEPT !.at = "snrm", !.session = session,
                          !.sender = ClientStart.sender, !.receiver = ClientStart.receiver,
                          !.frame = f, !.tries = 0, !.outbox = << >>, !.got = << >>,
                          !.count = 0, !.missed = 0]
         /\ Send(f)
    ELSE client' = [client EXCEPT !.at = "off"] /\ UNCHANGED toServer

Begin ==
    /\ client.at = "off" /\ client.session = 0
    /\ Connect
    /\ UNCHANGED <<server, done, kind, toClient, faults, misled, whole>>

(* dlms_getLnMessages makes all frames of the request *)
Ask(k) ==
    /\ client.at = "idle" /\ done < MaxRequests
    /\ kind \in {NoKind, k} /\ kind' = k
    /\ LET first  == getNextSend(client.sender, TRUE)
           parts  == Parts(client.session, done + 1, k, k.frames)
           frames == [i \in 1..k.frames |->
                        Frame("I", first.nr, (first.ns + i - 1) % 8, i < k.frames, parts[i])] IN
       /\ client' = [client EXCEPT !.at = "wait", !.frame = Head(frames), !.tries = 0,
                        !.outbox = Tail(frames), !.got = << >>,
                        !.sender = [first EXCEPT !.ns = frames[k.frames].ns]]
       /\ Send(Head(frames))
    /\ UNCHANGED <<server, done, toClient, faults, misled, whole>>

Hears(f) == toClient # << >> /\ f = Head(toClient) /\ toClient' = Tail(toClient)

(* A frame is not taken; eight of them lead the numbers round *)
Missed == IF client.got = << >> THEN 0 ELSE client.missed + 1
Round  == Missed = 8

Guessed(f) == misled' = (misled \/ (f.type = "I" /\ ~NextNumber(client, f)))

HearUA(f) ==
    /\ Hears(f) /\ f.type = "UA" /\ checkFrame(client, f) /\ client.at = "snrm"
    /\ client' = [client EXCEPT !.at = "idle"]
    /\ misled' = (misled \/ f.data.session # client.session)
    /\ UNCHANGED <<server, done, kind, toServer, faults, whole>>

Empty(f) == f.type = "I" /\ NoPart(f.data) /\ client.got = << >>

(* DLMS_ERROR_CODE_REJECTED; or "Invalid PDU" *)
HearReject(f) ==
    /\ Hears(f) /\ client.at = "wait"
    /\ f.type = "FRMR" \/ (Empty(f) /\ client.outbox = << >> /\ checkFrame(client, f))
    /\ Connect
    /\ UNCHANGED <<server, done, kind, faults, misled, whole>>

(* RR: the next part of the request *)
HearReady(f) ==
    /\ Hears(f) /\ f.type = "RR" /\ checkFrame(client, f)
    /\ client.at = "wait" /\ client.outbox # << >>
    /\ client' = [Checked(client, f) EXCEPT !.frame = Head(client.outbox), !.tries = 0,
                     !.outbox = Tail(client.outbox)]
    /\ Send(Head(client.outbox))
    /\ UNCHANGED <<server, done, kind, faults, misled, whole>>

(* A part of the answer; dlms_receiverReady asks for the next *)
HearPart(f) ==
    /\ Hears(f) /\ f.type = "I" /\ checkFrame(client, f)
    /\ client.at = "wait" /\ client.outbox = << >> /\ f.more /\ Guessed(f)
    /\ LET ready == getReceiverReady(client.sender) IN
       /\ client' = [Checked(client, f) EXCEPT !.sender = ready, !.frame = RR(ready.nr),
                        !.tries = 0, !.got = Append(@, f.data), !.missed = 0]
       /\ Send(RR(ready.nr))
    /\ UNCHANGED <<server, done, kind, faults, whole>>

HearAnswer(f) ==
    /\ Hears(f) /\ f.type = "I" /\ checkFrame(client, f)
    /\ client.at = "wait" /\ client.outbox = << >> /\ ~f.more /\ ~Empty(f) /\ Guessed(f)
    /\ client' = [Checked(client, f) EXCEPT !.at = "idle", !.got = << >>, !.count = @ + 1,
                                       !.missed = 0]
    /\ done' = done + 1 /\ kind' = NoKind
    /\ whole' = (whole /\ Append(client.got, f.data) = Parts(client.session, done + 1, kind, kind.parts))
    /\ UNCHANGED <<server, toServer, faults>>

Wanted(f) ==
    \/ f.type = "UA" /\ client.at = "snrm" /\ checkFrame(client, f)
    \/ f.type = "FRMR" /\ client.at = "wait"
    \/ f.type = "RR" /\ client.at = "wait" /\ client.outbox # << >> /\ checkFrame(client, f)
    \/ f.type = "I" /\ client.at = "wait" /\ client.outbox = << >> /\ checkFrame(client, f)

(* ... but its number is taken note of *)
Ignore(f) ==
    /\ Hears(f) /\ ~Wanted(f)
    /\ client' = [IF checkFrame(client, f) THEN Checked(client, f) ELSE client
                      EXCEPT !.missed = Missed]
    /\ misled' = (misled \/ Round)
    /\ UNCHANGED <<server, done, kind, toServer, faults, whole>>

HearDamaged(control) ==
    /\ toClient # << >> /\ toClient' = Tail(toClient) /\ Fault
    /\ client' = [Misread(client, control) EXCEPT !.missed = Missed]
    /\ misled' = (misled \/ (control # "other" /\ client.got # << >>) \/ Round)
    /\ UNCHANGED <<server, done, kind, toServer, whole>>

Hear ==
    \E f \in {toClient[i] : i \in DOMAIN toClient} :
        \/ HearUA(f) \/ HearReject(f) \/ HearReady(f) \/ HearPart(f)
        \/ HearAnswer(f) \/ Ignore(f)

Damaged(control) ==
    \/ \E f \in {toServer[i] : i \in DOMAIN toServer}, cleared \in BOOLEAN :
           TakeDamaged(f, control, cleared)
    \/ HearDamaged(control)

Waits == client.at \in {"snrm", "wait"}

(* Nothing comes any more; or it comes too late *)
Repeat(isLate) ==
    /\ Waits /\ client.tries < MaxTries
    /\ IF isLate THEN (toServer # << >> \/ toClient # << >>) /\ Fault
                 ELSE toServer = << >> /\ toClient = << >> /\ UNCHANGED faults
    /\ client' = [client EXCEPT !.tries = @ + 1]
    /\ Send(client.frame)
    /\ UNCHANGED <<server, done, kind, toClient, misled, whole>>

GiveUp ==
    /\ Waits /\ client.tries = MaxTries /\ toServer = << >> /\ toClient = << >>
    /\ Connect
    /\ UNCHANGED <<server, done, kind, toClient, faults, misled, whole>>

-----------------------------------------------------------------------------
Lose ==
    /\ \/ /\ toServer # << >> /\ toServer' = Tail(toServer)
          /\ UNCHANGED <<toClient, client, misled>>
       \/ /\ toClient # << >> /\ toClient' = Tail(toClient)
          /\ client' = [client EXCEPT !.missed = Missed]
          /\ misled' = (misled \/ Round)
          /\ UNCHANGED toServer
    /\ Fault
    /\ UNCHANGED <<server, done, kind, whole>>

Next ==
    \/ Begin \/ Serve \/ Hear \/ GiveUp \/ Lose
    \/ \E k \in Kinds : Ask(k)
    \/ \E isLate \in BOOLEAN : Repeat(isLate)
    \/ \E control \in Controls : Damaged(control)

Spec == Init /\ [][Next]_vars

(* Both ends read what comes, and a client that wants an answer goes on *)
FairSpec ==
    /\ Spec
    /\ WF_vars(Serve) /\ WF_vars(Hear)
    /\ WF_vars(Begin \/ GiveUp \/ Repeat(FALSE) \/ \E k \in Kinds : Ask(k))

-----------------------------------------------------------------------------
(* Properties *)

TypeOK ==
    /\ server.session \in 0..MaxSessions /\ client.session \in 0..MaxSessions
    /\ client.at \in {"off", "snrm", "idle", "wait"}
    /\ client.tries \in 0..MaxTries
    /\ kind \in Kinds \cup {NoKind}
    /\ done \in 0..MaxRequests /\ faults \in 0..MaxFaults
    /\ misled \in BOOLEAN /\ whole \in BOOLEAN

(* The server is in the client's present session, and it was not misled    *)
Joined == server.session = client.session /\ ~misled

TheSession == INSTANCE HdlcSession WITH
    handled  <- IF Joined THEN server.count ELSE 0,
    answered <- IF Joined THEN client.count ELSE 0

(* Within a session no request is handled twice and no answer taken before *)
(* its request was handled, whatever is lost, damaged or repeated too      *)
(* early.                                                                  *)
ImplementsSession == TheSession!Spec

(* What svr_handleCommand is given is all of one request, and what the     *)
(* client takes for the answer is all of the answer to that request, each  *)
(* part once and in order.                                                 *)
Whole == ~misled => whole

(* The configured length and the one a part may have: see KindAssumption.  *)
(* A transaction left over from a longer answer helps.                     *)
Unflagged == kind.parts > 1 /\ ~kind.flagged /\ ~server.transaction

(* Every request is answered in the end, in a later session if need be;    *)
(* but not one whose answer is in parts although it is not longer than     *)
(* maximumInfoLengthTransmit, which the client may ask for ever.           *)
EveryRequestAnswered == <>(done = MaxRequests \/ Unflagged)

(* "Return rest of frame": as long as nothing is lost, damaged or late,    *)
(* the client never has to connect again.                                  *)
RestReturned == faults = 0 => client.session <= 1
=============================================================================
