----------------------------- MODULE TcpClient -----------------------------
(***************************************************************************)
(* The TCP client connection of connection.c: Socket_Manage_Thread opens   *)
(* it and drops it when it is idle, Socket_Receive_Thread and              *)
(* Socket_Send_Thread use it and report its end, all through the unlocked  *)
(* flags con->socket.Status.Connected and .Opened and the field Socket_fd. *)
(* svr_reset of the COSEM server, which ends its association, is called by *)
(* whichever thread sees the connection end.                               *)
(*                                                                         *)
(* A thread that tests Connected and then uses Socket_fd does so in two    *)
(* steps.  A recv() under way keeps to the socket it was called on; when   *)
(* Socket_get_close shuts that socket down, recv() returns 0, before or    *)
(* after the manager has connected the next one.                           *)
(***************************************************************************)
EXTENDS Naturals

CONSTANTS
    InactivityOn,      \* udpSetup.inactivityTimeout > 0
    MaxUpsets          \* bound: failures of the network, idle spells, and
                       \* sends that meet a socket the manager is replacing

ASSUME SwitchAssumption == InactivityOn \in BOOLEAN
ASSUME UpsetAssumption == MaxUpsets \in Nat

VARIABLES
    Version,            \* Settings.MDM: "OLD" or "NEW" SHAHAB_*_VERSION
    SigpipeIgnored,     \* what the process inherits: the code sets no handler
    Connected, Opened,  \* con->socket.Status
    fd,         \* con->socket.Socket_fd: "none" (-1 or 0), "created",
                \* "connected", "lost" (peer gone silently), "broken" (closed)
    idle,       \* diff_time_s(&Inctivity_start_timeout) > inactivityTimeout
    mgr,        \* Socket_Manage_Thread: "loop", "connect", "push" or "drop"
    rcv,        \* Socket_Receive_Thread: "loop", "checked", "blocked" in
                \* recv(), "ended" (recv() <= 0) or "handling";
                \* all three threads are "killed" by a SIGPIPE
    req,        \* the request handled: its kind and whether it came on the
                \* present connection
    snd,        \* Socket_Send_Thread: "loop", "checked" or "failed"
    assoc,      \* the association: "none", or made on the present connection
                \* ("here") or on an earlier one ("before")
    reachable,  \* connect() reaches the MDM
    straddled,  \* history: something has come while its connection was given
                \* up or sent to, or been handled while something was sent
    upsets

flags == <<Connected, Opened>>
fixed == <<Version, SigpipeIgnored>>
vars  == <<fixed, flags, fd, idle, mgr, rcv, req, snd, assoc, reachable,
           straddled, upsets>>

Kinds  == {"AARQ", "OTHER", "RLRQ"}
NoReq  == [kind |-> "OTHER", here |-> FALSE]

Init ==
    /\ Version \in {"OLD", "NEW"} /\ SigpipeIgnored \in BOOLEAN
    /\ Connected = FALSE /\ Opened = TRUE
    /\ fd = "none"
    /\ idle \in BOOLEAN
    /\ mgr = "loop" /\ rcv = "loop" /\ snd = "loop"
    /\ req = NoReq
    /\ assoc = "none"
    /\ reachable \in BOOLEAN
    /\ straddled = FALSE
    /\ upsets = 0

(* recv() on a socket that is shut down or broken returns *)
Wake(r) == IF r = "blocked" THEN "ended" ELSE r

Upset == upsets < MaxUpsets /\ upsets' = upsets + 1

(* svr_reset, where only the new protocol asks for it *)
NeverReset == UNCHANGED assoc   \* mutant: no svr_reset
ResetIfNew == assoc' = IF Version = "NEW" THEN "none" ELSE assoc

TimerRuns    == UNCHANGED idle   \* mutant: gettimeofday left out
TimerRestart == idle' = FALSE

-----------------------------------------------------------------------------
(* Socket_Manage_Thread *)

(* Socket_get_open up to connect(): what was open is closed, a new socket  *)
(* is made.  Opened stays FALSE until a connect() succeeds, so a socket    *)
(* that could not be made is not tried again.                              *)
Reopen ==
    /\ mgr = "loop" /\ ~Connected /\ Opened
    /\ mgr' = "connect"
    /\ Connected' = FALSE /\ Opened' = FALSE
    /\ rcv' = Wake(rcv)
    /\ \/ fd' = "created" /\ TimerRestart
       \/ fd' = "none" /\ UNCHANGED idle
    /\ UNCHANGED <<fixed, req, snd, assoc, reachable, upsets, straddled>>

Retry ==
    /\ mgr = "loop" /\ ~Connected /\ ~Opened
    /\ mgr' = "connect"
    /\ UNCHANGED <<fixed, flags, fd, idle, rcv, req, snd, assoc, reachable,
                   upsets, straddled>>

Established == reachable /\ fd = "created"

Untested(established) == TRUE   \* mutant: the result is not looked at
Succeeded(established) == established

(* connect() returns.  An association made earlier is now on an earlier    *)
(* connection, and so is a request still being handled.                    *)
Connect ==
    /\ mgr = "connect"
    /\ fd' = IF Established THEN "connected" ELSE fd
    /\ \/ /\ Succeeded(Established)
          /\ Connected' = TRUE /\ Opened' = TRUE
          /\ assoc' = IF assoc = "here" THEN "before" ELSE assoc
          /\ req' = [req EXCEPT !.here = FALSE]
          /\ mgr' = "push"
       \/ /\ ~Succeeded(Established)
          /\ Connected' = FALSE
          /\ mgr' = "loop"
          /\ UNCHANGED <<Opened, req, assoc>>
    /\ UNCHANGED <<fixed, idle, rcv, snd, reachable, upsets, straddled>>

(* sendPush returns; the messages go through the mailbox *)
PushDone ==
    /\ mgr = "push"
    /\ mgr' = "loop"
    /\ UNCHANGED <<fixed, flags, fd, idle, rcv, req, snd, assoc, reachable,
                   upsets, straddled>>

(* The connection is found to be idle... *)
FindIdle ==
    /\ mgr = "loop" /\ Connected
    /\ idle /\ InactivityOn
    /\ mgr' = "drop"
    /\ UNCHANGED <<fixed, flags, fd, idle, rcv, req, snd, assoc, reachable,
                   upsets, straddled>>

(* ... and given up, whatever has come meanwhile. *)
DropIdle ==
    /\ mgr = "drop"
    /\ Connected' = FALSE
    /\ mgr' = "loop"
    /\ UNCHANGED <<fixed, Opened, fd, idle, rcv, req, snd, assoc, reachable,
                   upsets, straddled>>

Manage == Reopen \/ Retry \/ Connect \/ PushDone \/ FindIdle \/ DropIdle

-----------------------------------------------------------------------------
(* Socket_Receive_Thread *)

ReceiveCheck ==
    /\ rcv = "loop" /\ Connected
    /\ rcv' = "checked"
    /\ UNCHANGED <<fixed, flags, fd, idle, mgr, req, snd, assoc, reachable,
                   upsets, straddled>>

ReceiveCall ==
    /\ rcv = "checked"
    /\ rcv' = IF fd \in {"connected", "lost"} THEN "blocked" ELSE "ended"
    /\ UNCHANGED <<fixed, flags, fd, idle, mgr, req, snd, assoc, reachable,
                   upsets, straddled>>

ReceiveEnd ==
    /\ rcv = "ended"
    /\ ResetIfNew
    /\ Connected' = FALSE
    /\ rcv' = "loop"
    /\ UNCHANGED <<fixed, Opened, fd, idle, mgr, req, snd, reachable, upsets,
                   straddled>>

(* recv() can return what the peer has sent *)
Arriving  == rcv = "blocked" /\ fd = "connected"
Straddles == straddled' = (straddled \/ ~Connected \/ mgr = "drop" \/ snd # "loop")

(* recv() returns a request for the COSEM server; the old protocol resets  *)
(* the server at each AARQ                                                 *)
ReceiveRequest(kind) ==
    /\ Arriving
    /\ TimerRestart
    /\ req' = [kind |-> kind, here |-> TRUE]
    /\ assoc' = IF kind = "AARQ" /\ Version = "OLD" THEN "none" ELSE assoc
    /\ Straddles
    /\ rcv' = "handling"
    /\ UNCHANGED <<fixed, flags, fd, mgr, snd, reachable, upsets>>

(* a gateway frame is only copied to the mailbox *)
ReceiveGatewayFrame ==
    /\ Arriving
    /\ TimerRestart
    /\ Straddles
    /\ rcv' = "loop"
    /\ UNCHANGED <<fixed, flags, fd, mgr, req, snd, assoc, reachable, upsets>>

(* svr_handleRequest2 returns *)
Handled ==
    /\ rcv = "handling"
    /\ assoc' \in CASE req.kind = "AARQ" -> {"none", IF req.here THEN "here" ELSE "before"}
                    [] req.kind = "RLRQ" -> {"none"}
                    [] OTHER             -> {assoc}
    /\ req' = NoReq
    /\ rcv' = "loop"
    /\ UNCHANGED <<fixed, flags, fd, idle, mgr, snd, reachable, upsets,
                   straddled>>

ReceiveReturns ==
    \/ \E kind \in Kinds : ReceiveRequest(kind)
    \/ ReceiveGatewayFrame

Receive == ReceiveCheck \/ ReceiveCall \/ ReceiveEnd \/ Handled

-----------------------------------------------------------------------------
(* Socket_Send_Thread, when the mailbox holds a message *)

SendCheck ==
    /\ snd = "loop" /\ Connected
    /\ snd' = "checked"
    /\ straddled' = (straddled \/ rcv = "handling")
    /\ UNCHANGED <<fixed, flags, fd, idle, mgr, rcv, req, assoc, reachable,
                   upsets>>

SendCall ==
    /\ snd = "checked"
    /\ fd \in {"connected", "lost", "broken"}
    /\ snd' = "loop"
    /\ UNCHANGED <<fixed, flags, fd, idle, mgr, rcv, req, assoc, reachable,
                   upsets, straddled>>

(* On a socket the peer has closed send() may also fail; on one the        *)
(* manager has closed or not yet connected it does, which is a rare        *)
(* coincidence.                                                            *)
SendCallFails ==
    /\ snd = "checked"
    /\ \/ fd = "broken" /\ UNCHANGED upsets
       \/ fd \in {"none", "created"} /\ Upset
    /\ fd = "none" \/ SigpipeIgnored
    /\ snd' = "failed"
    /\ UNCHANGED <<fixed, flags, fd, idle, mgr, rcv, req, assoc, reachable,
                   straddled>>

(* by default the signal that comes with EPIPE kills the process *)
SendCallKills ==
    /\ snd = "checked"
    /\ fd \in {"created", "broken"} /\ ~SigpipeIgnored
    /\ mgr' = "killed" /\ rcv' = "killed" /\ snd' = "killed"
    /\ UNCHANGED <<fixed, flags, fd, idle, req, assoc, reachable, upsets,
                   straddled>>

SendFailed ==
    /\ snd = "failed"
    /\ ResetIfNew
    /\ Connected' = FALSE
    /\ snd' = "loop"
    /\ UNCHANGED <<fixed, Opened, fd, idle, mgr, rcv, req, reachable, upsets,
                   straddled>>

Send == SendCheck \/ SendCall \/ SendCallFails \/ SendCallKills \/ SendFailed

-----------------------------------------------------------------------------
(* The network and the clock *)

(* the peer closes the connection, or is gone without a word *)
Break ==
    /\ fd = "connected" /\ Upset
    /\ \/ fd' = "broken" /\ rcv' = Wake(rcv)
       \/ fd' = "lost" /\ UNCHANGED rcv
    /\ UNCHANGED <<fixed, flags, idle, mgr, req, snd, assoc, reachable,
                   straddled>>

NetworkDown ==
    /\ reachable /\ Upset
    /\ reachable' = FALSE
    /\ UNCHANGED <<fixed, flags, fd, idle, mgr, rcv, req, snd, assoc,
                   straddled>>

NetworkUp ==
    /\ ~reachable
    /\ reachable' = TRUE
    /\ UNCHANGED <<fixed, flags, fd, idle, mgr, rcv, req, snd, assoc, upsets,
                   straddled>>

(* No thread stands still for inactivityTimeout between two system calls *)
AllWaiting ==
    /\ rcv = "blocked" \/ (rcv = "loop" /\ ~Connected)
    /\ snd = "loop"

(* inactivityTimeout passes, while connecting or on a live connection *)
IdleSpell ==
    /\ ~idle /\ fd # "lost" /\ Upset
    /\ AllWaiting
    /\ idle' = TRUE
    /\ UNCHANGED <<fixed, flags, fd, mgr, rcv, req, snd, assoc, reachable,
                   straddled>>

(* it always does on a connection whose peer is gone *)
Silence ==
    /\ ~idle /\ fd = "lost" /\ AllWaiting
    /\ idle' = TRUE
    /\ UNCHANGED <<fixed, flags, fd, mgr, rcv, req, snd, assoc, reachable,
                   upsets, straddled>>

Network == Break \/ NetworkDown \/ NetworkUp \/ IdleSpell \/ Silence

Next == Manage \/ Receive \/ ReceiveReturns \/ Send \/ Network

(* Each thread polls for ever, and what it waits for in a system call      *)
(* comes to an end; nobody has to send anything, so SendCheck and          *)
(* ReceiveReturns need not happen.                                         *)
Fairness ==
    /\ WF_vars(Manage) /\ WF_vars(Receive)
    /\ WF_vars(SendCall) /\ WF_vars(SendFailed)
    /\ WF_vars(NetworkUp) /\ WF_vars(Silence)

Spec     == Init /\ [][Next]_vars
FairSpec == Spec /\ Fairness

-----------------------------------------------------------------------------
(* Properties *)

TypeOK ==
    /\ Version \in {"OLD", "NEW"} /\ SigpipeIgnored \in BOOLEAN
    /\ straddled \in BOOLEAN
    /\ Connected \in BOOLEAN /\ Opened \in BOOLEAN
    /\ fd \in {"none", "created", "connected", "lost", "broken"}
    /\ idle \in BOOLEAN
    /\ mgr \in {"loop", "connect", "push", "drop", "killed"}
    /\ rcv \in {"loop", "checked", "blocked", "ended", "handling",
               "killed"}
    /\ req \in [kind : Kinds, here : BOOLEAN]
    /\ snd \in {"loop", "checked", "failed", "killed"}
    /\ assoc \in {"none", "here", "before"}
    /\ reachable \in BOOLEAN
    /\ upsets \in 0..MaxUpsets

(* Three threads write the flag without a lock, and yet it never claims a  *)
(* connection on a descriptor that was not connected: sendPush and the     *)
(* send thread have a socket to write to, unless the peer has gone.        *)
ConnectedIsConnected == Connected => Opened /\ fd \in {"connected", "lost", "broken"}

(* With the new protocol, and as long as nothing has come at the moment    *)
(* its connection was given up, no request is handled in an association    *)
(* that was made on an earlier connection, though the thread that ends the *)
(* association (svr_reset) and the thread that makes the next connection   *)
(* do not wait for each other.                                             *)
FreshSession ==
    Version = "NEW" /\ ~straddled =>
        (rcv = "handling" /\ req.here /\ req.kind = "OTHER" => assoc # "before")

(* Socket_Manage_Thread has no socket and makes no new one any more.       *)
GivenUp == fd = "none" /\ ~Opened

Killed == mgr = "killed"

(* When the network stays up, the client ends connected, whatever was lost *)
(* before and although a recv() that ends late can drop a new connection:  *)
(* unless socket() has failed once, which is for ever, or SIGPIPE has      *)
(* killed the process.                                                     *)
Settles == <>[]Connected \/ <>[]GivenUp \/ <>[]Killed
=============================================================================
