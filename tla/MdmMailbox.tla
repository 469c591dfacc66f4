---------------------------- MODULE MdmMailbox ----------------------------
(***************************************************************************)
(* The socket mailbox lnWrapper.buffer of connection.c and the threads     *)
(* around it.  The MDM has two ways in: the connection the firmware opens  *)
(* ("client": Socket_Receive_Thread, Socket_Manage_Thread) and the one it  *)
(* accepts ("server": Socket_Listen_Thread).  Both threads, the gateway    *)
(* and sendPush put their answers in one buffer, octets first, TX_Count    *)
(* second; Socket_Send_Thread sends what it finds there to whichever       *)
(* connection its two tests come to first, and sets TX_Count to 0 after it *)
(* has blinked the LED and logged.  There is no lock and no queue.         *)
(*                                                                         *)
(* A message is the answer to a request and carries its name: the peer,    *)
(* the number of the connection it was asked on and a serial number.  TX   *)
(* is the message whose octets the buffer holds, TX_Count the message      *)
(* whose length it is: the two are the same unless writers have met.       *)
(* File descriptors are connection numbers: that the kernel may give a     *)
(* closed descriptor's number to the other connection is not modelled.     *)
(*                                                                         *)
(* The process has no handler for SIGPIPE: unless it inherits one that     *)
(* ignores it, a send() on a connection the peer has closed kills it.      *)
(***************************************************************************)
EXTENDS Naturals, Sequences

CONSTANTS
    Scenarios,      \* what the MDM does: see ScenarioAssumption
    MaxConnections  \* bound: client connections

Peers == {"client", "server"}

(* peers: which ways in are used.  kinds: requests for the COSEM server    *)
(* ("cosem"), for the meter ("meter").  patient: the MDM is slower than    *)
(* the logging of its last answer; in any case it asks one thing at a      *)
(* time.  push: the push destination is set, so sendPush sends.            *)
(* ignored: SIGPIPE is.  drops: connections the MDM gives up, malformed    *)
(* frames, unanswered meter requests, sockets that cannot be made.         *)
(* requests and drops are bounds.                                          *)
ASSUME ScenarioAssumption ==
    Scenarios \subseteq [peers : SUBSET Peers, kinds : SUBSET {"cosem", "meter"},
                         patient : BOOLEAN, push : BOOLEAN, ignored : BOOLEAN,
                         drops : Nat, requests : Nat]
ASSUME BoundAssumption == MaxConnections \in Nat

VARIABLES
    scenario,
    open,       \* the MDM's end of the peer's newest connection is open
    number,     \* the number of that connection
    Connected,  \* socket.Status.Connected, serversocket.Status.Connected
    fd,         \* Socket_fd, Accept_fd: a connection's number, 0 for none
    thread,     \* Socket_Receive_Thread "poll", "recv"; Socket_Listen_Thread
                \* "accept", "recv", "closed"; both "handling", "copied"
    recvOn,     \* the connection recv() was called on
    reply,      \* the request being handled, then its answer
    manager,    \* Socket_Manage_Thread: "loop", "push", "pushCopied", or
                \* "noSocket": socket() has failed
    RX,         \* the request for the gateway in the mailbox
    gateway, gatewayAt,     \* the request GW_Run serves: "wait", "serving",
                            \* "segment", "copied"
    TX, TX_Count,
    sender,     \* where Socket_Send_Thread is; "killed": the process is
    done,       \* requests of the peer answered so far
    waiting,    \* the peer waits for an answer on its present connection
    got,        \* what the peer has received on it
    drops

conns   == <<open, number, Connected, fd>>
writers == <<reply, manager, gateway, gatewayAt>>
mdm     == <<done, waiting, got>>
vars    == <<scenario, conns, thread, recvOn, writers, RX, TX, TX_Count, sender,
             mdm, drops>>

None == [peer |-> "none", conn |-> 0, serial |-> 0]
Message == [peer : Peers \cup {"push"}, conn : Nat, serial : Nat] \cup {None}

Init ==
    /\ scenario \in Scenarios
    /\ open = [p \in Peers |-> FALSE] /\ number = [p \in Peers |-> 0]
    /\ Connected = [p \in Peers |-> FALSE] /\ fd = [p \in Peers |-> 0]
    /\ thread = [p \in Peers |-> IF p = "client" THEN "poll" ELSE "accept"]
    /\ recvOn = [p \in Peers |-> 0]
    /\ reply = [p \in Peers |-> None]
    /\ manager = "loop"
    /\ RX = None /\ gateway = None /\ gatewayAt = "wait"
    /\ TX = None /\ TX_Count = None
    /\ sender = "testServer"
    /\ done = [p \in Peers |-> 0] /\ waiting = [p \in Peers |-> FALSE]
    /\ got = [p \in Peers |-> << >>]
    /\ drops = 0

Drop == drops < scenario.drops /\ drops' = drops + 1

Alive == sender # "killed"

(* The two steps every writer takes *)
PutOctets(m) == TX' = m /\ UNCHANGED TX_Count
PutCount(m)  == TX_Count' = m /\ UNCHANGED TX

(* A new connection of p: the MDM starts anew on it *)
NewConnection(p) ==
    /\ number' = [number EXCEPT ![p] = @ + 1]
    /\ open' = [open EXCEPT ![p] = TRUE]
    /\ fd' = [fd EXCEPT ![p] = number[p] + 1]
    /\ Connected' = [Connected EXCEPT ![p] = TRUE]
    /\ waiting' = [waiting EXCEPT ![p] = FALSE]
    /\ got' = [got EXCEPT ![p] = << >>]
    /\ UNCHANGED done

-----------------------------------------------------------------------------
(* Socket_Manage_Thread *)

(* Socket_get_open: close, create, connect, raise the flag, for which      *)
(* TcpClient has a step each *)
GetOpen ==
    /\ manager = "loop" /\ "client" \in scenario.peers
    /\ ~Connected["client"] /\ number["client"] < MaxConnections
    /\ NewConnection("client")
    /\ manager' = IF scenario.push THEN "push" ELSE "loop"
    /\ UNCHANGED <<scenario, thread, recvOn, reply, gateway, gatewayAt, RX, TX,
                   TX_Count, sender, drops>>

(* When socket() fails, Opened stays FALSE and no socket is made again:    *)
(* every later pass calls connect() on none.                               *)
SocketFails ==
    /\ manager = "loop" /\ "client" \in scenario.peers
    /\ ~Connected["client"] /\ Drop
    /\ open' = [open EXCEPT !["client"] = FALSE]
    /\ fd' = [fd EXCEPT !["client"] = 0]
    /\ manager' = "noSocket"
    /\ UNCHANGED <<scenario, number, Connected, thread, recvOn, reply, gateway,
                   gatewayAt, RX, TX, TX_Count, sender, mdm>>

(* sendPush *)
PushOctets ==
    /\ manager = "push"
    /\ PutOctets([peer |-> "push", conn |-> number["client"], serial |-> 0])
    /\ manager' = "pushCopied"
    /\ UNCHANGED <<scenario, conns, thread, recvOn, reply, gateway, gatewayAt, RX,
                   sender, mdm, drops>>

PushCount ==
    /\ manager = "pushCopied"
    /\ PutCount([peer |-> "push", conn |-> number["client"], serial |-> 0])
    /\ manager' = "loop"
    /\ UNCHANGED <<scenario, conns, thread, recvOn, reply, gateway, gatewayAt, RX,
                   sender, mdm, drops>>

Quiet == TX_Count = None /\ sender \in {"testServer", "testClient"}

(* the inactivity timer, when the client waits and nothing is under way *)
DropIdle ==
    /\ manager = "loop" /\ Connected["client"]
    /\ thread["client"] = "recv" /\ waiting["client"]
    /\ Quiet /\ RX = None /\ gateway = None
    /\ Connected' = [Connected EXCEPT !["client"] = FALSE]
    /\ UNCHANGED <<scenario, open, number, fd, thread, recvOn, writers, RX, TX,
                   TX_Count, sender, mdm, drops>>

Manage == Alive /\ (GetOpen \/ PushOctets \/ PushCount \/ DropIdle)

-----------------------------------------------------------------------------
(* Socket_Listen_Thread and Socket_Receive_Thread *)

Accept ==
    /\ Alive
    /\ thread["server"] = "accept" /\ "server" \in scenario.peers
    /\ number["server"] <= drops
    /\ NewConnection("server")
    /\ thread' = [thread EXCEPT !["server"] = "recv"]
    /\ recvOn' = [recvOn EXCEPT !["server"] = number["server"] + 1]
    /\ UNCHANGED <<scenario, writers, RX, TX, TX_Count, sender, drops>>

ReceiveCall ==
    /\ thread["client"] = "poll" /\ Connected["client"]
    /\ thread' = [thread EXCEPT !["client"] = "recv"]
    /\ recvOn' = [recvOn EXCEPT !["client"] = fd["client"]]
    /\ UNCHANGED <<scenario, conns, writers, RX, TX, TX_Count, sender, mdm, drops>>

(* recv() returns no more: the peer has gone, or the descriptor was closed *)
RecvEnds(p) ==
    /\ thread[p] = "recv"
    /\ ~open[p] \/ recvOn[p] # number[p] \/ fd[p] = 0

FlagStays(p) == UNCHANGED Connected   \* mutant: the flag is left up
LowerFlag(p) == Connected' = [Connected EXCEPT ![p] = FALSE]

ReceiveEnd ==
    /\ RecvEnds("client")
    /\ LowerFlag("client")
    /\ thread' = [thread EXCEPT !["client"] = "poll"]
    /\ UNCHANGED <<scenario, open, number, fd, recvOn, writers, RX, TX, TX_Count,
                   sender, mdm, drops>>

(* close(Accept_fd); Accept_fd = -1 *)
ListenEnd ==
    /\ RecvEnds("server")
    /\ fd' = [fd EXCEPT !["server"] = 0]
    /\ thread' = [thread EXCEPT !["server"] = "closed"]
    /\ UNCHANGED <<scenario, open, number, Connected, recvOn, writers, RX, TX,
                   TX_Count, sender, mdm, drops>>

ListenClosed ==
    /\ thread["server"] = "closed"
    /\ LowerFlag("server")
    /\ thread' = [thread EXCEPT !["server"] = "accept"]
    /\ UNCHANGED <<scenario, open, number, fd, recvOn, writers, RX, TX, TX_Count,
                   sender, mdm, drops>>

(* recv() returns a request.  One for the meter is left to the gateway;    *)
(* a second one takes the place of the first.                              *)
Receive(p, kind) ==
    /\ thread[p] = "recv" /\ open[p] /\ recvOn[p] = number[p] /\ fd[p] # 0
    /\ ~waiting[p] /\ done[p] < scenario.requests
    /\ scenario.patient => Quiet
    /\ kind \in scenario.kinds
    /\ waiting' = [waiting EXCEPT ![p] = TRUE]
    /\ LET request == [peer |-> p, conn |-> number[p], serial |-> done[p] + 1] IN
       IF kind = "meter"
       THEN /\ RX' = request
            /\ thread' = [thread EXCEPT ![p] = IF p = "client" THEN "poll" ELSE "recv"]
            /\ UNCHANGED reply
       ELSE /\ reply' = [reply EXCEPT ![p] = request]
            /\ thread' = [thread EXCEPT ![p] = "handling"]
            /\ UNCHANGED RX
    /\ UNCHANGED <<scenario, conns, recvOn, manager, gateway, gatewayAt, TX,
                   TX_Count, sender, done, got, drops>>

(* svr_handleRequest2 has made the answer; memcpy *)
CopyAnswer(p) ==
    /\ thread[p] = "handling"
    /\ PutOctets(reply[p])
    /\ thread' = [thread EXCEPT ![p] = "copied"]
    /\ UNCHANGED <<scenario, conns, recvOn, writers, RX, sender, mdm, drops>>

CountAnswer(p) ==
    /\ thread[p] = "copied"
    /\ PutCount(reply[p])
    /\ reply' = [reply EXCEPT ![p] = None]
    /\ thread' = [thread EXCEPT ![p] = IF p = "client" THEN "poll" ELSE "recv"]
    /\ UNCHANGED <<scenario, conns, recvOn, manager, gateway, gatewayAt, RX, sender,
                   mdm, drops>>

(* svr_handleRequest2 fails: Socket_Listen_Thread closes the connection    *)
(* but leaves the flag up, and calls recv() on descriptor -1               *)
HandleFails ==
    /\ thread["server"] = "handling" /\ Drop
    /\ open' = [open EXCEPT !["server"] = FALSE]
    /\ fd' = [fd EXCEPT !["server"] = 0]
    /\ reply' = [reply EXCEPT !["server"] = None]
    /\ thread' = [thread EXCEPT !["server"] = "recv"]
    /\ UNCHANGED <<scenario, number, Connected, recvOn, manager, gateway, gatewayAt,
                   RX, TX, TX_Count, sender, mdm>>

Listen  == Alive /\ (ListenEnd \/ ListenClosed)
Handle(p) ==
    /\ Alive
    /\ \/ CopyAnswer(p) \/ CountAnswer(p)
       \/ p = "client" /\ (ReceiveCall \/ ReceiveEnd)
Request(p) == Alive /\ \E kind \in {"cosem", "meter"} : Receive(p, kind)

-----------------------------------------------------------------------------
(* GW_Run, as far as this mailbox sees it.  It takes a request in three    *)
(* steps, between which another may come: they are in Gateway.             *)

GatewayTake ==
    /\ gatewayAt = "wait" /\ RX # None
    /\ gateway' = RX /\ RX' = None
    /\ gatewayAt' = "serving"
    /\ UNCHANGED <<scenario, conns, thread, recvOn, reply, manager, TX, TX_Count,
                   sender, mdm, drops>>

(* The convertor copies 5000 octets to TX, from where they run over RX,    *)
(* TX_Count and RX_Count and zero them: for each segment of an answer but  *)
(* the last, and for the last or only one.                                 *)
Overruns == RX' = None /\ TX_Count' = None

GatewayCopies ==
    /\ TX' = gateway
    /\ Overruns
    /\ UNCHANGED <<scenario, conns, thread, recvOn, reply, manager, gateway,
                   sender, mdm, drops>>

GatewaySegment ==
    /\ gatewayAt = "serving"
    /\ gatewayAt' = "segment"
    /\ GatewayCopies

GatewayOctets ==
    /\ gatewayAt \in {"serving", "segment"}
    /\ gatewayAt' = "copied"
    /\ GatewayCopies

GatewayCount ==
    /\ gatewayAt = "copied"
    /\ PutCount(gateway)
    /\ gateway' = None /\ gatewayAt' = "wait"
    /\ UNCHANGED <<scenario, conns, thread, recvOn, reply, manager, RX, sender, mdm,
                   drops>>

(* the meter does not answer *)
GatewayGivesUp ==
    /\ gatewayAt \in {"serving", "segment"} /\ Drop
    /\ gateway' = None /\ gatewayAt' = "wait"
    /\ UNCHANGED <<scenario, conns, thread, recvOn, reply, manager, RX, TX, TX_Count,
                   sender, mdm>>

Gateway ==
    Alive /\ (GatewayTake \/ GatewaySegment \/ GatewayOctets \/ GatewayCount)

-----------------------------------------------------------------------------
(* Socket_Send_Thread: the same steps for the server peer and then for the *)
(* client.  What follows the steps for p:                                  *)

Test(p) == IF p = "server" THEN "testServer" ELSE "testClient"
Call(p) == IF p = "server" THEN "callServer" ELSE "callClient"
Log(p)  == IF p = "server" THEN "logServer" ELSE "logClient"
Fail(p) == IF p = "server" THEN "failServer" ELSE "failClient"
Past(p) == IF p = "server" THEN "testClient" ELSE "testServer"

SendTest(p) ==
    /\ sender = Test(p)
    /\ sender' = IF Connected[p] /\ TX_Count # None THEN Call(p) ELSE Past(p)
    /\ UNCHANGED <<scenario, conns, thread, recvOn, writers, RX, TX, TX_Count, mdm,
                   drops>>

Whole == TX = TX_Count
IsAnswer(p) == Whole /\ TX = [peer |-> p, conn |-> number[p], serial |-> done[p] + 1]

(* send() succeeds: the peer receives the octets, if it is still there *)
Deliver(p) ==
    IF open[p] /\ fd[p] = number[p]
    THEN /\ got' = [got EXCEPT ![p] = Append(@, [octets |-> TX, count |-> TX_Count])]
         /\ done' = [done EXCEPT ![p] = IF IsAnswer(p) THEN @ + 1 ELSE @]
         /\ waiting' = [waiting EXCEPT ![p] = @ /\ ~IsAnswer(p)]
    ELSE UNCHANGED mdm

SendCall(p) ==
    /\ sender = Call(p)
    /\ fd[p] # 0
    /\ Deliver(p)
    /\ sender' = Log(p)
    /\ UNCHANGED <<scenario, conns, thread, recvOn, writers, RX, TX, TX_Count, drops>>

(* It fails with EBADF on descriptor -1, with EPIPE on a closed connection *)
(* when the signal that comes with it is ignored.                          *)
SendFails(p) ==
    /\ sender = Call(p)
    /\ fd[p] = 0 \/ (~open[p] /\ scenario.ignored)
    /\ sender' = Fail(p)
    /\ UNCHANGED <<scenario, conns, thread, recvOn, writers, RX, TX, TX_Count, mdm,
                   drops>>

SendKills(p) ==
    /\ sender = Call(p)
    /\ fd[p] # 0 /\ ~open[p] /\ ~scenario.ignored
    /\ sender' = "killed"
    /\ UNCHANGED <<scenario, conns, thread, recvOn, writers, RX, TX, TX_Count, mdm,
                   drops>>

CountStays   == UNCHANGED TX_Count   \* mutant: TX_Count is not reset
ForgetAnswer == TX_Count' = None

SendLogged(p) ==
    /\ sender = Log(p)
    /\ ForgetAnswer
    /\ sender' = Past(p)
    /\ UNCHANGED <<scenario, conns, thread, recvOn, writers, RX, TX, mdm, drops>>

(* the flag is lowered, whichever connection it stands for by now, and     *)
(* the message stays in the mailbox                                        *)
ServersFlag(p) == "server"   \* mutant: the one branch a copy of the other
FlagOf(p)      == p
SendFailed(p) ==
    /\ sender = Fail(p)
    /\ Connected' = [Connected EXCEPT ![FlagOf(p)] = FALSE]
    /\ sender' = Past(p)
    /\ UNCHANGED <<scenario, open, number, fd, thread, recvOn, writers, RX, TX,
                   TX_Count, mdm, drops>>

Send == \E p \in Peers :
    \/ SendTest(p) \/ SendCall(p) \/ SendFails(p) \/ SendKills(p)
    \/ SendLogged(p) \/ SendFailed(p)

-----------------------------------------------------------------------------
(* The MDM gives a connection up *)
PeerLeaves(p) ==
    /\ open[p] /\ Drop
    /\ open' = [open EXCEPT ![p] = FALSE]
    /\ UNCHANGED <<scenario, number, Connected, fd, thread, recvOn, writers, RX, TX,
                   TX_Count, sender, mdm>>

Upset ==
    /\ Alive
    /\ GatewayGivesUp \/ HandleFails \/ SocketFails \/ \E p \in Peers : PeerLeaves(p)

Next ==
    \/ Manage \/ Accept \/ Listen \/ Gateway \/ Send \/ Upset
    \/ \E p \in Peers : Handle(p) \/ Request(p)

(* Every thread polls for ever, system calls return, and an MDM that has   *)
(* its answer goes on.                                                     *)
Fairness ==
    /\ WF_vars(Manage) /\ WF_vars(Accept) /\ WF_vars(Listen) /\ WF_vars(Gateway)
    /\ WF_vars(Send)
    /\ \A p \in Peers : WF_vars(Handle(p)) /\ WF_vars(Request(p))

Spec     == Init /\ [][Next]_vars
FairSpec == Spec /\ Fairness

-----------------------------------------------------------------------------
(* Properties *)

TypeOK ==
    /\ scenario \in Scenarios
    /\ open \in [Peers -> BOOLEAN] /\ number \in [Peers -> Nat]
    /\ Connected \in [Peers -> BOOLEAN] /\ fd \in [Peers -> Nat]
    /\ thread \in [Peers -> {"poll", "accept", "recv", "closed", "handling",
                             "copied"}]
    /\ recvOn \in [Peers -> Nat]
    /\ reply \in [Peers -> Message]
    /\ manager \in {"loop", "push", "pushCopied", "noSocket"}
    /\ RX \in Message /\ gateway \in Message
    /\ gatewayAt \in {"wait", "serving", "segment", "copied"}
    /\ TX \in Message /\ TX_Count \in Message
    /\ sender \in {"testServer", "callServer", "logServer", "failServer",
                   "testClient", "callClient", "logClient", "failClient",
                   "killed"}
    /\ done \in [Peers -> Nat] /\ waiting \in [Peers -> BOOLEAN]
    /\ got \in [Peers -> Seq([octets : Message, count : Message])]
    /\ drops \in Nat

Alone(p) == scenario.peers = {p} /\ ~scenario.push
Own(p, m) == m.octets = m.count /\ m.octets.peer = p /\ m.octets.conn = number[p]

(* While one peer is served alone and no connection is lost, what it       *)
(* receives are its own answers, whole, each once and in order, although   *)
(* an answer may be put in the buffer while the last is being logged (and  *)
(* be lost then).                                                          *)
InOrder ==
    scenario.drops = 0 => \A p \in Peers : Alone(p) =>
        \A i \in DOMAIN got[p] :
            /\ Own(p, got[p][i])
            /\ \A j \in 1..(i-1) : got[p][j].octets.serial < got[p][i].octets.serial

(* A send() that fails on an old connection can lower the flag of the next *)
(* one, whose peer is then served by nobody; the first connection is never *)
(* made mute.                                                              *)
Mute == open["server"] /\ thread["server"] = "recv" /\ fd["server"] # 0
          /\ ~Connected["server"]
MuteOnlyLater == Mute => number["server"] > 1

(* What no thread puts right: the process has died of a SIGPIPE, or the    *)
(* socket of the client could not be made.                                 *)
Over(p) == sender = "killed" \/ (p = "client" /\ manager = "noSocket")

(* A peer that is served alone has all its requests answered when it is    *)
(* patient: the client whatever connections are lost, unless it is Over,   *)
(* as the inactivity timer makes a new one and it asks again; the server's *)
(* peer as long as none is lost.  An impatient one, whose next answer may  *)
(* be wiped with the last, is at least sure of the first.                  *)
AllAnswered ==
    \A p \in Peers :
        /\ Alone(p)
        /\ \/ scenario.drops = 0
           \/ p = "client" /\ scenario.patient /\ "meter" \notin scenario.kinds
        => <>(Over(p) \/ done[p] >= IF scenario.patient THEN scenario.requests ELSE 1)
=============================================================================
