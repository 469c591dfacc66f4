----------------------------- MODULE BlockRead -----------------------------
(***************************************************************************)
(* The object list of the COSEM server, read in blocks over TCP            *)
(* (server.c: svr_getRequestNormal, svr_getRequestNextDataBlock; gxget.c:  *)
(* getLNObjects), and the session it is read in.  Socket_Receive_Thread    *)
(* ("client") and Socket_Listen_Thread ("server") hand their requests to   *)
(* one dlmsServerSettings: one association, one block index, one           *)
(* transaction.  srv_Save keeps part of it in svr.RAW after each request   *)
(* of the first; srv_Load brings it back after both threads have started.  *)
(*                                                                         *)
(* A request is handled in one step: two that meet inside                  *)
(* svr_handleRequest2 also share its buffers, which is not modelled.       *)
(* Authentication is left out: an AARQ is accepted.                        *)
(***************************************************************************)
EXTENDS Integers, Sequences, FiniteSetsExt

CONSTANTS
    Lists,      \* object lists: the octets each object takes, in order
    Rooms,      \* octets for objects in a PDU, by the size agreed on
    Scenarios   \* address: the client address of each peer.  Bounds: reads,
                \* associations and later reads each begins, and faults,
                \* power failures, lost answers and connections,
                \* inactivity time-outs

(* An object fits into a block, otherwise no block would ever bring it *)
ASSUME ListAssumption ==
    Lists \subseteq Seq(Nat \ {0})
ASSUME RoomAssumption ==
    \A room \in Rooms, l \in Lists :
        room \in Nat /\ \A i \in DOMAIN l : l[i] <= room
Peers == {"client", "server"}
Other(c) == IF c = "client" THEN "server" ELSE "client"

ASSUME ScenarioAssumption ==
    Scenarios \subseteq [address : [Peers -> Nat \ {0}],
                         reads : [Peers -> Nat], faults : Nat]

VARIABLES
    scenario,
    list,       \* associationNone.objectList
    newMDM,     \* Settings.MDM is SHAHAB_NEW_VERSION, else the old one
    connected, clientAddress, blockIndex, maxPduSize,   \* settings.base
    transaction,    \* command, and start and end index of its target
    svrRAW,     \* the session in the file, Empty if there is none
    boot,       \* "started", "loading" (the file is read), "up"
    svrsettings,    \* what srv_Load has read
    saving,     \* Socket_Receive_Thread: None, Handled, then what srv_Save
                \* has copied and is about to write; None: the answer goes out
    request,    \* the peer's request on its way, None
    answer,     \* its answer: on its way, or Silent when none will come
    phase,      \* what the peer is doing
    asked,      \* its last request
    got,        \* the objects it has read so far
    reads, faults,
    disturbed   \* history: during this read the session was changed by the
                \* other peer's request, or by srv_Load after a request of
                \* this run
settings == <<connected, clientAddress, blockIndex, maxPduSize, transaction>>
setup    == <<scenario, list, newMDM>>
disk     == <<svrRAW, boot, svrsettings>>
peers    == <<phase, asked, got, reads>>
vars     == <<setup, settings, disk, saving, request, answer, peers, faults,
              disturbed>>

None     == [what |-> "none"]
Silent   == [what |-> "silent"]
Empty    == [what |-> "empty"]
Handled  == [what |-> "handled"]
AARQ     == [what |-> "AARQ"]
Get      == [what |-> "GET"]
NextBlock(n) == [what |-> "next", block |-> n]
RLRQ     == [what |-> "RLRQ"]
AARE     == [what |-> "AARE"]
RLRE     == [what |-> "RLRE"]
Failure  == [what |-> "failure"]   \* an exception or an error, or no data
Whole    == [what |-> "whole"]
Block(n, last, from, to) ==
    [what |-> "block", block |-> n, last |-> last, from |-> from, to |-> to]

NoTransaction == [command |-> "NONE", start |-> 0, end |-> 0]

Init ==
    /\ scenario \in Scenarios
    /\ list \in Lists /\ newMDM \in BOOLEAN
    /\ connected = FALSE /\ clientAddress = 0 /\ blockIndex = 1
    /\ maxPduSize = 65535 /\ transaction = NoTransaction
    /\ svrRAW = Empty /\ boot = "up" /\ svrsettings = Empty
    /\ saving = None
    /\ request = [c \in Peers |-> None] /\ answer = [c \in Peers |-> None]
    /\ phase = [c \in Peers |-> "off"] /\ asked = [c \in Peers |-> None]
    /\ got = [c \in Peers |-> << >>]
    /\ reads = [c \in Peers |-> 0] /\ faults = 0
    /\ disturbed = [c \in Peers |-> FALSE]

Fault == faults < scenario.faults /\ faults' = faults + 1

Address(c) == scenario.address[c]

-----------------------------------------------------------------------------
(* The list in blocks *)

Items(from, to) == [i \in 1..(to - from) |-> from + i]

(* getLNObjects: objects are added until one is too many for the PDU *)
Filled(from) ==
    Max({to \in from..Len(list) :
            MapThenSumSet(LAMBDA i : list[i], (from + 1)..to) <= maxPduSize})

(* ... and where its target stands then: at 0, 0 when the list is through *)
Skipped(target, to) ==   \* mutant: the object that did not fit is counted
    IF to = Len(list) THEN [target EXCEPT !.start = 0, !.end = 0]
    ELSE [target EXCEPT !.start = to + 1]
After(target, to) ==
    IF to = Len(list) THEN [target EXCEPT !.start = 0, !.end = 0]
    ELSE [target EXCEPT !.start = to]

FirstBlock ==
    After([command |-> "GET", start |-> 0, end |-> Len(list)], Filled(0))

-----------------------------------------------------------------------------
(* The session *)

(* svr_setInitialize does not touch the client's address, svr_reset forgets *)
(* it; neither changes the size of a PDU                                   *)
svr_setInitialize(client) ==
    /\ blockIndex' = 1 /\ transaction' = NoTransaction
    /\ clientAddress' = client
svr_reset ==
    /\ svr_setInitialize(0) /\ connected' = FALSE
    /\ UNCHANGED maxPduSize

(* A thread is at recv() and has read the peer's request *)
Received(c) == request[c] # None /\ (c = "client" => saving = None)

(* dlms_checkWrapperAddress; Socket_Receive_Thread resets the session      *)
(* first when an AARQ comes and the MDM is of the old version              *)
Accepted(c) ==
    \/ clientAddress \in {0, Address(c)}
    \/ c = "client" /\ ~newMDM /\ request[c] = AARQ

Reply(c, a) ==
    /\ request' = [request EXCEPT ![c] = None]
    /\ answer' = [answer EXCEPT ![c] = a]
    /\ saving' = IF c = "client" THEN Handled ELSE saving
    /\ UNCHANGED <<setup, disk, peers>>

Disturb(c) ==
    disturbed' = [p \in Peers |->
        disturbed[p] \/ (phase[p] = "reading" /\ (p # c \/ boot # "up"))]

Handle(c, what) ==
    /\ Received(c) /\ Accepted(c) /\ request[c].what = what
    /\ Disturb(c)

(* Another client address: no answer *)
HandleOther(c) ==
    /\ Received(c) /\ ~Accepted(c)
    /\ Reply(c, Silent)
    /\ UNCHANGED <<settings, faults, disturbed>>

HandleAARQ(c) ==
    /\ Handle(c, "AARQ")
    /\ svr_setInitialize(Address(c)) /\ connected' = TRUE
    /\ maxPduSize' \in Rooms
    /\ Reply(c, AARE)
    /\ UNCHANGED faults

(* svr_handleRequest4: inactivityTimeout of processor time has gone by *)
HandleInactive(c) ==
    /\ Received(c) /\ Accepted(c) /\ request[c] # AARQ
    /\ Fault
    /\ svr_reset
    /\ Reply(c, Silent)
    /\ UNCHANGED disturbed

HandleRefused(c) ==
    /\ \/ Handle(c, "GET")
       \/ Handle(c, "next")
    /\ ~connected
    /\ clientAddress' = Address(c)
    /\ Reply(c, Failure)
    /\ UNCHANGED <<connected, blockIndex, maxPduSize, transaction, faults>>

(* svr_getRequestNormal *)
HandleGet(c) ==
    /\ Handle(c, "GET") /\ connected
    /\ blockIndex' = 1
    /\ IF Filled(0) = Len(list)
       THEN Reply(c, Whole) /\ UNCHANGED transaction
       ELSE /\ transaction' = FirstBlock
            /\ Reply(c, Block(1, FALSE, 0, Filled(0)))
    /\ UNCHANGED <<connected, clientAddress, maxPduSize, faults>>

(* svr_getRequestNextDataBlock.  Without a transaction the index is moved  *)
(* all the same, and the answer has no data.                               *)
BlockAhead(c) == request[c].block = blockIndex + 1   \* mutant: counted twice
BlockAsked(c) == request[c].block = blockIndex
HandleNext(c) ==
    /\ Handle(c, "next") /\ connected
    /\ LET from == transaction.start
           to   == Filled(from)
           now  == After(transaction, to)
       IN  \/ /\ ~BlockAsked(c)
              /\ Reply(c, Failure)
              /\ UNCHANGED <<blockIndex, transaction>>
           \/ /\ BlockAsked(c) /\ transaction.command = "NONE"
              /\ Reply(c, Failure)
              /\ blockIndex' = blockIndex + 1
              /\ UNCHANGED transaction
           \/ /\ BlockAsked(c) /\ transaction.command # "NONE"
              /\ blockIndex' = blockIndex + 1
              /\ transaction' = now
              /\ Reply(c, Block(blockIndex + 1, ~(now.start < now.end),
                                from, to))
    /\ UNCHANGED <<connected, clientAddress, maxPduSize, faults>>

HandleRelease(c) ==
    /\ Handle(c, "RLRQ")
    /\ svr_reset
    /\ Reply(c, RLRE)
    /\ UNCHANGED faults

Serve(c) ==
    \/ HandleOther(c) \/ HandleAARQ(c) \/ HandleRefused(c) \/ HandleGet(c)
    \/ HandleNext(c) \/ HandleRelease(c)

-----------------------------------------------------------------------------
(* srv_Save, srv_Load and the faults *)

Session == [what |-> "session", connected |-> connected,
            clientAddress |-> clientAddress, blockIndex |-> blockIndex,
            maxPduSize |-> maxPduSize]

(* srv_Save: the fields are copied and the file is emptied, then written *)
OpenFile ==
    /\ saving = Handled
    /\ saving' = Session /\ svrRAW' = Empty
    /\ UNCHANGED <<setup, settings, boot, svrsettings, request, answer, peers,
                   faults, disturbed>>

WriteFile ==
    /\ saving.what = "session"
    /\ svrRAW' = saving /\ saving' = None
    /\ UNCHANGED <<setup, settings, boot, svrsettings, request, answer, peers,
                   faults, disturbed>>

(* Whoever waits for an answer among peers will not get it *)
NoAnswer(waiting) ==
    /\ request' = [c \in Peers |-> IF c \in waiting THEN None ELSE request[c]]
    /\ answer' = [c \in Peers |->
                     IF /\ c \in waiting
                        /\ request[c] # None \/ answer[c] # None
                     THEN Silent ELSE answer[c]]

(* The power fails, and the firmware starts again *)
Restart ==
    /\ Fault
    /\ connected' = FALSE /\ clientAddress' = 0 /\ blockIndex' = 1
    /\ maxPduSize' = 65535 /\ transaction' = NoTransaction
    /\ boot' = "started" /\ svrsettings' = Empty
    /\ saving' = None
    /\ NoAnswer(Peers)
    /\ UNCHANGED <<setup, svrRAW, peers, disturbed>>

(* srv_Load, while both threads serve: the file, then the fields *)
ReadFile ==
    /\ boot = "started"
    /\ boot' = "loading" /\ svrsettings' = svrRAW
    /\ UNCHANGED <<setup, settings, svrRAW, saving, request, answer, peers,
                   faults, disturbed>>

Load ==
    /\ boot = "loading"
    /\ boot' = "up" /\ svrsettings' = Empty
    /\ IF svrsettings = Empty THEN UNCHANGED settings
       ELSE /\ connected' = svrsettings.connected
            /\ clientAddress' = svrsettings.clientAddress
            /\ blockIndex' = svrsettings.blockIndex
            /\ maxPduSize' = svrsettings.maxPduSize
            /\ UNCHANGED transaction
    /\ UNCHANGED <<setup, svrRAW, saving, request, answer, peers, faults,
                   disturbed>>

(* The connection is lost and made again *)
Disconnect(c) ==
    /\ Fault /\ (c = "client" => saving = None)
    /\ NoAnswer({c})
    /\ IF newMDM THEN svr_reset ELSE UNCHANGED settings
    /\ UNCHANGED <<setup, disk, saving, peers, disturbed>>

(* ... which Socket_Send_Thread, or the thread at its recv(), may notice    *)
(* only when the next one is in use                                        *)
LateReset ==
    /\ newMDM /\ Fault
    /\ svr_reset
    /\ UNCHANGED <<setup, disk, saving, request, answer, peers, disturbed>>

(* The answer is written over in the socket mailbox *)
Lose(c) ==
    /\ Fault /\ answer[c] \notin {None, Silent}
    /\ answer' = [answer EXCEPT ![c] = Silent]
    /\ UNCHANGED <<setup, settings, disk, saving, request, peers, disturbed>>

-----------------------------------------------------------------------------
(* The peers *)

Come(c)  == answer[c] # None /\ (c = "client" => saving = None)
Ready(c) == request[c] = None /\ answer[c] = None

Ask(c, r) ==
    /\ request' = [request EXCEPT ![c] = r] /\ asked' = [asked EXCEPT ![c] = r]
    /\ answer' = [answer EXCEPT ![c] = None]
    /\ UNCHANGED <<setup, settings, disk, saving, faults>>

Begin(c) ==
    /\ reads[c] < scenario.reads[c]
    /\ reads' = [reads EXCEPT ![c] = @ + 1]

Becomes(c, p) == phase' = [phase EXCEPT ![c] = p]

Forget(c) ==
    /\ got' = [got EXCEPT ![c] = << >>]
    /\ disturbed' = [disturbed EXCEPT ![c] = FALSE]

AskList(c) ==
    /\ Ask(c, Get) /\ Becomes(c, "reading")
    /\ Forget(c)

Associate(c) ==
    /\ phase[c] = "off" /\ Ready(c)
    /\ Begin(c)
    /\ Ask(c, AARQ) /\ Becomes(c, "associating")
    /\ UNCHANGED <<got, disturbed>>

ReadAgain(c) ==
    /\ phase[c] = "done" /\ Ready(c)
    /\ Begin(c)
    /\ AskList(c)

Release(c) ==
    /\ phase[c] = "done" /\ Ready(c)
    /\ Ask(c, RLRQ) /\ Becomes(c, "releasing")
    /\ Forget(c)
    /\ UNCHANGED reads

Associated(c) ==
    /\ phase[c] = "associating" /\ Come(c) /\ answer[c] = AARE
    /\ AskList(c)
    /\ UNCHANGED reads

(* The number of the block that answers the last request *)
Expected(c) == IF asked[c] = Get THEN 1 ELSE asked[c].block + 1

Good(c) == answer[c].what = "block" /\ answer[c].block = Expected(c)

Read(c, items) ==
    /\ got' = [got EXCEPT ![c] = @ \o items]
    /\ UNCHANGED <<reads, disturbed>>

Finish(c) ==
    /\ Becomes(c, "done")
    /\ answer' = [answer EXCEPT ![c] = None]
    /\ asked' = [asked EXCEPT ![c] = None]
    /\ UNCHANGED <<setup, settings, disk, saving, faults, request>>

TakeBlock(c) ==
    /\ phase[c] = "reading" /\ Come(c) /\ Good(c)
    /\ Read(c, Items(answer[c].from, answer[c].to))
    /\ IF answer[c].last THEN Finish(c)
       ELSE Ask(c, NextBlock(answer[c].block)) /\ UNCHANGED phase

TakeWhole(c) ==
    /\ phase[c] = "reading" /\ Come(c) /\ answer[c] = Whole
    /\ Read(c, Items(0, Len(list)))
    /\ Finish(c)

(* No answer has come in time: the same again *)
Retry(c) ==
    /\ phase[c] \in {"associating", "reading"} /\ Come(c) /\ answer[c] = Silent
    /\ Ask(c, asked[c])
    /\ UNCHANGED <<phase, got, reads, disturbed>>

(* ... or a new association, as after an error *)
Reassociate(c) ==
    /\ Come(c)
    /\ \/ phase[c] = "associating" /\ answer[c] # AARE
       \/ phase[c] = "reading" /\ ~Good(c) /\ answer[c] # Whole
    /\ Ask(c, AARQ) /\ Becomes(c, "associating")
    /\ Forget(c)
    /\ UNCHANGED reads

Released(c) ==
    /\ phase[c] = "releasing" /\ Come(c)
    /\ Becomes(c, "off")
    /\ answer' = [answer EXCEPT ![c] = None]
    /\ asked' = [asked EXCEPT ![c] = None]
    /\ UNCHANGED <<setup, settings, disk, saving, faults, request, got, reads,
                   disturbed>>

Proceed(c) ==
    \/ Associated(c) \/ TakeBlock(c) \/ TakeWhole(c) \/ Retry(c)
    \/ Reassociate(c) \/ Released(c)

-----------------------------------------------------------------------------
Next ==
    \/ \E c \in Peers :
          \/ Serve(c) \/ HandleInactive(c) \/ Disconnect(c) \/ Lose(c)
          \/ Associate(c) \/ ReadAgain(c) \/ Release(c) \/ Proceed(c)
    \/ OpenFile \/ WriteFile \/ LateReset \/ Restart \/ ReadFile \/ Load

Spec == Init /\ [][Next]_vars

(* The threads and the peers go on; nobody has to begin or to release *)
FairSpec ==
    /\ Spec
    /\ \A c \in Peers : WF_vars(Serve(c)) /\ WF_vars(Proceed(c))
    /\ WF_vars(OpenFile \/ WriteFile) /\ WF_vars(ReadFile \/ Load)

-----------------------------------------------------------------------------
(* Properties *)

(* What a peer has put together from the blocks is the beginning of the    *)
(* object list, each object once and in order, and the whole of it when    *)
(* the last block has come: whatever transaction an earlier read of it or  *)
(* of the other peer has left, whichever requests are repeated, and        *)
(* through lost sessions and restarts, after which the block index is back *)
(* and the transaction is not.  A read into which the other peer's request *)
(* fell, or srv_Load after it had begun, is no such read.                  *)
ReadIsWhole ==
    \A c \in Peers :
        /\ phase[c] = "reading" /\ ~disturbed[c]
               => got[c] = Items(0, Len(got[c]))
        /\ phase[c] = "done" /\ ~disturbed[c] => got[c] = Items(0, Len(list))

(* A read is ended, after as many new associations as it takes, once the   *)
(* other peer is quiet: no answer, no session brought back by srv_Load and *)
(* no transaction left behind keeps a peer from its list for ever.  Both   *)
(* peers use one client address: with two, the session of one shuts the    *)
(* other out until it ends.                                                *)
Quiet(c) == phase[c] \in {"off", "done"}
EveryReadEnds ==
    \A c \in Peers :
        Address(c) = Address(Other(c)) /\ <>[]Quiet(Other(c))
            => (phase[c] = "reading" ~> phase[c] = "done")
=============================================================================
