------------------------- MODULE MdmMailboxProofs -------------------------
(***************************************************************************)
(* InOrder and MuteOnlyLater for every scenario and every number of        *)
(* connections.                                                            *)
(*                                                                         *)
(* InOrder, of a peer p that is served alone: its request, and then the    *)
(* answer to it, is in one place at a time - with the gateway or its       *)
(* mailbox, with the thread that handles it, or counted in the buffer -    *)
(* and is the one p waits for (One).  Only while the last answer is being  *)
(* logged may TX_Count be another's, and nothing reads it then.  A new     *)
(* connection is made only when nothing is under way (NewOnlyIdle), so no  *)
(* answer can come to the wrong one.                                       *)
(*                                                                         *)
(* MuteOnlyLater: a send() that fails on the server's first connection has *)
(* found it gone, and only a second one can come after it (FirstHeard).    *)
(***************************************************************************)
EXTENDS MdmMailbox, TLAPS

(* The name of the answer p waits for *)
Awaited(p) == [peer |-> p, conn |-> number[p], serial |-> done[p] + 1]

(* The peer's connection, and the other peer, who has none *)
Lines(p) ==
    /\ fd[p] = number[p]
    /\ open[p] <=> number[p] # 0
    /\ waiting[p] => number[p] # 0
    /\ Connected[p] => number[p] # 0
    /\ p = "client" => thread[p] \notin {"accept", "closed"}
    /\ p = "server" =>
          /\ thread[p] \notin {"poll", "closed"}
          /\ thread[p] = "accept" <=> number[p] = 0
          /\ number[p] \in {0, 1}
          /\ recvOn[p] = number[p]

Absent(q) ==
    /\ ~Connected[q] /\ reply[q] = None
    /\ thread[q] = (IF q = "client" THEN "poll" ELSE "accept")
    /\ got[q] = << >>

(* Requests and answers under way *)
AtHand(m, p)  == m # None => m = Awaited(p) /\ waiting[p]
Places(p) ==
    /\ AtHand(RX, p) /\ AtHand(gateway, p) /\ AtHand(reply[p], p)
    /\ gateway = None <=> gatewayAt = "wait"
    /\ reply[p] = None <=> thread[p] \notin {"handling", "copied"}
    /\ gatewayAt = "copied" => TX = Awaited(p)
    /\ thread[p] = "copied" => TX = Awaited(p)

One(p) ==
    /\ gateway # None => RX = None
    /\ reply[p] # None => RX = None /\ gateway = None

Clear(p) == RX = None /\ gateway = None /\ reply[p] = None

Counted(p) ==
    /\ sender \in {"testServer", "testClient", Call(p), Log(p)}
    /\ sender # Log(p) /\ TX_Count # None =>
          /\ TX_Count = Awaited(p) /\ TX = Awaited(p) /\ waiting[p]
          /\ Clear(p)
    /\ sender = Call(p) => TX_Count # None

(* A new connection may come, or has come and recv() is still on the old *)
NewComes(p) ==
    \/ p = "client" /\ ~Connected[p]
    \/ p = "client" /\ thread[p] = "recv" /\ recvOn[p] # number[p]
    \/ p = "server" /\ thread[p] = "accept"

NewOnlyIdle(p) ==
    /\ NewComes(p) => Clear(p) /\ Quiet
    /\ p = "client" /\ ~Connected[p] /\ thread[p] = "recv" =>
          waiting[p] \/ recvOn[p] # number[p]
    /\ recvOn[p] <= number[p]

(* What p has received *)
Received(p) ==
    \A i \in DOMAIN got[p] :
        /\ Own(p, got[p][i])
        /\ got[p][i].octets.serial <= done[p]
        /\ \A j \in 1..(i-1) : got[p][j].octets.serial < got[p][i].octets.serial

AloneInv(p) ==
    /\ \A q \in Peers \ {p} : Absent(q)
    /\ manager = "loop"
    /\ drops = 0
    /\ Lines(p) /\ Places(p) /\ One(p) /\ Counted(p) /\ NewOnlyIdle(p)
    /\ Received(p)

OrderInv == scenario.drops = 0 => \A p \in Peers : Alone(p) => AloneInv(p)

(* The server's first connection *)
FirstHeard ==
    /\ Connected["server"] \/ thread["server"] # "accept"
         \/ sender \in {"callServer", "failServer"} => number["server"] # 0
    /\ number["server"] = 1 /\ sender = "failServer" =>
          fd["server"] = 0 \/ ~open["server"]
    /\ number["server"] = 1 /\ thread["server"] = "closed" => fd["server"] = 0
    /\ number["server"] = 1 /\ fd["server"] # 0 /\ open["server"] =>
          Connected["server"]

-----------------------------------------------------------------------------
(* The variables keep to their types.                                      *)

LEMMA NoneIsMessage == None \in Message
  BY DEF Message

LEMMA Named ==
    ASSUME NEW p \in Peers \cup {"push"}, NEW n \in Nat, NEW k \in Nat
    PROVE  [peer |-> p, conn |-> n, serial |-> k] \in Message
  BY DEF Message

LEMMA Appended ==
    ASSUME NEW S, NEW seq \in Seq(S), NEW e \in S
    PROVE  Append(seq, e) \in Seq(S)
  OBVIOUS

LEMMA ElementOfSeq ==
    ASSUME NEW S, NEW seq \in Seq(S), NEW i \in 1..Len(seq)
    PROVE  seq[i] \in S
  OBVIOUS

THEOREM TypeCorrect == Spec => []TypeOK
<1>1. Init => TypeOK
  BY NoneIsMessage DEF Init, TypeOK, Peers
<1>2. TypeOK /\ [Next]_vars => TypeOK'
  <2> SUFFICES ASSUME TypeOK, [Next]_vars PROVE TypeOK'
    OBVIOUS
  <2> USE NoneIsMessage DEF TypeOK
  <2>1. CASE Manage
    <3>1. CASE GetOpen
      BY <3>1 DEF GetOpen, NewConnection, Peers
    <3>2. [peer |-> "push", conn |-> number["client"], serial |-> 0] \in Message
      BY Named DEF Peers
    <3>3. CASE PushOctets
      BY <3>2, <3>3 DEF PushOctets, PutOctets, conns, mdm
    <3>4. CASE PushCount
      BY <3>2, <3>4 DEF PushCount, PutCount, conns, mdm
    <3>5. CASE DropIdle
      BY <3>5 DEF DropIdle, writers, mdm
    <3> QED
      BY <2>1, <3>1, <3>3, <3>4, <3>5 DEF Manage
  <2>2. CASE Accept
    BY <2>2 DEF Accept, NewConnection, writers, Peers
  <2>3. CASE Listen
    <3>1. CASE ListenEnd
      BY <3>1 DEF ListenEnd, writers, mdm
    <3>2. CASE ListenClosed
      BY <3>2 DEF ListenClosed, LowerFlag, writers, mdm
    <3> QED
      BY <2>3, <3>1, <3>2 DEF Listen
  <2>4. CASE Gateway
    <3>1. CASE GatewayTake
      BY <3>1 DEF GatewayTake, conns, mdm
    <3>2. CASE GatewaySegment \/ GatewayOctets
      BY <3>2 DEF GatewaySegment, GatewayOctets, GatewayCopies, Overruns, conns, mdm
    <3>3. CASE GatewayCount
      BY <3>3 DEF GatewayCount, PutCount, conns, mdm
    <3> QED
      BY <2>4, <3>1, <3>2, <3>3 DEF Gateway
  <2>5. CASE Send
    <3>1. PICK p \in Peers : SendTest(p) \/ SendCall(p) \/ SendFails(p)
                               \/ SendKills(p) \/ SendLogged(p) \/ SendFailed(p)
      BY <2>5 DEF Send
    <3>2. CASE SendTest(p)
      BY <3>2 DEF SendTest, Call, Past, conns, writers, mdm
    <3>3. CASE SendCall(p)
      <4>1. Log(p) \in {"logServer", "logClient"}
        BY DEF Log
      <4>2. [octets |-> TX, count |-> TX_Count] \in [octets : Message, count : Message]
        OBVIOUS
      <4>3. CASE Deliver(p) /\ open[p] /\ fd[p] = number[p]
        <5>1. got' \in [Peers -> Seq([octets : Message, count : Message])]
          <6>1. got' = [got EXCEPT ![p] =
                           Append(@, [octets |-> TX, count |-> TX_Count])]
            BY <4>3 DEF Deliver
          <6>2. Append(got[p], [octets |-> TX, count |-> TX_Count])
                    \in Seq([octets : Message, count : Message])
            BY <4>2, Appended
          <6> QED
            BY <6>1, <6>2
        <5>2. done' \in [Peers -> Nat]
          <6>1. done' = [done EXCEPT ![p] = IF IsAnswer(p) THEN @ + 1 ELSE @]
            BY <4>3 DEF Deliver
          <6>2. (IF IsAnswer(p) THEN done[p] + 1 ELSE done[p]) \in Nat
            OBVIOUS
          <6> QED
            BY <6>1, <6>2
        <5>3. waiting' \in [Peers -> BOOLEAN]
          <6>1. waiting' = [waiting EXCEPT ![p] = @ /\ ~IsAnswer(p)]
            BY <4>3 DEF Deliver
          <6>2. (waiting[p] /\ ~IsAnswer(p)) \in BOOLEAN
            BY Zenon
          <6> QED
            BY <6>1, <6>2, Zenon
        <5> QED
          BY <3>3, <4>1, <5>1, <5>2, <5>3 DEF SendCall, conns, writers
      <4>4. CASE UNCHANGED mdm
        BY <3>3, <4>1, <4>4 DEF SendCall, conns, writers, mdm
      <4> QED
        BY <3>3, <4>3, <4>4 DEF SendCall, Deliver
    <3>4. CASE SendFails(p)
      BY <3>4 DEF SendFails, Fail, conns, writers, mdm
    <3>5. CASE SendLogged(p)
      BY <3>5 DEF SendLogged, ForgetAnswer, Past, conns, writers, mdm
    <3>6. CASE SendFailed(p)
      BY <3>6 DEF SendFailed, FlagOf, Past, conns, writers, mdm
    <3>7. CASE SendKills(p)
      BY <3>7 DEF SendKills, conns, writers, mdm
    <3> QED
      BY <3>1, <3>2, <3>3, <3>4, <3>5, <3>6, <3>7
  <2>6. CASE Upset
    <3>0. Drop => drops' \in Nat
      BY DEF Drop
    <3>1. CASE GatewayGivesUp
      BY <3>0, <3>1 DEF GatewayGivesUp, conns, mdm
    <3>2. CASE HandleFails
      BY <3>0, <3>2 DEF HandleFails, mdm
    <3>3. CASE \E p \in Peers : PeerLeaves(p)
      BY <3>0, <3>3 DEF PeerLeaves, writers, mdm
    <3>4. CASE SocketFails
      BY <3>0, <3>4 DEF SocketFails, mdm, Peers
    <3> QED
      BY <2>6, <3>1, <3>2, <3>3, <3>4 DEF Upset
  <2>7. CASE \E p \in Peers : Handle(p)
    <3>1. PICK p \in Peers : Handle(p)
      BY <2>7
    <3>2. CASE CopyAnswer(p)
      BY <3>2 DEF CopyAnswer, PutOctets, conns, writers, mdm
    <3>3. CASE CountAnswer(p)
      BY <3>3 DEF CountAnswer, PutCount, conns, mdm
    <3>4. CASE ReceiveCall
      BY <3>4 DEF ReceiveCall, conns, writers, mdm, Peers
    <3>5. CASE ReceiveEnd
      BY <3>5 DEF ReceiveEnd, LowerFlag, writers, mdm
    <3> QED
      BY <3>1, <3>2, <3>3, <3>4, <3>5 DEF Handle
  <2>8. CASE \E p \in Peers : Request(p)
    <3>1. PICK p \in Peers, kind \in {"cosem", "meter"} : Receive(p, kind)
      BY <2>8 DEF Request
    <3>2. [peer |-> p, conn |-> number[p], serial |-> done[p] + 1] \in Message
      BY Named
    <3>3. waiting' \in [Peers -> BOOLEAN]
      BY <3>1 DEF Receive
    <3>4. RX' \in Message /\ reply' \in [Peers -> Message]
      <4> DEFINE request == [peer |-> p, conn |-> number[p], serial |-> done[p] + 1]
      <4>1. /\ kind = "meter" => RX' = request /\ UNCHANGED reply
            /\ kind # "meter" => reply' = [reply EXCEPT ![p] = request] /\ UNCHANGED RX
        BY <3>1 DEF Receive
      <4>2. request \in Message
        BY <3>2
      <4> HIDE DEF request
      <4> QED BY <4>1, <4>2
    <3>5. thread' \in [Peers -> {"poll", "accept", "recv", "closed", "handling", "copied"}]
      BY <3>1 DEF Receive
    <3>6. UNCHANGED <<scenario, open, number, Connected, fd, recvOn, manager, gateway, gatewayAt,
                      TX, TX_Count, sender, done, got, drops>>
      BY <3>1 DEF Receive, conns
    <3> QED
      BY <3>3, <3>4, <3>5, <3>6
  <2>9. CASE UNCHANGED vars
    BY <2>9 DEF vars, conns, writers, mdm
  <2> QED
    BY <2>1, <2>2, <2>3, <2>4, <2>5, <2>6, <2>7, <2>8, <2>9 DEF Next
<1> QED
  BY <1>1, <1>2, PTL DEF Spec

-----------------------------------------------------------------------------
(* A send() that fails on an old connection can lower the flag of the next *)
(* one, never that of the server's first.                                  *)

LEMMA FirstStep ==
    ASSUME TypeOK, FirstHeard, [Next]_vars
    PROVE  FirstHeard'
<1>0. /\ number["server"] \in Nat /\ fd["server"] \in Nat /\ drops \in Nat
      /\ DOMAIN number = Peers /\ DOMAIN fd = Peers /\ DOMAIN open = Peers
      /\ DOMAIN Connected = Peers /\ DOMAIN thread = Peers
      /\ "server" \in Peers /\ "client" \in Peers
  BY DEF TypeOK, Peers
<1> USE DEF FirstHeard
<1>1. CASE Manage
  <2>1. CASE GetOpen
    BY <1>0, <2>1 DEF GetOpen, NewConnection
  <2>2. CASE DropIdle
    BY <1>0, <2>2 DEF DropIdle
  <2>3. CASE PushOctets \/ PushCount
    BY <2>3 DEF PushOctets, PushCount, conns
  <2> QED
    BY <1>1, <2>1, <2>2, <2>3 DEF Manage
<1>2. CASE Accept
  BY <1>0, <1>2 DEF Accept, NewConnection
<1>3. CASE Listen
  <2>1. CASE ListenEnd
    BY <1>0, <2>1 DEF ListenEnd, RecvEnds
  <2>2. CASE ListenClosed
    BY <1>0, <2>2 DEF ListenClosed, LowerFlag
  <2> QED
    BY <1>3, <2>1, <2>2 DEF Listen
<1>4. CASE Gateway
  BY <1>4 DEF Gateway, GatewayTake, GatewaySegment, GatewayOctets, GatewayCopies,
              GatewayCount, conns
<1>5. CASE Send
  <2>1. PICK p \in Peers : SendTest(p) \/ SendCall(p) \/ SendFails(p)
                             \/ SendKills(p) \/ SendLogged(p) \/ SendFailed(p)
    BY <1>5 DEF Send
  <2>2. CASE SendTest(p)
    BY <1>0, <2>2 DEF SendTest, Call, Past, conns, Peers
  <2>3. CASE SendCall(p)
    BY <1>0, <2>3 DEF SendCall, Log, conns
  <2>4. CASE SendFails(p)
    BY <1>0, <2>4 DEF SendFails, Call, Fail, conns, Peers
  <2>5. CASE SendLogged(p)
    BY <1>0, <2>5 DEF SendLogged, Past, conns
  <2>6. CASE SendFailed(p)
    BY <1>0, <2>6 DEF SendFailed, Fail, FlagOf, Past, Peers
  <2>7. CASE SendKills(p)
    BY <2>7 DEF SendKills, conns
  <2> QED
    BY <2>1, <2>2, <2>3, <2>4, <2>5, <2>6, <2>7
<1>6. CASE Upset
  <2>1. CASE GatewayGivesUp
    BY <2>1 DEF GatewayGivesUp, conns
  <2>2. CASE HandleFails
    BY <1>0, <2>2 DEF HandleFails
  <2>3. CASE \E p \in Peers : PeerLeaves(p)
    BY <1>0, <2>3 DEF PeerLeaves
  <2>4. CASE SocketFails
    BY <1>0, <2>4 DEF SocketFails
  <2> QED
    BY <1>6, <2>1, <2>2, <2>3, <2>4 DEF Upset
<1>7. CASE \E p \in Peers : Handle(p)
  <2>1. PICK p \in Peers : Handle(p)
    BY <1>7
  <2>2. CASE CopyAnswer(p)
    BY <1>0, <2>2 DEF CopyAnswer, conns
  <2>3. CASE CountAnswer(p)
    BY <1>0, <2>3 DEF CountAnswer, conns, Peers
  <2>4. CASE ReceiveCall
    BY <1>0, <2>4 DEF ReceiveCall, conns
  <2>5. CASE ReceiveEnd
    BY <1>0, <2>5 DEF ReceiveEnd, LowerFlag
  <2> QED
    BY <2>1, <2>2, <2>3, <2>4, <2>5 DEF Handle
<1>8. CASE \E p \in Peers : Request(p)
  BY <1>0, <1>8 DEF Request, Receive, conns, Peers
<1>9. CASE UNCHANGED vars
  BY <1>9 DEF vars, conns
<1> QED
  BY <1>1, <1>2, <1>3, <1>4, <1>5, <1>6, <1>7, <1>8, <1>9 DEF Next

THEOREM FirstIsNeverMute == Spec => []MuteOnlyLater
<1>1. Init => FirstHeard
  BY DEF Init, FirstHeard, Peers
<1>2. TypeOK /\ FirstHeard /\ [Next]_vars => FirstHeard'
  BY FirstStep
<1>3. TypeOK /\ FirstHeard => MuteOnlyLater
  <2>1. TypeOK => number["server"] \in Nat
    BY DEF TypeOK, Peers
  <2> QED
    BY <2>1 DEF FirstHeard, MuteOnlyLater, Mute
<1> QED
  BY <1>1, <1>2, <1>3, TypeCorrect, PTL DEF Spec

-----------------------------------------------------------------------------
(* A peer that is served alone gets its own answers, whole and in order.   *)

LEMMA AloneStep ==
    ASSUME TypeOK, NEW p \in Peers, Alone(p), scenario.drops = 0, AloneInv(p),
           [Next]_vars
    PROVE  AloneInv(p)'
<1> DEFINE q == IF p = "client" THEN "server" ELSE "client"
<1>0. /\ p \in {"client", "server"} /\ Peers = {p, q} /\ q # p
      /\ q = "client" \/ q = "server"
      /\ Peers = {"client", "server"}
  BY DEF Peers
<1>t. /\ number[p] \in Nat /\ fd[p] \in Nat /\ done[p] \in Nat
      /\ recvOn[p] \in Nat
      /\ DOMAIN number = Peers /\ DOMAIN fd = Peers /\ DOMAIN open = Peers
      /\ DOMAIN Connected = Peers /\ DOMAIN thread = Peers
      /\ DOMAIN recvOn = Peers /\ DOMAIN reply = Peers
      /\ DOMAIN waiting = Peers /\ DOMAIN done = Peers /\ DOMAIN got = Peers
  BY DEF TypeOK
<1>a. /\ Absent(q) /\ manager = "loop" /\ drops = 0
      /\ Lines(p) /\ Places(p) /\ One(p) /\ Counted(p) /\ NewOnlyIdle(p)
      /\ Received(p)
  BY <1>0 DEF AloneInv
<1>d. ~Drop
  BY <1>a DEF Drop
<1>n. Awaited(p) # None
  BY <1>0 DEF Awaited, None
<1>p. scenario.peers = {p} /\ scenario.push = FALSE
  BY DEF Alone
<1> SUFFICES /\ Absent(q)' /\ (manager = "loop")' /\ (drops = 0)'
             /\ Lines(p)' /\ Places(p)' /\ One(p)' /\ Counted(p)'
             /\ NewOnlyIdle(p)' /\ Received(p)'
  BY <1>0 DEF AloneInv
<1>1. ASSUME got' = got, number' = number, done' = done
      PROVE  Received(p)' /\ Awaited(p)' = Awaited(p)
  BY <1>a, <1>1 DEF Received, Own, Awaited
<1>2. CASE GetOpen
  <2>1. p = "client" /\ NewComes(p)
    BY <1>2, <1>p DEF GetOpen, NewComes
  <2>2. Clear(p) /\ Quiet
    BY <1>a, <2>1 DEF NewOnlyIdle
  <2>3. Absent(q)' /\ manager' = "loop" /\ drops' = 0
    BY <1>0, <1>t, <1>a, <1>p, <1>2, <2>1 DEF GetOpen, NewConnection, Absent
  <2>4. Lines(p)'
    BY <1>t, <1>a, <1>2, <2>1 DEF GetOpen, NewConnection, Lines
  <2>5. Places(p)' /\ One(p)' /\ Counted(p)'
    BY <1>t, <1>a, <1>2, <2>1, <2>2
    DEF GetOpen, Places, One, Counted, Clear, Quiet, AtHand, Call, Log
  <2>6. NewOnlyIdle(p)'
    BY <1>t, <1>a, <1>2, <2>1, <2>2
    DEF GetOpen, NewConnection, NewOnlyIdle, NewComes, Clear, Quiet
  <2>7. Received(p)'
    BY <1>t, <1>2, <2>1 DEF GetOpen, NewConnection, Received
  <2> QED
    BY <2>3, <2>4, <2>5, <2>6, <2>7
<1>3. CASE DropIdle
  <2>1. UNCHANGED <<open, number, fd, thread, recvOn, writers, RX, TX, TX_Count,
                    sender, mdm, drops>>
    BY <1>3 DEF DropIdle
  <2>2. p = "client"
    BY <1>0, <1>a, <1>3 DEF DropIdle, Absent
  <2>3. reply[p] = None
    BY <1>a, <1>3, <2>2 DEF DropIdle, Places
  <2>4. Absent(q)' /\ Lines(p)' /\ Counted(p)'
    BY <1>t, <1>a, <1>1, <1>3, <2>1, <2>2
    DEF DropIdle, Absent, Lines, Counted, Clear, writers, mdm
  <2>5. Places(p)' /\ One(p)'
    BY <1>a, <1>1, <2>1 DEF Places, One, AtHand, writers, mdm
  <2>6. NewOnlyIdle(p)'
    BY <1>t, <1>a, <1>3, <2>1, <2>2, <2>3
    DEF DropIdle, NewOnlyIdle, NewComes, Clear, Quiet, writers, mdm
  <2> QED
    BY <1>a, <1>1, <2>1, <2>4, <2>5, <2>6 DEF mdm, writers
<1>4. CASE Accept
  <2>1. p = "server" /\ NewComes(p)
    BY <1>4, <1>p DEF Accept, NewComes
  <2>2. Clear(p) /\ Quiet
    BY <1>a, <2>1 DEF NewOnlyIdle
  <2>3. Absent(q)' /\ manager' = "loop" /\ drops' = 0
    BY <1>0, <1>t, <1>a, <1>4, <2>1 DEF Accept, NewConnection, Absent, writers
  <2>4. Lines(p)'
    BY <1>t, <1>a, <1>4, <2>1 DEF Accept, NewConnection, Lines
  <2>5. Places(p)' /\ One(p)' /\ Counted(p)'
    BY <1>t, <1>a, <1>4, <2>1, <2>2
    DEF Accept, Places, One, Counted, Clear, Quiet, AtHand, Call, Log, writers
  <2>6. NewOnlyIdle(p)'
    BY <1>t, <1>a, <1>4, <2>1, <2>2
    DEF Accept, NewConnection, NewOnlyIdle, NewComes
  <2>7. Received(p)'
    BY <1>t, <1>4, <2>1 DEF Accept, NewConnection, Received
  <2> QED
    BY <2>3, <2>4, <2>5, <2>6, <2>7
<1>5. CASE GatewayTake
  <2>1. UNCHANGED <<conns, thread, recvOn, reply, manager, TX, TX_Count, sender,
                    mdm, drops>>
    BY <1>5 DEF GatewayTake
  <2>2. Absent(q)' /\ manager' = "loop" /\ drops' = 0 /\ Lines(p)'
    BY <1>a, <2>1 DEF Absent, Lines, conns, mdm
  <2>3. Places(p)' /\ One(p)' /\ Counted(p)' /\ NewOnlyIdle(p)'
    BY <1>a, <1>1, <1>5, <1>n, <2>1
    DEF GatewayTake, Places, One, Counted, NewOnlyIdle, NewComes, Clear, Quiet,
        AtHand, conns, mdm
  <2> QED
    BY <1>1, <2>1, <2>2, <2>3 DEF conns, mdm
<1>6. CASE GatewaySegment \/ GatewayOctets
  <2>1. /\ UNCHANGED <<conns, thread, recvOn, reply, manager, gateway, sender, mdm,
                       drops>>
        /\ TX' = gateway /\ RX' = None /\ TX_Count' = None
        /\ gatewayAt # "wait" /\ gatewayAt' # "wait"
    BY <1>6 DEF GatewaySegment, GatewayOctets, GatewayCopies, Overruns
  <2>2. Absent(q)' /\ manager' = "loop" /\ drops' = 0 /\ Lines(p)'
    BY <1>a, <2>1 DEF Absent, Lines, conns, mdm
  <2>3. gateway = Awaited(p) /\ gateway # None /\ TX' = Awaited(p)
    BY <1>a, <2>1 DEF Places, AtHand
  <2>4. sender # Call(p)
    BY <1>0, <1>a, <2>3 DEF Counted, Clear, Call, Log
  <2>5. Places(p)' /\ One(p)' /\ Counted(p)' /\ NewOnlyIdle(p)'
    BY <1>a, <1>1, <1>n, <2>1, <2>3, <2>4
    DEF Places, One, Counted, NewOnlyIdle, NewComes, Clear, Quiet, AtHand, conns,
        mdm
  <2> QED
    BY <1>1, <2>1, <2>2, <2>5 DEF conns, mdm
<1>7. CASE GatewayCount
  <2>1. UNCHANGED <<conns, thread, recvOn, reply, manager, RX, TX, sender, mdm,
                    drops>>
    BY <1>7 DEF GatewayCount, PutCount
  <2>2. Absent(q)' /\ manager' = "loop" /\ drops' = 0 /\ Lines(p)'
    BY <1>a, <2>1 DEF Absent, Lines, conns, mdm
  <2>3. /\ gateway = Awaited(p) /\ TX = Awaited(p) /\ TX_Count' = Awaited(p)
        /\ gateway' = None /\ gatewayAt' = "wait" /\ waiting[p]
        /\ RX = None /\ reply[p] = None /\ ~NewComes(p)
    BY <1>a, <1>n, <1>7
    DEF GatewayCount, PutCount, Places, One, AtHand, NewOnlyIdle, Clear
  <2>4. Places(p)' /\ One(p)' /\ Counted(p)' /\ NewOnlyIdle(p)'
    BY <1>a, <1>1, <1>n, <2>1, <2>3
    DEF Places, One, Counted, NewOnlyIdle, NewComes, Clear, AtHand, conns, mdm
  <2> QED
    BY <1>1, <2>1, <2>2, <2>4 DEF conns, mdm
<1>8. ~PushOctets /\ ~PushCount /\ ~Upset
  BY <1>a, <1>d
  DEF PushOctets, PushCount, Upset, GatewayGivesUp, HandleFails, SocketFails,
      PeerLeaves
<1>9. ~ListenEnd /\ ~ListenClosed
  <2>1. CASE p = "server"
    BY <1>a, <2>1 DEF ListenEnd, ListenClosed, RecvEnds, Lines
  <2>2. CASE q = "server"
    BY <1>a, <2>2 DEF ListenEnd, ListenClosed, RecvEnds, Absent
  <2> QED
    BY <1>0, <2>1, <2>2
<1>10. CASE ReceiveCall
  <2>1. UNCHANGED <<conns, writers, RX, TX, TX_Count, sender, mdm, drops>>
    BY <1>10 DEF ReceiveCall
  <2>2. p = "client" /\ Connected[p] /\ fd[p] = number[p]
    BY <1>0, <1>a, <1>10 DEF ReceiveCall, Absent, Lines
  <2>3. thread[p] = "poll" /\ thread'[p] = "recv" /\ thread'[q] = thread[q]
        /\ recvOn'[p] = number[p]
    BY <1>0, <1>t, <1>10, <2>2 DEF ReceiveCall
  <2>4. Absent(q)' /\ manager' = "loop" /\ drops' = 0 /\ Lines(p)'
    BY <1>0, <1>a, <2>1, <2>2, <2>3 DEF Absent, Lines, conns, mdm, writers
  <2>5. Places(p)' /\ One(p)' /\ Counted(p)'
    BY <1>a, <1>1, <2>1, <2>3
    DEF Places, One, Counted, Clear, AtHand, conns, mdm, writers
  <2>6. NewOnlyIdle(p)'
    BY <1>t, <2>1, <2>2, <2>3 DEF NewOnlyIdle, NewComes, conns
  <2> QED
    BY <1>1, <2>1, <2>4, <2>5, <2>6 DEF conns, mdm
<1>11. CASE ReceiveEnd
  <2>1. UNCHANGED <<open, number, fd, recvOn, writers, RX, TX, TX_Count, sender,
                    mdm, drops>>
    BY <1>11 DEF ReceiveEnd
  <2>2. p = "client" /\ thread[p] = "recv"
    BY <1>0, <1>a, <1>11 DEF ReceiveEnd, RecvEnds, Absent
  <2>3. /\ thread'[p] = "poll" /\ thread'[q] = thread[q]
        /\ ~Connected'[p] /\ Connected'[q] = Connected[q]
    BY <1>0, <1>t, <1>11, <2>2 DEF ReceiveEnd, LowerFlag
  <2>4. recvOn[p] # number[p]
    BY <1>t, <1>a, <1>11, <2>2 DEF ReceiveEnd, RecvEnds, Lines, NewOnlyIdle
  <2>5. Clear(p) /\ Quiet
    BY <1>a, <2>2, <2>4 DEF NewOnlyIdle, NewComes
  <2>6. Absent(q)' /\ manager' = "loop" /\ drops' = 0 /\ Lines(p)'
    BY <1>0, <1>a, <2>1, <2>2, <2>3 DEF Absent, Lines, mdm, writers
  <2>7. Places(p)' /\ One(p)' /\ Counted(p)'
    BY <1>a, <1>1, <2>1, <2>2, <2>3
    DEF Places, One, Counted, Clear, AtHand, mdm, writers
  <2>8. NewOnlyIdle(p)'
    BY <1>t, <1>a, <2>1, <2>2, <2>3, <2>5
    DEF NewOnlyIdle, NewComes, Clear, Quiet, writers
  <2> QED
    BY <1>1, <2>1, <2>6, <2>7, <2>8 DEF mdm, writers
<1>12. ASSUME NEW c \in Peers, CopyAnswer(c) PROVE AloneInv(p)'
  <2>1. UNCHANGED <<conns, recvOn, writers, RX, TX_Count, sender, mdm, drops>>
    BY <1>12 DEF CopyAnswer, PutOctets
  <2>2. c = p
    BY <1>0, <1>a, <1>12 DEF CopyAnswer, Absent
  <2>3. thread[p] = "handling" /\ thread'[p] = "copied" /\ thread'[q] = thread[q]
    BY <1>0, <1>t, <1>12, <2>2 DEF CopyAnswer
  <2>4. reply[p] = Awaited(p) /\ reply[p] # None /\ TX' = Awaited(p)
    BY <1>a, <1>12, <2>2, <2>3 DEF CopyAnswer, PutOctets, Places, AtHand
  <2>5. Absent(q)' /\ manager' = "loop" /\ drops' = 0 /\ Lines(p)'
    BY <1>0, <1>a, <2>1, <2>3 DEF Absent, Lines, conns, mdm, writers
  <2>6. Places(p)' /\ One(p)' /\ Counted(p)'
    BY <1>a, <1>1, <2>1, <2>3, <2>4
    DEF Places, One, Counted, Clear, AtHand, conns, mdm, writers
  <2>7. NewOnlyIdle(p)'
    BY <1>a, <2>1, <2>3, <2>4
    DEF NewOnlyIdle, NewComes, Clear, Quiet, conns, writers
  <2> QED
    BY <1>0, <1>1, <2>1, <2>5, <2>6, <2>7 DEF AloneInv, conns, mdm
<1>13. ASSUME NEW c \in Peers, CountAnswer(c) PROVE AloneInv(p)'
  <2>1. UNCHANGED <<conns, recvOn, manager, gateway, gatewayAt, RX, TX, sender,
                    mdm, drops>>
    BY <1>13 DEF CountAnswer, PutCount
  <2>2. c = p
    BY <1>0, <1>a, <1>13 DEF CountAnswer, Absent
  <2>3. /\ thread[p] = "copied" /\ thread'[q] = thread[q]
        /\ thread'[p] = (IF p = "client" THEN "poll" ELSE "recv")
        /\ reply'[p] = None /\ reply'[q] = reply[q]
    BY <1>0, <1>t, <1>13, <2>2 DEF CountAnswer
  <2>4. /\ reply[p] = Awaited(p) /\ TX = Awaited(p) /\ TX_Count' = Awaited(p)
        /\ waiting[p] /\ RX = None /\ gateway = None /\ ~NewComes(p)
    BY <1>a, <1>13, <2>2, <2>3
    DEF CountAnswer, PutCount, Places, One, AtHand, NewOnlyIdle, Clear
  <2>5. Absent(q)' /\ manager' = "loop" /\ drops' = 0 /\ Lines(p)'
    BY <1>0, <1>a, <2>1, <2>3 DEF Absent, Lines, conns, mdm
  <2>6. Places(p)' /\ One(p)' /\ Counted(p)'
    BY <1>0, <1>a, <1>1, <2>1, <2>3, <2>4
    DEF Places, One, Counted, Clear, AtHand, conns, mdm
  <2>7. NewOnlyIdle(p)'
    BY <1>0, <1>a, <2>1, <2>3, <2>4 DEF NewOnlyIdle, NewComes, Lines, conns
  <2> QED
    BY <1>0, <1>1, <2>1, <2>5, <2>6, <2>7 DEF AloneInv, conns, mdm
<1>14. ASSUME NEW c \in Peers, NEW kind, Receive(c, kind) PROVE AloneInv(p)'
  <2>1. UNCHANGED <<conns, recvOn, manager, gateway, gatewayAt, TX, TX_Count,
                    sender, done, got, drops>>
    BY <1>14 DEF Receive
  <2>2. c = p
    BY <1>0, <1>a, <1>14 DEF Receive, Absent
  <2>3. /\ thread[p] = "recv" /\ ~waiting[p] /\ recvOn[p] = number[p] /\ open[p]
        /\ thread'[q] = thread[q] /\ waiting'[p]
    BY <1>0, <1>t, <1>14, <2>2 DEF Receive
  <2>4. /\ Clear(p) /\ gatewayAt = "wait"
        /\ sender # Log(p) => TX_Count = None
    BY <1>a, <2>3 DEF Places, AtHand, Counted, Clear
  <2>5. ~NewComes(p) /\ ~NewComes(p)'
    BY <1>0, <1>t, <1>a, <1>14, <2>1, <2>2, <2>3
    DEF Receive, NewComes, NewOnlyIdle, conns, Lines
  <2>6. \/ /\ RX' = Awaited(p) /\ reply' = reply
           /\ thread'[p] = (IF p = "client" THEN "poll" ELSE "recv")
        \/ /\ RX' = None /\ reply'[p] = Awaited(p) /\ reply'[q] = reply[q]
           /\ thread'[p] = "handling"
    BY <1>0, <1>t, <1>14, <2>2, <2>4 DEF Receive, Awaited, Clear
  <2>7. Absent(q)' /\ manager' = "loop" /\ drops' = 0 /\ Lines(p)'
    BY <1>0, <1>a, <2>1, <2>3, <2>6 DEF Absent, Lines, conns
  <2>8. Awaited(p)' = Awaited(p) /\ Received(p)'
    BY <1>1, <2>1 DEF conns
  <2>9. Places(p)' /\ One(p)' /\ Counted(p)'
    BY <1>0, <1>a, <1>n, <2>1, <2>3, <2>4, <2>6, <2>8
    DEF Places, One, Counted, Clear, AtHand, conns
  <2>10. NewOnlyIdle(p)'
    BY <1>0, <1>a, <2>1, <2>3, <2>5 DEF NewOnlyIdle, NewComes, conns
  <2> QED
    BY <1>0, <2>7, <2>8, <2>9, <2>10 DEF AloneInv
<1>15. ASSUME NEW c \in Peers, SendTest(c) PROVE AloneInv(p)'
  <2>1. UNCHANGED <<conns, thread, recvOn, writers, RX, TX, TX_Count, mdm, drops>>
    BY <1>15 DEF SendTest
  <2>2. /\ sender # Log(p)
        /\ \/ sender' \in {"testServer", "testClient"}
           \/ c = p /\ sender' = Call(p) /\ Connected[p] /\ TX_Count # None
    BY <1>0, <1>a, <1>15 DEF SendTest, Test, Log, Past, Absent
  <2>3. sender' # Log(p)
    BY <1>0, <2>2 DEF Log, Call
  <2>4. Absent(q)' /\ manager' = "loop" /\ drops' = 0 /\ Lines(p)'
    BY <1>a, <2>1 DEF Absent, Lines, conns, mdm, writers
  <2>5. Places(p)' /\ One(p)'
    BY <1>a, <1>1, <2>1 DEF Places, One, AtHand, conns, mdm, writers
  <2>6. Counted(p)'
    BY <1>0, <1>a, <1>1, <2>1, <2>2, <2>3
    DEF Counted, Clear, Call, Log, conns, mdm, writers
  <2>7. NewOnlyIdle(p)'
    BY <1>0, <1>a, <2>1, <2>2
    DEF NewOnlyIdle, NewComes, Clear, Quiet, conns, mdm, writers
  <2> QED
    BY <1>0, <1>1, <2>1, <2>4, <2>5, <2>6, <2>7 DEF AloneInv, conns, mdm
<1>16. ASSUME NEW c \in Peers, sender = Call(c)
       PROVE  /\ c = p /\ TX = Awaited(p) /\ TX_Count = Awaited(p)
              /\ waiting[p] /\ Clear(p) /\ ~NewComes(p)
              /\ open[p] /\ fd[p] = number[p] /\ fd[p] # 0
  <2>1. c = p
    BY <1>0, <1>a, <1>16 DEF Counted, Call, Log
  <2>2. sender # Log(p) /\ sender \notin {"testServer", "testClient"}
    BY <1>0, <1>16, <2>1 DEF Call, Log
  <2> QED
    BY <1>0, <1>a, <1>16, <2>1, <2>2
    DEF Counted, NewOnlyIdle, Quiet, Lines
<1>17. ASSUME NEW c \in Peers, SendCall(c) PROVE AloneInv(p)'
  <2>1. UNCHANGED <<conns, thread, recvOn, writers, RX, TX, TX_Count, drops>>
    BY <1>17 DEF SendCall
  <2>2. /\ c = p /\ TX = Awaited(p) /\ TX_Count = Awaited(p)
        /\ waiting[p] /\ Clear(p) /\ ~NewComes(p)
        /\ open[p] /\ fd[p] = number[p]
        /\ sender' = Log(p) /\ Deliver(p)
    BY <1>16, <1>17 DEF SendCall
  <2>3. IsAnswer(p)
    BY <2>2 DEF IsAnswer, Whole, Awaited
  <2>4. /\ got' = [got EXCEPT ![p] = Append(@, [octets |-> TX, count |-> TX_Count])]
        /\ done' = [done EXCEPT ![p] = @ + 1]
        /\ waiting' = [waiting EXCEPT ![p] = FALSE]
    BY <2>2, <2>3 DEF Deliver
  <2>5. Absent(q)' /\ manager' = "loop" /\ drops' = 0 /\ Lines(p)'
    BY <1>0, <1>t, <1>a, <2>1, <2>2, <2>4 DEF Absent, Lines, conns, writers
  <2>6. Places(p)' /\ One(p)' /\ Counted(p)'
    BY <1>0, <1>t, <1>a, <1>n, <2>1, <2>2, <2>4
    DEF Places, One, Counted, AtHand, Clear, Call, Log, conns, writers
  <2>7. NewOnlyIdle(p)'
    BY <1>0, <1>a, <2>1, <2>2 DEF NewOnlyIdle, NewComes, conns
  <2>8. Received(p)'
    <3> DEFINE n == Len(got[p])
               e == [octets |-> TX, count |-> TX_Count]
    <3>1. got[p] \in Seq([octets : Message, count : Message])
      BY DEF TypeOK
    <3>2. got'[p] = Append(got[p], e) /\ done'[p] = done[p] + 1 /\ number' = number
      BY <1>t, <2>1, <2>4 DEF conns
    <3>3. /\ n \in Nat /\ DOMAIN got[p] = 1..n /\ DOMAIN got'[p] = 1..(n + 1)
          /\ got'[p][n + 1] = e
          /\ \A i \in 1..n : got'[p][i] = got[p][i]
      BY <3>1, <3>2
    <3>4. Own(p, e) /\ e.octets.serial = done[p] + 1
      BY <2>2 DEF Own, Awaited
    <3>5. ASSUME NEW i \in 1..n
          PROVE  /\ Own(p, got[p][i])
                 /\ got[p][i].octets.serial <= done[p]
                 /\ got[p][i].octets.serial \in Nat
                 /\ \A j \in 1..(i-1) :
                       got[p][j].octets.serial < got[p][i].octets.serial
      <4>1. got[p][i] \in [octets : Message, count : Message]
        BY <3>1, <3>3, ElementOfSeq
      <4>2. got[p][i].octets \in Message
        BY <4>1
      <4>3. got[p][i].octets.serial \in Nat
        BY <4>2 DEF Message, None
      <4> QED
        BY <1>a, <3>3, <4>3 DEF Received
    <3> HIDE DEF n, e
    <3>6. ASSUME NEW i \in 1..n
          PROVE  /\ Own(p, got'[p][i])
                 /\ got'[p][i].octets.serial <= done'[p]
                 /\ \A j \in 1..(i-1) :
                       got'[p][j].octets.serial < got'[p][i].octets.serial
      <4>1. got'[p][i] = got[p][i] /\ \A j \in 1..(i-1) : got'[p][j] = got[p][j]
        BY <3>3
      <4>2. got[p][i].octets.serial <= done'[p]
        BY <1>t, <3>2, <3>5
      <4> QED
        BY <3>5, <4>1, <4>2
    <3>7. /\ Own(p, got'[p][n + 1])
          /\ got'[p][n + 1].octets.serial <= done'[p]
          /\ \A j \in 1..n :
                got'[p][j].octets.serial < got'[p][n + 1].octets.serial
      <4>1. Own(p, got'[p][n + 1])
        BY <3>3, <3>4
      <4>2. ASSUME NEW j \in 1..n
            PROVE  got'[p][j].octets.serial < got'[p][n + 1].octets.serial
        BY <1>t, <3>3, <3>4, <3>5
      <4> QED
        BY <1>t, <3>2, <3>3, <3>4, <4>1, <4>2
    <3>8. ASSUME NEW i \in DOMAIN got'[p]
          PROVE  /\ Own(p, got'[p][i])
                 /\ got'[p][i].octets.serial <= done'[p]
                 /\ \A j \in 1..(i-1) :
                       got'[p][j].octets.serial < got'[p][i].octets.serial
      <4>1. CASE i \in 1..n
        BY <3>6, <4>1
      <4>2. CASE i = n + 1
        <5>1. i - 1 = n
          BY <3>3, <4>2
        <5> QED
          BY <3>7, <4>2, <5>1
      <4> QED
        BY <3>3, <4>1, <4>2
    <3> QED
      BY <3>2, <3>8 DEF Received, Own
  <2> QED
    BY <1>0, <2>5, <2>6, <2>7, <2>8 DEF AloneInv
<1>18. ASSUME NEW c \in Peers, SendFails(c) \/ SendKills(c) PROVE FALSE
  BY <1>16, <1>18 DEF SendFails, SendKills
<1>19. ASSUME NEW c \in Peers, SendLogged(c) PROVE AloneInv(p)'
  <2>1. UNCHANGED <<conns, thread, recvOn, writers, RX, TX, mdm, drops>>
    BY <1>19 DEF SendLogged
  <2>2. /\ sender' \in {"testServer", "testClient"} /\ TX_Count' = None
        /\ sender' # Log(p) /\ sender' # Call(p)
    BY <1>0, <1>19 DEF SendLogged, Past, ForgetAnswer, Log, Call
  <2>3. Absent(q)' /\ manager' = "loop" /\ drops' = 0 /\ Lines(p)'
    BY <1>a, <2>1 DEF Absent, Lines, conns, mdm, writers
  <2>4. Places(p)' /\ One(p)' /\ Counted(p)'
    BY <1>a, <1>1, <2>1, <2>2
    DEF Places, One, Counted, AtHand, Clear, Log, Call, conns, mdm, writers
  <2>5. NewOnlyIdle(p)'
    BY <1>a, <2>1, <2>2
    DEF NewOnlyIdle, NewComes, Clear, Quiet, conns, mdm, writers
  <2> QED
    BY <1>0, <1>1, <2>1, <2>3, <2>4, <2>5 DEF AloneInv, conns, mdm
<1>20. ASSUME NEW c \in Peers, SendFailed(c) PROVE FALSE
  BY <1>0, <1>a, <1>20 DEF SendFailed, Fail, Counted, Call, Log
<1>21. CASE UNCHANGED vars
  <2>1. UNCHANGED <<conns, thread, recvOn, writers, RX, TX, TX_Count, sender, mdm,
                    drops>>
    BY <1>21 DEF vars
  <2>2. Absent(q)' /\ manager' = "loop" /\ drops' = 0 /\ Lines(p)'
    BY <1>a, <2>1 DEF Absent, Lines, conns, mdm, writers
  <2>3. Places(p)' /\ One(p)' /\ Counted(p)'
    BY <1>a, <1>1, <2>1
    DEF Places, One, Counted, AtHand, Clear, Log, Call, conns, mdm, writers
  <2>4. NewOnlyIdle(p)'
    BY <1>a, <2>1 DEF NewOnlyIdle, NewComes, Clear, Quiet, conns, mdm, writers
  <2> QED
    BY <1>1, <2>1, <2>2, <2>3, <2>4 DEF conns, mdm
<1> HIDE DEF q
<1>22. CASE Manage \/ Accept \/ Listen \/ Gateway \/ Upset
  BY <1>2, <1>3, <1>4, <1>5, <1>6, <1>7, <1>8, <1>9, <1>22
  DEF Manage, Listen, Gateway
<1>23. CASE Send
  BY <1>0, <1>15, <1>17, <1>18, <1>19, <1>20, <1>23 DEF Send, AloneInv
<1>24. CASE \E c \in Peers : Handle(c) \/ Request(c)
  BY <1>0, <1>10, <1>11, <1>12, <1>13, <1>14, <1>24 DEF Handle, Request, AloneInv
<1> QED
  BY <1>21, <1>22, <1>23, <1>24 DEF Next

THEOREM AnswersAreInOrder == Spec => []InOrder
<1>1. Init => OrderInv
  <2> SUFFICES ASSUME Init, NEW p \in Peers, scenario.drops = 0, Alone(p)
               PROVE  AloneInv(p)
    BY DEF OrderInv
  <2>1. manager = "loop" /\ drops = 0 /\ \A q \in Peers \ {p} : Absent(q)
    BY DEF Init, Absent, Peers
  <2>2. Lines(p)
    BY DEF Init, Lines, Peers
  <2>3. Places(p) /\ One(p) /\ Counted(p)
    BY DEF Init, Places, One, Counted, AtHand, Call, Log, Peers
  <2>4. NewOnlyIdle(p)
    BY DEF Init, NewOnlyIdle, NewComes, Clear, Quiet, Peers
  <2>5. Received(p)
    BY DEF Init, Received
  <2> QED
    BY <2>1, <2>2, <2>3, <2>4, <2>5 DEF AloneInv
<1>2. TypeOK /\ OrderInv /\ [Next]_vars => OrderInv'
  <2> SUFFICES ASSUME TypeOK, OrderInv, [Next]_vars,
                      NEW p \in Peers, (scenario.drops = 0)', Alone(p)'
               PROVE  AloneInv(p)'
    BY DEF OrderInv
  <2>1. scenario' = scenario
    BY DEF Next, Manage, GetOpen, PushOctets, PushCount, DropIdle, Accept, Listen,
           ListenEnd, ListenClosed, Gateway, GatewayTake, GatewaySegment,
           GatewayOctets, GatewayCopies, GatewayCount, Send, SendTest, SendCall,
           SendFails, SendKills, SendLogged, SendFailed, Upset, GatewayGivesUp,
           HandleFails, SocketFails, PeerLeaves, Handle,
           CopyAnswer, CountAnswer, ReceiveCall, ReceiveEnd, Request, Receive, vars
  <2>2. scenario.drops = 0 /\ Alone(p)
    BY <2>1 DEF Alone
  <2> QED
    BY <2>2, AloneStep DEF OrderInv
<1>3. OrderInv => InOrder
  BY DEF OrderInv, InOrder, AloneInv, Received
<1> QED
  BY <1>1, <1>2, <1>3, TypeCorrect, PTL DEF Spec
=============================================================================
