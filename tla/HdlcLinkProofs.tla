--------------------------- MODULE HdlcLinkProofs ---------------------------
(***************************************************************************)
(* The HDLC link, for every kind of request and answer and any number of   *)
(* sessions, requests, repetitions and faults: its types, that every       *)
(* request and every answer arrives whole, and that it implements          *)
(* HdlcSession.                                                            *)
(*                                                                         *)
(* The ends agree only through the frames on the two lines, so the         *)
(* invariant LinkInv says what these are.  It is Types and, as long as no  *)
(* damaged frame has misled an end,                                        *)
(*   InRange    the number the server expects is not that of the I-frame   *)
(*              it took last;                                              *)
(*   Sessions   the server is in the client's session once that is open;   *)
(*   ToServer   an I-frame to the server is one it has taken, or carries   *)
(*              the part it is waiting for, and nothing sent later stands  *)
(*              before it;                                                 *)
(*   Progress   the client is between requests, has sent a part the server *)
(*              has or awaits, or its request was handled, once;           *)
(*   Answers    the line to the client holds nothing of the answer, or the *)
(*              first part, or the parts after those the client has, the   *)
(*              n-th with the number that is n - Got ahead.  That a part   *)
(*              is never eight ahead, where its number would be the next   *)
(*              one again, is what the count of missed frames bounds;      *)
(*   Opening    the UA that opens a session comes from a server in it.     *)
(* Each Effect lemma below says what an action does to the fields of the   *)
(* two ends; each Ends lemma, that it keeps Sessions to Opening.           *)
(***************************************************************************)
EXTENDS HdlcLink, TLAPS

(* What goes over the line: an I-frame to the server is part of a request  *)
Data      == [session : 0..MaxSessions, id : Nat, kind : Kinds \cup {NoKind}, part : Nat]
Numbers   == [nr : 0..7, ns : 0..7]
Senders   == [nr : 0..7, ns : 0..7, rr : BOOLEAN]
FrameTypes == {"SNRM", "UA", "FRMR", "RR", "I"}
Frames    == [type : FrameTypes, nr : 0..7, ns : 0..7,
              more : BOOLEAN, data : Data]
Questions == {f \in Frames : f.type = "I" => f.data.kind \in Kinds}
Replies   == {f \in Frames : f.type # "SNRM"}

(* The two ends *)
Servers ==
    [role : {"server"}, session : 0..MaxSessions, sender : Senders, receiver : Numbers,
     request : Seq(Data), rest : Seq(Data), transaction : BOOLEAN, count : Nat,
     heard : 0..7, sent : Data]
Clients ==
    [role : {"client"}, at : {"off", "snrm", "idle", "wait"}, session : 0..MaxSessions,
     sender : Senders, receiver : Numbers, frame : Questions, tries : 0..MaxTries,
     outbox : Seq(Questions), got : Seq(Data), count : Nat, missed : Nat]

Lines == toServer \in Seq(Questions) /\ toClient \in Seq(Replies)

(* TypeOK says less: here are all the fields, history too *)
Types ==
    /\ server \in Servers /\ client \in Clients /\ Lines
    /\ kind \in Kinds \cup {NoKind} /\ done \in 0..MaxRequests /\ faults \in 0..MaxFaults
    /\ client.at = "wait" => kind \in Kinds /\ done < MaxRequests
    /\ misled \in BOOLEAN /\ whole \in BOOLEAN

-----------------------------------------------------------------------------
(* Sequences *)

(* What is left of a sequence when its first member is taken *)
LEMMA TailOf ==
    ASSUME NEW S, NEW q \in Seq(S), q # << >>
    PROVE  /\ Tail(q) \in Seq(S) /\ Head(q) \in S /\ Head(q) = q[1]
           /\ Len(q) \in Nat /\ Len(q) >= 1 /\ Len(Tail(q)) = Len(q) - 1
           /\ \A i \in 1..(Len(q) - 1) : Tail(q)[i] = q[i + 1]
  OBVIOUS

(* A sequence with one member more *)
LEMMA AppendTo ==
    ASSUME NEW S, NEW q \in Seq(S), NEW e \in S
    PROVE  /\ Append(q, e) \in Seq(S)
           /\ Len(q) \in Nat /\ Len(Append(q, e)) = Len(q) + 1
           /\ Append(q, e)[Len(q) + 1] = e
           /\ \A i \in 1..Len(q) : Append(q, e)[i] = q[i]
  OBVIOUS

(* A function on 1..n is a sequence *)
LEMMA SeqOf ==
    ASSUME NEW S, NEW n \in Nat, NEW q, q \in [1..n -> S]
    PROVE  q \in Seq(S) /\ Len(q) = n
  OBVIOUS

(* Two sequences with the same members are equal *)
LEMMA SeqEqual ==
    ASSUME NEW S, NEW p \in Seq(S), NEW q \in Seq(S), Len(p) = Len(q),
           \A i \in 1..Len(q) : p[i] = q[i]
    PROVE  p = q
  OBVIOUS

(* Numbers count to 8, and the next one is another *)
LEMMA IncTyped == \A n \in 0..7 : Inc(n) \in 0..7 /\ Inc(n) # n
  BY DEF Inc

(* A part of a request or of an answer *)
Part(session, id, k, n) == [session |-> session, id |-> id, kind |-> k, part |-> n]

(* The first n parts, and each of them *)
LEMMA PartsAre ==
    ASSUME NEW s \in 0..MaxSessions, NEW id \in Nat, NEW k \in Kinds, NEW n \in Nat
    PROVE  /\ Parts(s, id, k, n) \in Seq(Data) /\ Len(Parts(s, id, k, n)) = n
           /\ DOMAIN Parts(s, id, k, n) = 1..n
           /\ \A i \in 1..n : Parts(s, id, k, n)[i] = Part(s, id, k, i)
           /\ \A i \in Nat : Part(s, id, k, i) \in Data
  <1>1. \A i \in Nat : Part(s, id, k, i) \in Data
    BY DEF Part, Data
  <1>2. Parts(s, id, k, n) = [i \in 1..n |-> Part(s, id, k, i)]
    BY DEF Parts, Part
  <1>3. Parts(s, id, k, n) \in [1..n -> Data]
    BY <1>1, <1>2
  <1> QED BY <1>1, <1>2, <1>3, SeqOf

(* One part more *)
LEMMA PartsAppend ==
    ASSUME NEW s \in 0..MaxSessions, NEW id \in Nat, NEW k \in Kinds, NEW n \in Nat
    PROVE  Append(Parts(s, id, k, n), Part(s, id, k, n + 1)) = Parts(s, id, k, n + 1)
  <1> DEFINE p == Parts(s, id, k, n)
             q == Parts(s, id, k, n + 1)
             e == Part(s, id, k, n + 1)
  <1>1. p \in Seq(Data) /\ e \in Data /\ Len(p) = n /\ \A i \in 1..n : p[i] = Part(s, id, k, i)
    BY PartsAre
  <1>2. n + 1 \in Nat
    OBVIOUS
  <1>3. q \in Seq(Data) /\ Len(q) = n + 1 /\ \A i \in 1..(n + 1) : q[i] = Part(s, id, k, i)
    BY <1>2, PartsAre
  <1> HIDE DEF p, q
  <1>4. \A i \in 1..(n + 1) : Append(p, e)[i] = q[i]
    BY <1>1, <1>3
  <1>5. Append(p, e) \in Seq(Data) /\ Len(Append(p, e)) = n + 1
    BY <1>1
  <1>6. Append(p, e) = q
    BY <1>3, <1>4, <1>5
  <1> QED BY <1>6 DEF p, q

-----------------------------------------------------------------------------
(* Types *)

(* The numbers an end sends with *)
LEMMA SendersTyped ==
    ASSUME NEW s \in Senders
    PROVE  /\ \A first \in BOOLEAN : getNextSend(s, first) \in Senders
           /\ getReceiverReady(s) \in Senders /\ getKeepAlive(s) \in Senders
  BY IncTyped DEF Senders, getNextSend, getReceiverReady, getKeepAlive

(* An empty line or message *)
LEMMA EmptyTyped == << >> \in Seq(Data) /\ << >> \in Seq(Questions) /\ << >> \in Seq(Replies)
  OBVIOUS

(* The numbers a session starts with *)
LEMMA StartTyped ==
    /\ ServerStart.sender \in Senders /\ ServerStart.receiver \in Numbers
    /\ ClientStart.sender \in Senders /\ ClientStart.receiver \in Numbers
  BY DEF ServerStart, ClientStart, Senders, Numbers

(* Each frame the ends make is one they may send *)
LEMMA FramesTyped ==
    /\ Nobody \in Data
    /\ \A n \in 0..7 : RR(n) \in Questions /\ RR(n) \in Replies
    /\ \A d \in Data : U("SNRM", d) \in Questions /\ U("UA", d) \in Replies
    /\ U("FRMR", Nobody) \in Replies
    /\ \A s \in Senders, more \in BOOLEAN, d \in Data : I(s, more, d) \in Replies
  <1>1. Nobody \in Data
    BY BoundAssumption DEF Nobody, Data
  <1> QED BY <1>1 DEF RR, U, I, Frame, Questions, Replies, Frames, FrameTypes, Senders

(* What a frame does to the numbers of an end, and that it does no more    *)
LEMMA CheckedServer ==
    ASSUME server \in Servers, NEW f, f.type \in FrameTypes, f.nr \in 0..7, f.ns \in 0..7
    PROVE  /\ Checked(server, f) \in Servers
           /\ f.type # "SNRM" => \E r \in Numbers :
                 Checked(server, f) = [server EXCEPT !.receiver = r]
           /\ f.type = "SNRM" => Checked(server, f) =
                 [server EXCEPT !.sender = ServerStart.sender, !.receiver = ServerStart.receiver]
           /\ f.type = "I" => Checked(server, f).receiver = [nr |-> f.nr, ns |-> f.ns]
           /\ f.type = "RR" => Checked(server, f).receiver.ns = server.receiver.ns
  <1>1. CASE f.type = "I"
    <2>1. Checked(server, f) = [server EXCEPT !.receiver = [nr |-> f.nr, ns |-> f.ns]]
      BY <1>1 DEF Checked
    <2>2. [nr |-> f.nr, ns |-> f.ns] \in Numbers
      BY DEF Numbers
    <2> QED BY <1>1, <2>1, <2>2 DEF Servers
  <1>2. CASE f.type = "RR"
    <2> DEFINE r == [server.receiver EXCEPT !.nr = Inc(@)]
    <2>1. Checked(server, f) = [server EXCEPT !.receiver = r]
      BY <1>2 DEF Checked, Servers
    <2>2. r \in Numbers /\ r.ns = server.receiver.ns
      BY IncTyped DEF Numbers, Servers
    <2> QED BY <1>2, <2>1, <2>2 DEF Servers
  <1>3. CASE f.type = "SNRM"
    <2>1. Checked(server, f) =
            [server EXCEPT !.sender = ServerStart.sender, !.receiver = ServerStart.receiver]
      BY <1>3 DEF Checked, Servers
    <2> QED BY <1>3, <2>1, StartTyped DEF Servers
  <1>4. CASE f.type \in {"UA", "FRMR"}
    <2>1. Checked(server, f) = server /\ server = [server EXCEPT !.receiver = server.receiver]
      BY <1>4 DEF Checked, Servers
    <2> QED BY <1>4, <2>1 DEF Servers
  <1> QED BY <1>1, <1>2, <1>3, <1>4 DEF FrameTypes

(* The same for the client *)
LEMMA CheckedClient ==
    ASSUME client \in Clients, NEW f, f.type \in FrameTypes, f.nr \in 0..7, f.ns \in 0..7
    PROVE  /\ Checked(client, f) \in Clients
           /\ f.type # "SNRM" => \E r \in Numbers :
                 Checked(client, f) = [client EXCEPT !.receiver = r]
           /\ f.type = "SNRM" => Checked(client, f) =
                 [client EXCEPT !.sender = ClientStart.sender, !.receiver = ClientStart.receiver]
           /\ f.type = "I" => Checked(client, f).receiver = [nr |-> f.nr, ns |-> f.ns]
           /\ f.type \in {"RR", "UA", "FRMR"} =>
                 Checked(client, f).receiver.ns = client.receiver.ns
  <1>1. CASE f.type = "I"
    <2>1. Checked(client, f) = [client EXCEPT !.receiver = [nr |-> f.nr, ns |-> f.ns]]
      BY <1>1 DEF Checked
    <2>2. [nr |-> f.nr, ns |-> f.ns] \in Numbers
      BY DEF Numbers
    <2> QED BY <1>1, <2>1, <2>2 DEF Clients
  <1>2. CASE f.type = "RR"
    <2> DEFINE r == [client.receiver EXCEPT !.nr = Inc(@)]
    <2>1. Checked(client, f) = [client EXCEPT !.receiver = r]
      BY <1>2 DEF Checked, Clients
    <2>2. r \in Numbers /\ r.ns = client.receiver.ns
      BY IncTyped DEF Numbers, Clients
    <2> QED BY <1>2, <2>1, <2>2 DEF Clients
  <1>3. CASE f.type = "SNRM"
    <2>1. Checked(client, f) =
            [client EXCEPT !.sender = ClientStart.sender, !.receiver = ClientStart.receiver]
      BY <1>3 DEF Checked, Clients
    <2> QED BY <1>3, <2>1, StartTyped DEF Clients
  <1>4. CASE f.type \in {"UA", "FRMR"}
    <2>1. Checked(client, f) = client /\ client = [client EXCEPT !.receiver = client.receiver]
      BY <1>4 DEF Checked, Clients
    <2> QED BY <1>4, <2>1 DEF Clients
  <1> QED BY <1>1, <1>2, <1>3, <1>4 DEF FrameTypes

(* The control octet of a damaged frame changes numbers only *)
LEMMA MisreadServer ==
    ASSUME server \in Servers, NEW control \in Controls
    PROVE  /\ Misread(server, control) \in Servers
           /\ control # "SNRM" => \E r \in Numbers :
                 Misread(server, control) = [server EXCEPT !.receiver = r]
           /\ control = "SNRM" => Misread(server, control) =
                 [server EXCEPT !.sender = ServerStart.sender, !.receiver = ServerStart.receiver]
  <1> DEFINE f == [type |-> control, nr |-> IF server.sender.rr THEN server.receiver.nr
                                             ELSE Inc(server.receiver.nr),
                   ns |-> Inc(server.receiver.ns)]
  <1>1. f.type = control /\ f.nr \in 0..7 /\ f.ns \in 0..7
    BY IncTyped DEF Servers, Senders, Numbers
  <1>2. CASE control = "other"
    <2>1. Misread(server, control) = server /\ server = [server EXCEPT !.receiver = server.receiver]
      BY <1>2 DEF Misread, Servers
    <2> QED BY <1>2, <2>1 DEF Servers
  <1>3. CASE control # "other"
    <2>1. Misread(server, control) = Checked(server, f)
      BY <1>3 DEF Misread
    <2>2. f.type \in FrameTypes
      BY <1>1, <1>3 DEF Controls, FrameTypes
    <2> HIDE DEF f
    <2>3. /\ Checked(server, f) \in Servers
          /\ f.type # "SNRM" => \E r \in Numbers :
                 Checked(server, f) = [server EXCEPT !.receiver = r]
          /\ f.type = "SNRM" => Checked(server, f) =
                 [server EXCEPT !.sender = ServerStart.sender, !.receiver = ServerStart.receiver]
      BY <1>1, <2>2, CheckedServer
    <2> QED BY <1>1, <1>3, <2>1, <2>3
  <1> QED BY <1>2, <1>3

(* The same for the client *)
LEMMA MisreadClient ==
    ASSUME client \in Clients, NEW control \in Controls
    PROVE  /\ Misread(client, control) \in Clients
           /\ control # "SNRM" => \E r \in Numbers :
                 Misread(client, control) = [client EXCEPT !.receiver = r]
           /\ control = "SNRM" => Misread(client, control) =
                 [client EXCEPT !.sender = ClientStart.sender, !.receiver = ClientStart.receiver]
           /\ control = "other" => Misread(client, control) = client
  <1> DEFINE f == [type |-> control, nr |-> IF client.sender.rr THEN client.receiver.nr
                                             ELSE Inc(client.receiver.nr),
                   ns |-> Inc(client.receiver.ns)]
  <1>1. f.type = control /\ f.nr \in 0..7 /\ f.ns \in 0..7
    BY IncTyped DEF Clients, Senders, Numbers
  <1>2. CASE control = "other"
    <2>1. Misread(client, control) = client /\ client = [client EXCEPT !.receiver = client.receiver]
      BY <1>2 DEF Misread, Clients
    <2> QED BY <1>2, <2>1 DEF Clients
  <1>3. CASE control # "other"
    <2>1. Misread(client, control) = Checked(client, f)
      BY <1>3 DEF Misread
    <2>2. f.type \in FrameTypes
      BY <1>1, <1>3 DEF Controls, FrameTypes
    <2> HIDE DEF f
    <2>3. /\ Checked(client, f) \in Clients
          /\ f.type # "SNRM" => \E r \in Numbers :
                 Checked(client, f) = [client EXCEPT !.receiver = r]
          /\ f.type = "SNRM" => Checked(client, f) =
                 [client EXCEPT !.sender = ClientStart.sender, !.receiver = ClientStart.receiver]
      BY <1>1, <2>2, CheckedClient
    <2> QED BY <1>1, <1>3, <2>1, <2>3
  <1> QED BY <1>2, <1>3

(* What the server takes, and what it takes it for *)
LEMMA TakesTyped ==
    ASSUME Lines, NEW f, Takes(f)
    PROVE  /\ f \in Questions /\ f \in Frames /\ f = toServer[1] /\ toServer # << >>
           /\ f.type \in FrameTypes /\ f.nr \in 0..7 /\ f.ns \in 0..7 /\ f.data \in Data
           /\ toServer' = Tail(toServer) /\ toServer' \in Seq(Questions)
  <1>1. f \in Questions /\ f = toServer[1] /\ toServer' = Tail(toServer) /\ toServer' \in Seq(Questions)
    BY TailOf DEF Lines, Takes
  <1> QED BY <1>1 DEF Takes, Questions, Frames

(* What the client hears *)
LEMMA HearsTyped ==
    ASSUME Lines, NEW f, Hears(f)
    PROVE  /\ f \in Frames /\ f.type # "SNRM" /\ f = toClient[1] /\ toClient # << >>
           /\ f.type \in FrameTypes /\ f.nr \in 0..7 /\ f.ns \in 0..7 /\ f.data \in Data
           /\ toClient' = Tail(toClient) /\ toClient' \in Seq(Replies)
  <1>1. f \in Replies /\ f = toClient[1] /\ toClient' = Tail(toClient) /\ toClient' \in Seq(Replies)
    BY TailOf DEF Lines, Hears
  <1> QED BY <1>1 DEF Hears, Replies, Frames

(* A reply keeps the line to the client typed *)
LEMMA ReplyTyped ==
    ASSUME Lines, NEW f \in Replies, Reply(f)
    PROVE  toClient' \in Seq(Replies)
  BY AppendTo DEF Lines, Reply

(* A frame of the client keeps the line to the server typed *)
LEMMA SendTyped ==
    ASSUME Lines, NEW f \in Questions, Send(f)
    PROVE  toServer' \in Seq(Questions)
  BY AppendTo DEF Lines, Send

(* The fields of the server which no damaged frame changes *)
ServerKeeps ==
    /\ server'.session = server.session /\ server'.request = server.request
    /\ server'.rest = server.rest /\ server'.transaction = server.transaction
    /\ server'.count = server.count /\ server'.heard = server.heard
    /\ server'.sent = server.sent /\ server'.sender = server.sender

(* SNRM: the server forgets all it had, and answers UA *)
LEMMA HandleSnrmEffect ==
    ASSUME Types, NEW f, HandleSnrm(f)
    PROVE  /\ server' \in Servers /\ toClient' \in Seq(Replies)
           /\ server'.session = f.data.session /\ server'.request = << >>
           /\ server'.rest = << >> /\ server'.transaction = FALSE /\ server'.count = 0
           /\ server'.heard = 7 /\ server'.sent = Nobody
           /\ server'.receiver = ServerStart.receiver
           /\ toClient' = Append(toClient, U("UA", f.data))
  <1>1. Lines /\ Takes(f) /\ f.type = "SNRM" /\ server \in Servers
    BY DEF HandleSnrm, Types
  <1>2. f \in Frames /\ f.data \in Data /\ f.type \in FrameTypes /\ f.nr \in 0..7 /\ f.ns \in 0..7
    BY <1>1, TakesTyped
  <1>3. /\ Checked(server, f) \in Servers
        /\ Checked(server, f) =
                 [server EXCEPT !.sender = ServerStart.sender, !.receiver = ServerStart.receiver]
    BY <1>1, <1>2, CheckedServer
  <1>4. f.data.session \in 0..MaxSessions /\ Nobody \in Data
    BY <1>2, FramesTyped DEF Data
  <1>5. server' = [Checked(server, f) EXCEPT !.session = f.data.session,
                     !.request = << >>, !.rest = << >>, !.transaction = FALSE, !.count = 0,
                     !.heard = 7, !.sent = Nobody]
    BY DEF HandleSnrm
  <1>6. server' \in Servers
    <2>1. PICK c \in Servers : c = Checked(server, f)
      BY <1>3
    <2>2. PICK none \in Seq(Data) : none = << >>
      BY EmptyTyped
    <2>6. PICK no \in BOOLEAN : no = FALSE
      OBVIOUS
    <2>7. PICK zero \in Nat : zero = 0
      OBVIOUS
    <2>8. PICK seven \in 0..7 : seven = 7
      OBVIOUS
    <2>3. PICK d \in Data : d = Nobody
      BY <1>4
    <2>4. PICK session \in 0..MaxSessions : session = f.data.session
      BY <1>4
    <2>5. server' = [c EXCEPT !.session = session, !.request = none, !.rest = none,
                        !.transaction = no, !.count = zero, !.heard = seven, !.sent = d]
      BY <1>5, <2>1, <2>2, <2>3, <2>4, <2>6, <2>7, <2>8
    <2> QED BY <2>5 DEF Servers
  <1>7. toClient' = Append(toClient, U("UA", f.data)) /\ toClient' \in Seq(Replies)
    BY <1>1, <1>2, FramesTyped, ReplyTyped DEF HandleSnrm, Reply
  <1>8. server'.receiver = ServerStart.receiver
    <2>1. Checked(server, f).receiver = ServerStart.receiver
      BY <1>1, <1>3 DEF Servers
    <2>2. server'.receiver = Checked(server, f).receiver
      BY <1>3, <1>5 DEF Servers
    <2> QED BY <2>1, <2>2
  <1>9. /\ server'.session = f.data.session /\ server'.request = << >>
        /\ server'.rest = << >> /\ server'.transaction = FALSE /\ server'.count = 0
        /\ server'.heard = 7 /\ server'.sent = Nobody
    BY <1>3, <1>5 DEF Servers
  <1> QED BY <1>6, <1>7, <1>8, <1>9

(* The server takes an I-frame only with the next number *)
LEMMA ServerChecks ==
    ASSUME server \in Servers, NEW f, f.type = "I"
    PROVE  checkFrame(server, f) => f.ns = Inc(server.receiver.ns)
  BY DEF checkFrame, NextNumber, TakesAny, Servers

(* A part of a request: the server keeps it, and asks for the next *)
LEMMA TakePartEffect ==
    ASSUME Types, NEW f, TakePart(f)
    PROVE  /\ server' \in Servers /\ toClient' \in Seq(Replies)
           /\ f.ns = Inc(server.receiver.ns)
           /\ server'.session = server.session
           /\ server'.request = Append(server.request, f.data)
           /\ server'.rest = server.rest /\ server'.transaction = server.transaction
           /\ server'.count = server.count /\ server'.heard = f.ns
           /\ server'.sent = server.sent /\ server'.sender.ns = server.sender.ns
           /\ server'.receiver.ns = f.ns
           /\ \E n \in 0..7 : toClient' = Append(toClient, RR(n))
  <1> DEFINE ready == getReceiverReady(server.sender)
  <1>1. Lines /\ Takes(f) /\ f.type = "I" /\ server \in Servers
    BY DEF TakePart, Types
  <1>2. f \in Frames /\ f.data \in Data /\ f.type \in FrameTypes /\ f.nr \in 0..7 /\ f.ns \in 0..7
    BY <1>1, TakesTyped
  <1>3. /\ Checked(server, f) \in Servers
        /\ Checked(server, f).receiver = [nr |-> f.nr, ns |-> f.ns]
    BY <1>1, <1>2, CheckedServer
  <1>4. \E r \in Numbers : Checked(server, f) = [server EXCEPT !.receiver = r]
    BY <1>1, <1>2, CheckedServer
  <1>5. /\ server' = [Checked(server, f) EXCEPT !.sender = ready,
                        !.request = Append(@, f.data), !.heard = f.ns]
        /\ Reply(RR(ready.nr))
    BY DEF TakePart
  <1>6. ready \in Senders /\ ready.nr \in 0..7 /\ ready.ns = server.sender.ns
    <2>1. server.sender \in Senders
      BY <1>1 DEF Servers
    <2>2. ready \in Senders
      BY <2>1, SendersTyped
    <2> QED BY <2>1, <2>2 DEF getReceiverReady, Senders
  <1> HIDE DEF ready
  <1>7. server' \in Servers /\ server'.request = Append(server.request, f.data)
    <2>1. PICK c \in Servers : c = Checked(server, f)
      BY <1>3
    <2>2. c.request = server.request
      BY <1>1, <1>4, <2>1 DEF Servers
    <2>3. PICK q \in Seq(Data) : q = Append(server.request, f.data)
      <3>1. server.request \in Seq(Data)
        BY <1>1 DEF Servers
      <3> QED BY <1>2, <3>1, AppendTo
    <2>4. PICK n \in 0..7 : n = f.ns
      BY <1>2
    <2>5. server' = [c EXCEPT !.sender = ready, !.request = q, !.heard = n]
      BY <1>5, <2>1, <2>2, <2>3, <2>4 DEF Servers
    <2> QED BY <1>6, <2>3, <2>5 DEF Servers
  <1>8. \E n \in 0..7 : toClient' = Append(toClient, RR(n))
    BY <1>5, <1>6 DEF Reply
  <1>9. toClient' \in Seq(Replies)
    <2>1. RR(ready.nr) \in Replies
      BY <1>6, FramesTyped
    <2> QED BY <1>1, <1>5, <2>1, ReplyTyped
  <1>10. f.ns = Inc(server.receiver.ns)
    BY <1>1, ServerChecks DEF TakePart
  <1>11. /\ server'.session = server.session
         /\ server'.rest = server.rest /\ server'.transaction = server.transaction
         /\ server'.count = server.count /\ server'.sent = server.sent
    BY <1>1, <1>4, <1>5 DEF Servers
  <1>12. server'.heard = f.ns /\ server'.sender.ns = server.sender.ns /\ server'.receiver.ns = f.ns
    BY <1>3, <1>5, <1>6 DEF Servers
  <1> QED BY <1>7, <1>8, <1>9, <1>10, <1>11, <1>12

(* Every request and every answer has a part at least *)
LEMMA KindTyped == \A k \in Kinds : k.parts \in Nat \ {0} /\ k.frames \in Nat \ {0} /\ k.flagged \in BOOLEAN
  BY KindAssumption

(* Part 1 of an answer, and the others *)
LEMMA AnswerIs ==
    ASSUME NEW s \in 0..MaxSessions, NEW id \in Nat, NEW k \in Kinds
    PROVE  /\ Head(Parts(s, id, k, k.parts)) = Part(s, id, k, 1) /\ Part(s, id, k, 1) \in Data
           /\ Tail(Parts(s, id, k, k.parts)) \in Seq(Data)
           /\ Tail(Parts(s, id, k, k.parts)) =
                 [i \in 1..(k.parts - 1) |-> Part(s, id, k, 1 + i)]
  <1> DEFINE p == Parts(s, id, k, k.parts)
             r == [i \in 1..(k.parts - 1) |-> Part(s, id, k, 1 + i)]
  <1>1. k.parts \in Nat /\ k.parts >= 1 /\ k.parts - 1 \in Nat
    BY KindTyped
  <1>2. /\ p \in Seq(Data) /\ Len(p) = k.parts
        /\ \A i \in 1..k.parts : p[i] = Part(s, id, k, i)
        /\ \A i \in Nat : Part(s, id, k, i) \in Data
    <2>1. PICK n \in Nat : n = k.parts
      BY <1>1
    <2>2. /\ Parts(s, id, k, n) \in Seq(Data) /\ Len(Parts(s, id, k, n)) = n
          /\ \A i \in 1..n : Parts(s, id, k, n)[i] = Part(s, id, k, i)
          /\ \A i \in Nat : Part(s, id, k, i) \in Data
      BY PartsAre
    <2> QED BY <2>1, <2>2
  <1>3. r \in Seq(Data) /\ Len(r) = k.parts - 1 /\ \A i \in 1..(k.parts - 1) : r[i] = Part(s, id, k, 1 + i)
    <2>1. PICK n \in Nat : n = k.parts - 1
      BY <1>1
    <2>2. \A i \in 1..n : 1 + i \in Nat
      OBVIOUS
    <2>3. r = [i \in 1..n |-> Part(s, id, k, 1 + i)]
      BY <2>1
    <2>4. r \in [1..n -> Data] /\ \A i \in 1..n : r[i] = Part(s, id, k, 1 + i)
      BY <1>2, <2>2, <2>3
    <2> HIDE DEF r
    <2>5. r \in Seq(Data) /\ Len(r) = n
      BY <2>4, SeqOf
    <2> QED BY <2>1, <2>4, <2>5
  <1> HIDE DEF p, r
  <1>4. p # << >>
    BY <1>1, <1>2
  <1>5. /\ Tail(p) \in Seq(Data) /\ Head(p) = p[1] /\ Len(Tail(p)) = Len(p) - 1
        /\ \A i \in 1..(Len(p) - 1) : Tail(p)[i] = p[i + 1]
    BY <1>2, <1>4, TailOf
  <1>6. Tail(p) = r
    <2>1. ASSUME NEW i \in 1..Len(r) PROVE Tail(p)[i] = r[i]
      <3>1. i \in 1..(k.parts - 1) /\ i + 1 \in 1..k.parts /\ i + 1 = 1 + i
        BY <1>1, <1>3
      <3> QED BY <1>2, <1>3, <1>5, <3>1
    <2>2. Len(Tail(p)) = Len(r)
      BY <1>2, <1>3, <1>5
    <2> QED BY <1>3, <1>5, <2>1, <2>2, SeqEqual
  <1>7. Head(p) = Part(s, id, k, 1) /\ Part(s, id, k, 1) \in Data
    BY <1>1, <1>2, <1>5
  <1> QED BY <1>5, <1>6, <1>7 DEF p, r

(* The last part: the server makes the answer and sends its first part *)
LEMMA HandleRequestEffect ==
    ASSUME Types, NEW f, HandleRequest(f)
    PROVE  LET k == f.data.kind IN
           /\ server' \in Servers /\ toClient' \in Seq(Replies) /\ k \in Kinds
           /\ f.ns = Inc(server.receiver.ns)
           /\ server'.session = server.session /\ server'.request = << >>
           /\ server'.rest = [i \in 1..(k.parts - 1) |-> Part(server.session, f.data.id, k, 1 + i)]
           /\ server'.transaction = (server.transaction \/ k.flagged)
           /\ server'.count = server.count + 1 /\ server'.heard = f.ns
           /\ server'.sent = Part(server.session, f.data.id, k, 1)
           /\ server'.receiver.ns = f.ns
           /\ toClient' = Append(toClient, I(server'.sender, k.parts > 1, server'.sent))
           /\ whole' = (whole /\ Append(server.request, f.data)
                                   = Parts(server.session, f.data.id, k, k.frames))
  <1> DEFINE k      == f.data.kind
             answer == Parts(server.session, f.data.id, k, k.parts)
             next   == getNextSend(server.sender, TRUE)
  <1>1. Lines /\ Takes(f) /\ f.type = "I" /\ server \in Servers
    BY DEF HandleRequest, Types
  <1>2. f \in Questions /\ f.data \in Data /\ f.type \in FrameTypes /\ f.nr \in 0..7 /\ f.ns \in 0..7
    BY <1>1, TakesTyped
  <1>3. k \in Kinds /\ f.data.id \in Nat /\ server.session \in 0..MaxSessions
    BY <1>1, <1>2 DEF Questions, Data, Servers
  <1>4. /\ Head(answer) = Part(server.session, f.data.id, k, 1) /\ Head(answer) \in Data
        /\ Tail(answer) \in Seq(Data)
        /\ Tail(answer) = [i \in 1..(k.parts - 1) |-> Part(server.session, f.data.id, k, 1 + i)]
    <2> HIDE DEF k
    <2>1. PICK x \in 0..MaxSessions : x = server.session
      BY <1>3
    <2>2. PICK y \in Nat : y = f.data.id
      BY <1>3
    <2>3. PICK z \in Kinds : z = k
      BY <1>3
    <2>4. LET q == Parts(x, y, z, z.parts) IN
          /\ Head(q) = Part(x, y, z, 1) /\ Part(x, y, z, 1) \in Data /\ Tail(q) \in Seq(Data)
          /\ Tail(q) = [i \in 1..(z.parts - 1) |-> Part(x, y, z, 1 + i)]
      BY AnswerIs
    <2> QED BY <2>1, <2>2, <2>3, <2>4
  <1>5. next \in Senders
    BY <1>1, SendersTyped DEF Servers
  <1>6. /\ Checked(server, f) \in Servers
        /\ Checked(server, f).receiver = [nr |-> f.nr, ns |-> f.ns]
    BY <1>1, <1>2, CheckedServer
  <1>7. \E r \in Numbers : Checked(server, f) = [server EXCEPT !.receiver = r]
    BY <1>1, <1>2, CheckedServer
  <1>8. /\ server' = [Checked(server, f) EXCEPT !.sender = next, !.request = << >>,
                        !.rest = Tail(answer), !.count = @ + 1,
                        !.transaction = @ \/ k.flagged, !.heard = f.ns,
                        !.sent = Head(answer)]
        /\ Reply(I(next, k.parts > 1, Head(answer)))
        /\ whole' = (whole /\ Append(server.request, f.data)
                                   = Parts(server.session, f.data.id, k, k.frames))
    BY DEF HandleRequest
  <1> HIDE DEF answer, next
  <1>9. /\ server' \in Servers /\ server'.sender = next /\ server'.request = << >>
        /\ server'.rest = Tail(answer) /\ server'.count = server.count + 1
        /\ server'.transaction = (server.transaction \/ k.flagged)
        /\ server'.heard = f.ns /\ server'.sent = Head(answer)
        /\ server'.session = server.session /\ server'.receiver.ns = f.ns
    <2>1. PICK c \in Servers : c = Checked(server, f)
      BY <1>6
    <2>2. /\ c.session = server.session /\ c.count = server.count
          /\ c.transaction = server.transaction
      BY <1>1, <1>7, <2>1 DEF Servers
    <2>3. PICK none \in Seq(Data) : none = << >>
      BY EmptyTyped
    <2>4. PICK n \in 0..7 : n = f.ns
      BY <1>2
    <2>5. PICK h \in Data : h = Head(answer)
      BY <1>4
    <2>6. PICK t \in Seq(Data) : t = Tail(answer)
      BY <1>4
    <2>7. PICK m \in Nat : m = server.count + 1
      BY <1>1 DEF Servers
    <2>8. PICK b \in BOOLEAN : b = (server.transaction \/ k.flagged)
      OBVIOUS
    <2>9. server' = [c EXCEPT !.sender = next, !.request = none, !.rest = t, !.count = m,
                        !.transaction = b, !.heard = n, !.sent = h]
      <3>1. server' = [c EXCEPT !.sender = next, !.request = << >>,
                        !.rest = Tail(answer), !.count = c.count + 1,
                        !.transaction = c.transaction \/ k.flagged, !.heard = f.ns,
                        !.sent = Head(answer)]
        BY <1>8, <2>1 DEF Servers
      <3> HIDE DEF k
      <3> QED BY <2>2, <2>3, <2>4, <2>5, <2>6, <2>7, <2>8, <3>1
    <2>10. server' \in Servers
      BY <1>5, <2>9 DEF Servers
    <2>11. /\ server'.sender = next /\ server'.request = none /\ server'.rest = t
           /\ server'.count = m /\ server'.transaction = b /\ server'.heard = n
           /\ server'.sent = h /\ server'.session = c.session
           /\ server'.receiver = c.receiver
      BY <2>9 DEF Servers
    <2>12. c.receiver.ns = f.ns
      BY <1>6, <2>1
    <2> QED BY <2>2, <2>3, <2>4, <2>5, <2>6, <2>7, <2>8, <2>10, <2>11, <2>12
  <1>10. toClient' = Append(toClient, I(next, k.parts > 1, Head(answer)))
    BY <1>8 DEF Reply
  <1>11. toClient' \in Seq(Replies)
    <2>1. (k.parts > 1) \in BOOLEAN
      OBVIOUS
    <2>2. I(next, k.parts > 1, Head(answer)) \in Replies
      BY <1>4, <1>5, <2>1, FramesTyped
    <2> QED BY <1>1, <1>8, <2>2, ReplyTyped
  <1>12. f.ns = Inc(server.receiver.ns)
    BY <1>1, ServerChecks DEF HandleRequest
  <1> QED BY <1>3, <1>4, <1>8, <1>9, <1>10, <1>11, <1>12

(* RR: there is more of the answer, or only an empty frame, or nothing     *)
LEMMA GetNextFrameEffect ==
    ASSUME Types, NEW f, GetNextFrame(f)
    PROVE  /\ server' \in Servers /\ toClient' \in Seq(Replies)
           /\ server'.session = server.session /\ server'.request = server.request
           /\ server'.transaction = server.transaction
           /\ server'.count = server.count /\ server'.heard = server.heard
           /\ server'.receiver.ns = server.receiver.ns
           /\ server.rest # << >> =>
                 /\ server'.rest = Tail(server.rest) /\ server'.sent = Head(server.rest)
                 /\ server'.sender.ns = IF server.transaction THEN Inc(server.sender.ns)
                                          ELSE Inc(Inc(server.sender.ns))
                 /\ toClient' = Append(toClient, I(server'.sender, Len(server.rest) > 1, server'.sent))
           /\ server.rest = << >> /\ server.transaction =>
                 /\ server'.rest = << >> /\ server'.sent = NextPart(server.sent)
                 /\ server'.sender.ns = Inc(server.sender.ns)
                 /\ toClient' = Append(toClient, I(server'.sender, FALSE, server'.sent))
           /\ server.rest = << >> /\ ~server.transaction =>
                 /\ server'.rest = << >> /\ server'.sent = server.sent
                 /\ server'.sender.ns = server.sender.ns
                 /\ \E n \in 0..7 : toClient' = Append(toClient, RR(n))
  <1> DEFINE rest == server.rest
             data == IF rest # << >> THEN Head(rest) ELSE NextPart(server.sent)
             next == CASE rest # << >> /\ server.transaction -> getNextSend(server.sender, FALSE)
                       [] rest # << >> /\ ~server.transaction ->
                              getNextSend(getNextSend(server.sender, FALSE), TRUE)
                       [] rest = << >> /\ server.transaction -> getNextSend(server.sender, TRUE)
                       [] OTHER -> getKeepAlive(server.sender)
             left == IF rest = << >> THEN rest ELSE Tail(rest)
             sent == IF rest # << >> \/ server.transaction THEN data ELSE server.sent
  <1>1. Lines /\ Takes(f) /\ f.type = "RR" /\ server \in Servers
    BY DEF GetNextFrame, Types
  <1>2. f.type \in FrameTypes /\ f.nr \in 0..7 /\ f.ns \in 0..7
    BY <1>1, TakesTyped
  <1>3. /\ rest \in Seq(Data) /\ server.sent \in Data /\ server.sender \in Senders
        /\ server.transaction \in BOOLEAN
    BY <1>1 DEF Servers
  <1>4. NextPart(server.sent) \in Data
    BY <1>3 DEF NextPart, Data
  <1>5. left \in Seq(Data) /\ data \in Data /\ sent \in Data
    <2>1. CASE rest = << >>
      BY <1>3, <1>4, <2>1
    <2>2. CASE rest # << >>
      BY <1>3, <2>2, TailOf
    <2> QED BY <2>1, <2>2
  <1>6. /\ next \in Senders
        /\ rest # << >> => next.ns = IF server.transaction THEN Inc(server.sender.ns)
                                    ELSE Inc(Inc(server.sender.ns))
        /\ rest = << >> => next.ns = IF server.transaction THEN Inc(server.sender.ns)
                                    ELSE server.sender.ns
    <2>1. CASE rest # << >> /\ server.transaction
      <3>1. next = getNextSend(server.sender, FALSE)
        BY <2>1
      <3> QED BY <1>3, <2>1, <3>1, SendersTyped DEF getNextSend
    <2>2. CASE rest # << >> /\ ~server.transaction
      <3>1. next = getNextSend(getNextSend(server.sender, FALSE), TRUE)
        BY <2>2
      <3>2. getNextSend(server.sender, FALSE) \in Senders
        BY <1>3, SendersTyped
      <3> QED BY <2>2, <3>1, <3>2, SendersTyped DEF getNextSend
    <2>3. CASE rest = << >> /\ server.transaction
      <3>1. next = getNextSend(server.sender, TRUE)
        BY <2>3
      <3> QED BY <1>3, <2>3, <3>1, SendersTyped DEF getNextSend
    <2>4. CASE rest = << >> /\ ~server.transaction
      <3>1. next = getKeepAlive(server.sender)
        BY <2>4
      <3>2. next \in Senders
        BY <1>3, <3>1, SendersTyped
      <3>3. next.ns = server.sender.ns
        BY <1>3, <3>1 DEF getKeepAlive, Senders
      <3> QED BY <2>4, <3>2, <3>3
    <2> QED BY <2>1, <2>2, <2>3, <2>4
  <1>7. Checked(server, f) \in Servers /\ Checked(server, f).receiver.ns = server.receiver.ns
    BY <1>1, <1>2, CheckedServer
  <1>8. \E r \in Numbers : Checked(server, f) = [server EXCEPT !.receiver = r]
    BY <1>1, <1>2, CheckedServer
  <1>9. /\ server' = [Checked(server, f) EXCEPT !.sender = next, !.rest = left,
                        !.sent = IF rest # << >> \/ server.transaction THEN data ELSE @]
        /\ Reply(IF rest # << >> \/ server.transaction THEN I(next, Len(rest) > 1, data)
                                                         ELSE RR(next.nr))
    BY DEF GetNextFrame, RestLeft
  <1>10. server' = [Checked(server, f) EXCEPT !.sender = next, !.rest = left, !.sent = sent]
    <2> HIDE DEF next, left, data
    <2>1. Checked(server, f).sent = server.sent
      BY <1>1, <1>8 DEF Servers
    <2>2. PICK c \in Servers : c = Checked(server, f)
      BY <1>7
    <2>3. server' = [c EXCEPT !.sender = next, !.rest = left,
                        !.sent = IF rest # << >> \/ server.transaction THEN data ELSE c.sent]
      BY <1>9, <2>2 DEF Servers
    <2> QED BY <2>1, <2>2, <2>3
  <1>11. /\ server' \in Servers /\ server'.sender = next /\ server'.rest = left
         /\ server'.sent = sent
    <2> HIDE DEF next, left, data, sent
    <2>1. PICK c \in Servers : c = Checked(server, f)
      BY <1>7
    <2>2. server' = [c EXCEPT !.sender = next, !.rest = left, !.sent = sent]
      BY <1>10, <2>1
    <2> QED BY <1>5, <1>6, <2>2 DEF Servers
  <1>12. /\ server'.session = server.session /\ server'.request = server.request
         /\ server'.transaction = server.transaction
         /\ server'.count = server.count /\ server'.heard = server.heard
         /\ server'.receiver.ns = server.receiver.ns
    <2> HIDE DEF next, left, data, sent
    <2>1. PICK c \in Servers : c = Checked(server, f)
      BY <1>7
    <2>2. /\ server'.session = c.session /\ server'.request = c.request
          /\ server'.transaction = c.transaction
          /\ server'.count = c.count /\ server'.heard = c.heard
          /\ server'.receiver = c.receiver
      BY <1>10, <2>1 DEF Servers
    <2>3. /\ c.session = server.session /\ c.request = server.request
          /\ c.transaction = server.transaction
          /\ c.count = server.count /\ c.heard = server.heard
      BY <1>1, <1>8, <2>1 DEF Servers
    <2> QED BY <1>7, <2>1, <2>2, <2>3
  <1>13. toClient' \in Seq(Replies)
    <2> HIDE DEF next, data
    <2>1. (Len(rest) > 1) \in BOOLEAN
      OBVIOUS
    <2>2. I(next, Len(rest) > 1, data) \in Replies
      BY <1>5, <1>6, <2>1, FramesTyped
    <2>3. RR(next.nr) \in Replies
      BY <1>6, FramesTyped DEF Senders
    <2>4. (IF rest # << >> \/ server.transaction THEN I(next, Len(rest) > 1, data)
                                                         ELSE RR(next.nr)) \in Replies
      BY <2>2, <2>3
    <2> QED BY <1>1, <1>9, <2>4, ReplyTyped
  <1>14. toClient' = Append(toClient, IF rest # << >> \/ server.transaction
                                      THEN I(next, Len(rest) > 1, data) ELSE RR(next.nr))
    BY <1>9 DEF Reply
  <1>15. ASSUME rest # << >>
         PROVE  /\ server'.rest = Tail(rest) /\ server'.sent = Head(rest)
                /\ toClient' = Append(toClient, I(server'.sender, Len(rest) > 1, server'.sent))
    <2> HIDE DEF next
    <2> QED BY <1>11, <1>14, <1>15
  <1>16. ASSUME rest = << >>, server.transaction
         PROVE  /\ server'.rest = << >> /\ server'.sent = NextPart(server.sent)
                /\ toClient' = Append(toClient, I(server'.sender, FALSE, server'.sent))
    <2>1. (Len(rest) > 1) = FALSE
      BY <1>16
    <2> HIDE DEF next
    <2> QED BY <1>11, <1>14, <1>16, <2>1
  <1>17. ASSUME rest = << >>, ~server.transaction
         PROVE  /\ server'.rest = << >> /\ server'.sent = server.sent
                /\ \E n \in 0..7 : toClient' = Append(toClient, RR(n))
    <2> HIDE DEF next
    <2>1. next.nr \in 0..7
      BY <1>6 DEF Senders
    <2> QED BY <1>11, <1>14, <1>17, <2>1
  <1> HIDE DEF next
  <1> QED BY <1>6, <1>11, <1>12, <1>13, <1>15, <1>16, <1>17

(* The line to the client after a frame that was rejected or damaged *)
AtMostReject == toClient' = toClient \/ toClient' = Append(toClient, U("FRMR", Nobody))

(* A rejection keeps the line to the client typed *)
LEMMA RejectTyped == ASSUME Lines, AtMostReject PROVE toClient' \in Seq(Replies)
  <1>1. Append(toClient, U("FRMR", Nobody)) \in Seq(Replies)
    BY FramesTyped, AppendTo DEF Lines
  <1> QED BY <1>1 DEF AtMostReject, Lines

(* A frame the server rejects changes nothing in it *)
LEMMA RejectFrameEffect ==
    ASSUME Types, NEW f, RejectFrame(f)
    PROVE  server' = server /\ AtMostReject /\ ServerKeeps
  <1>1. server' = server /\ AtMostReject
    BY DEF RejectFrame, AtMostReject, Reply
  <1> QED BY <1>1 DEF ServerKeeps

(* A damaged frame: of the server, it changes numbers only, unless it      *)
(* misleads                                                                *)
LEMMA TakeDamagedEffect ==
    ASSUME Types, NEW f, NEW control \in Controls, NEW cleared \in BOOLEAN,
           TakeDamaged(f, control, cleared)
    PROVE  /\ server' \in Servers /\ AtMostReject
           /\ ~misled' => ServerKeeps /\ Inc(server'.receiver.ns) # server.heard
  <1> DEFINE d == Misread(server, control)
  <1>1. server \in Servers
    BY DEF Types
  <1>2. /\ d \in Servers
        /\ control # "SNRM" => \E r \in Numbers : d = [server EXCEPT !.receiver = r]
    BY <1>1, MisreadServer
  <1>3. /\ AtMostReject
        /\ \/ server' = IF cleared THEN [d EXCEPT !.request = << >>, !.rest = << >>] ELSE d
           \/ server' = server
        /\ misled' = (misled \/ control = "SNRM" \/ (cleared /\ server.request \o server.rest # << >>)
                  \/ Inc(server'.receiver.ns) = server.heard)
    BY DEF TakeDamaged, AtMostReject, Reply
  <1> HIDE DEF d
  <1>4. server' \in Servers
    <2>1. PICK none \in Seq(Data) : none = << >>
      BY EmptyTyped
    <2>2. [d EXCEPT !.request = none, !.rest = none] \in Servers
      BY <1>2 DEF Servers
    <2> QED BY <1>1, <1>2, <1>3, <2>1, <2>2
  <1>5. ASSUME ~misled' PROVE ServerKeeps
    <2>1. control # "SNRM" /\ (cleared => server.request \o server.rest = << >>)
      BY <1>3, <1>5
    <2>2. PICK r \in Numbers : d = [server EXCEPT !.receiver = r]
      BY <1>2, <2>1
    <2>3. CASE server' = server
      BY <2>3 DEF ServerKeeps
    <2>4. CASE ~cleared /\ server' = d
      BY <1>1, <2>2, <2>4 DEF ServerKeeps, Servers
    <2>5. CASE cleared /\ server' = [d EXCEPT !.request = << >>, !.rest = << >>]
      <3>1. server.request = << >> /\ server.rest = << >>
        <4>1. PICK p \in Seq(Data), q \in Seq(Data) : p = server.request /\ q = server.rest
          BY <1>1 DEF Servers
        <4>2. p \o q = << >>
          BY <2>1, <2>5, <4>1
        <4>3. p = << >> /\ q = << >>
          <5>1. Len(p \o q) = Len(p) + Len(q)
            OBVIOUS
          <5>2. Len(p) = 0 /\ Len(q) = 0
            BY <4>2, <5>1
          <5> QED BY <5>2
        <4> QED BY <4>1, <4>3
      <3> QED BY <1>1, <2>2, <2>5, <3>1 DEF ServerKeeps, Servers
    <2> QED BY <1>3, <2>3, <2>4, <2>5
  <1> QED BY <1>3, <1>4, <1>5

-----------------------------------------------------------------------------
(* The client *)

(* The fields of the client which no frame that goes by changes *)
ClientKeeps ==
    /\ client'.at = client.at /\ client'.session = client.session
    /\ client'.frame = client.frame /\ client'.outbox = client.outbox
    /\ client'.got = client.got /\ client'.count = client.count

(* The client opens a session, or goes away *)
LEMMA ConnectEffect ==
    ASSUME Types, Connect
    PROVE  /\ client' \in Clients /\ toServer' \in Seq(Questions) /\ client'.at \in {"snrm", "off"}
           /\ \/ /\ client'.at = "snrm" /\ client'.session = client.session + 1
                 /\ client'.frame.type = "SNRM"
                 /\ client'.frame.data.session = client'.session
                 /\ client'.outbox = << >> /\ client'.got = << >> /\ client'.count = 0
                 /\ client'.missed = 0
                 /\ toServer' = Append(toServer, client'.frame)
              \/ /\ client' = [client EXCEPT !.at = "off"] /\ toServer' = toServer
                 /\ client'.at = "off"
                 /\ client'.session = client.session /\ client'.frame = client.frame
                 /\ client'.outbox = client.outbox /\ client'.got = client.got
                 /\ client'.count = client.count /\ client'.missed = client.missed
  <1>1. client \in Clients /\ Lines
    BY DEF Types
  <1>2. CASE client.session < MaxSessions
    <2> DEFINE f == U("SNRM", [Nobody EXCEPT !.session = client.session + 1])
    <2>1. client' = [client EXCEPT !.at = "snrm", !.session = client.session + 1,
                          !.sender = ClientStart.sender, !.receiver = ClientStart.receiver,
                          !.frame = f, !.tries = 0, !.outbox = << >>, !.got = << >>,
                          !.count = 0, !.missed = 0]
      BY <1>2 DEF Connect
    <2>2. Send(f)
      BY <1>2 DEF Connect
    <2>3. client.session + 1 \in 0..MaxSessions
      BY <1>1, <1>2, BoundAssumption DEF Clients
    <2>4. f \in Questions /\ f.type = "SNRM" /\ f.data.session = client.session + 1
      <3>1. [Nobody EXCEPT !.session = client.session + 1] \in Data
        BY <2>3, FramesTyped DEF Data
      <3>2. f \in Questions
        BY <3>1, FramesTyped
      <3> QED BY <3>2 DEF U, Frame, Nobody
    <2> HIDE DEF f
    <2>5. PICK no \in Seq(Questions) : no = << >>
      BY EmptyTyped
    <2>6. PICK none \in Seq(Data) : none = << >>
      BY EmptyTyped
    <2>7. PICK zero \in Nat : zero = 0
      OBVIOUS
    <2>8. PICK s \in 0..MaxSessions : s = client.session + 1
      BY <2>3
    <2>9. PICK sender \in Senders : sender = ClientStart.sender
      BY StartTyped
    <2>10. PICK receiver \in Numbers : receiver = ClientStart.receiver
      BY StartTyped
    <2>11. PICK tries \in 0..MaxTries : tries = 0
      BY BoundAssumption
    <2>12. PICK at \in {"off", "snrm", "idle", "wait"} : at = "snrm"
      OBVIOUS
    <2>13. client' = [client EXCEPT !.at = at, !.session = s,
                          !.sender = sender, !.receiver = receiver,
                          !.frame = f, !.tries = tries, !.outbox = no, !.got = none,
                          !.count = zero, !.missed = zero]
      BY <2>1, <2>5, <2>6, <2>7, <2>8, <2>9, <2>10, <2>11, <2>12
    <2>14. client' \in Clients
      BY <1>1, <2>4, <2>13 DEF Clients
    <2>15. /\ client'.at = at /\ client'.session = s /\ client'.frame = f
           /\ client'.outbox = no /\ client'.got = none /\ client'.count = zero
           /\ client'.missed = zero
      BY <1>1, <2>13 DEF Clients
    <2>16. toServer' = Append(toServer, f) /\ toServer' \in Seq(Questions)
      BY <1>1, <2>2, <2>4, SendTyped DEF Send
    <2> QED BY <2>4, <2>5, <2>6, <2>7, <2>8, <2>12, <2>14, <2>15, <2>16
  <1>3. CASE ~(client.session < MaxSessions)
    <2>1. client' = [client EXCEPT !.at = "off"] /\ toServer' = toServer
      BY <1>3 DEF Connect
    <2>2. client' \in Clients
      BY <1>1, <2>1 DEF Clients
    <2>3. /\ client'.at = "off"
          /\ client'.session = client.session /\ client'.frame = client.frame
          /\ client'.outbox = client.outbox /\ client'.got = client.got
          /\ client'.count = client.count /\ client'.missed = client.missed
      BY <1>1, <2>1 DEF Clients
    <2> QED BY <1>1, <2>1, <2>2, <2>3 DEF Lines
  <1> QED BY <1>2, <1>3

(* All frames of a request; the first is sent at once *)
RequestFrame(nr, ns, session, id, k, i) ==
    Frame("I", nr, (ns + i - 1) % 8, i < k.frames, Part(session, id, k, i))

RequestFrames(nr, ns, session, id, k) ==
    [i \in 1..k.frames |-> RequestFrame(nr, ns, session, id, k, i)]
OtherFrames(nr, ns, session, id, k) ==
    [i \in 1..(k.frames - 1) |->
        Frame("I", nr, (ns + i) % 8, 1 + i < k.frames, Part(session, id, k, 1 + i))]

(* The frames of a request, one for each part, are typed *)
LEMMA RequestFramesAre ==
    ASSUME NEW nr \in 0..7, NEW ns \in 0..7, NEW s \in 0..MaxSessions, NEW id \in Nat,
           NEW k \in Kinds
    PROVE  LET q == RequestFrames(nr, ns, s, id, k) IN
           /\ Head(q) = Frame("I", nr, ns, 1 < k.frames, Part(s, id, k, 1))
           /\ Head(q) \in Questions
           /\ Tail(q) \in Seq(Questions)
           /\ Tail(q) = OtherFrames(nr, ns, s, id, k)
           /\ q[k.frames].ns \in 0..7
  <1> DEFINE q == RequestFrames(nr, ns, s, id, k)
             r == OtherFrames(nr, ns, s, id, k)
  <1>1. k.frames \in Nat /\ k.frames >= 1 /\ k.frames - 1 \in Nat
    BY KindTyped
  <1>2. \A i \in 1..k.frames : RequestFrame(nr, ns, s, id, k, i) \in Questions
    <2> TAKE i \in 1..k.frames
    <2>1. Part(s, id, k, i) \in Data /\ Part(s, id, k, i).kind = k
      BY <1>1, PartsAre DEF Part
    <2>2. (ns + i - 1) % 8 \in 0..7
      BY <1>1
    <2>3. (i < k.frames) \in BOOLEAN
      OBVIOUS
    <2> QED BY <2>1, <2>2, <2>3 DEF RequestFrame, Frame, Questions, Frames, FrameTypes
  <1>3. q \in Seq(Questions) /\ Len(q) = k.frames
    <2>1. q \in [1..k.frames -> Questions]
      BY <1>2 DEF RequestFrames
    <2> HIDE DEF q
    <2> QED BY <1>1, <2>1, SeqOf
  <1>4. \A i \in 1..k.frames : q[i] = RequestFrame(nr, ns, s, id, k, i)
    BY DEF RequestFrames
  <1>12. \A i \in 1..(k.frames - 1) : r[i] =
           Frame("I", nr, (ns + i) % 8, 1 + i < k.frames, Part(s, id, k, 1 + i))
    BY DEF OtherFrames
  <1>13. r = [i \in 1..(k.frames - 1) |-> r[i]]
    BY DEF OtherFrames
  <1> HIDE DEF q, r
  <1>5. q # << >>
    BY <1>1, <1>3
  <1>6. /\ Tail(q) \in Seq(Questions) /\ Head(q) = q[1] /\ Len(Tail(q)) = Len(q) - 1
        /\ Head(q) \in Questions
        /\ \A i \in 1..(Len(q) - 1) : Tail(q)[i] = q[i + 1]
    BY <1>3, <1>5, TailOf
  <1>7. Head(q) = Frame("I", nr, ns, 1 < k.frames, Part(s, id, k, 1))
    <2>1. Head(q) = RequestFrame(nr, ns, s, id, k, 1)
      BY <1>1, <1>4, <1>6
    <2>2. (ns + 1 - 1) % 8 = ns
      OBVIOUS
    <2> QED BY <2>1, <2>2 DEF RequestFrame
  <1>8. \A i \in 1..(k.frames - 1) : Tail(q)[i] = r[i]
    <2> TAKE i \in 1..(k.frames - 1)
    <2>1. i + 1 \in 1..k.frames
      BY <1>1
    <2>2. Tail(q)[i] = RequestFrame(nr, ns, s, id, k, i + 1)
      BY <1>1, <1>3, <1>4, <1>6, <2>1
    <2>3. ns + (i + 1) - 1 = ns + i /\ i + 1 = 1 + i
      BY <1>1
    <2> QED BY <1>12, <2>2, <2>3 DEF RequestFrame
  <1>9. r \in Seq(Questions) /\ Len(r) = k.frames - 1
    <2>1. \A i \in 1..(k.frames - 1) : r[i] \in Questions
      <3> TAKE i \in 1..(k.frames - 1)
      <3>1. PICK t \in Seq(Questions) : t = Tail(q)
        BY <1>6
      <3>2. i \in 1..Len(t)
        BY <1>1, <1>3, <1>6, <3>1
      <3>3. t[i] \in Questions
        BY <3>2
      <3> QED BY <1>8, <3>1, <3>3
    <2>3. r \in [1..(k.frames - 1) -> Questions]
      BY <1>13, <2>1
    <2> QED BY <1>1, <2>3, SeqOf
  <1>10. Tail(q) = r
    <2>1. Len(Tail(q)) = Len(r)
      BY <1>3, <1>6, <1>9
    <2>2. \A i \in 1..Len(r) : Tail(q)[i] = r[i]
      BY <1>8, <1>9
    <2> QED BY <1>6, <1>9, <2>1, <2>2, SeqEqual
  <1>11. q[k.frames].ns \in 0..7
    <2>1. q[k.frames] \in Questions
      BY <1>1, <1>3
    <2> QED BY <2>1 DEF Questions, Frames
  <1> QED BY <1>6, <1>7, <1>10, <1>11 DEF q, r

(* The client sends the first frame of a request and holds the others *)
LEMMA AskEffect ==
    ASSUME Types, NEW k \in Kinds, Ask(k)
    PROVE  /\ client' \in Clients /\ toServer' \in Seq(Questions)
           /\ client.at = "idle" /\ done < MaxRequests /\ kind' = k
           /\ client'.at = "wait" /\ client'.session = client.session
           /\ client'.count = client.count /\ client'.missed = client.missed
           /\ client'.got = << >>
           /\ \E nr \in 0..7, ns \in 0..7 :
                /\ client'.frame = Frame("I", nr, ns, 1 < k.frames, Part(client.session, done + 1, k, 1))
                /\ client'.outbox = OtherFrames(nr, ns, client.session, done + 1, k)
           /\ toServer' = Append(toServer, client'.frame)
  <1> DEFINE first  == getNextSend(client.sender, TRUE)
             frames == RequestFrames(first.nr, first.ns, client.session, done + 1, k)
  <1>1. client \in Clients /\ Lines /\ done \in 0..MaxRequests
    BY DEF Types
  <1>2. first \in Senders /\ first.nr \in 0..7 /\ first.ns \in 0..7
    <2>1. first \in Senders
      BY <1>1, SendersTyped DEF Clients
    <2> QED BY <2>1 DEF Senders
  <1>3. client.session \in 0..MaxSessions /\ done + 1 \in Nat /\ k.frames \in Nat \ {0}
    BY <1>1, KindTyped, BoundAssumption DEF Clients
  <1>4. /\ client' = [client EXCEPT !.at = "wait", !.frame = Head(frames), !.tries = 0,
                        !.outbox = Tail(frames), !.got = << >>,
                        !.sender = [first EXCEPT !.ns = frames[k.frames].ns]]
        /\ Send(Head(frames))
    <2>1. Parts(client.session, done + 1, k, k.frames)
             = [i \in 1..k.frames |-> Part(client.session, done + 1, k, i)]
      BY DEF Parts, Part
    <2>2. [i \in 1..k.frames |-> Frame("I", first.nr, (first.ns + i - 1) % 8, i < k.frames,
                                       Parts(client.session, done + 1, k, k.frames)[i])] = frames
      BY <2>1 DEF RequestFrames, RequestFrame
    <2> HIDE DEF frames
    <2> QED BY <2>2 DEF Ask
  <1>5. client.at = "idle" /\ done < MaxRequests /\ kind' = k
    BY DEF Ask
  <1>6. /\ Head(frames) = Frame("I", first.nr, first.ns, 1 < k.frames,
                                 Part(client.session, done + 1, k, 1))
        /\ Head(frames) \in Questions /\ Tail(frames) \in Seq(Questions)
        /\ Tail(frames) = OtherFrames(first.nr, first.ns, client.session, done + 1, k)
        /\ frames[k.frames].ns \in 0..7
    <2> HIDE DEF first
    <2>1. PICK x \in 0..MaxSessions : x = client.session
      BY <1>3
    <2>2. PICK y \in Nat : y = done + 1
      BY <1>3
    <2>3. PICK nr \in 0..7 : nr = first.nr
      BY <1>2
    <2>4. PICK ns \in 0..7 : ns = first.ns
      BY <1>2
    <2>5. frames = RequestFrames(nr, ns, x, y, k)
      BY <2>1, <2>2, <2>3, <2>4
    <2> HIDE DEF frames
    <2>6. /\ Head(frames) = Frame("I", nr, ns, 1 < k.frames, Part(x, y, k, 1))
          /\ Head(frames) \in Questions /\ Tail(frames) \in Seq(Questions)
          /\ Tail(frames) = OtherFrames(nr, ns, x, y, k)
          /\ frames[k.frames].ns \in 0..7
      BY <2>5, RequestFramesAre, Zenon
    <2> QED BY <2>1, <2>2, <2>3, <2>4, <2>6, Zenon
  <1> HIDE DEF frames
  <1>7. /\ client' \in Clients /\ client'.at = "wait" /\ client'.session = client.session
        /\ client'.count = client.count /\ client'.missed = client.missed
        /\ client'.got = << >> /\ client'.frame = Head(frames) /\ client'.outbox = Tail(frames)
    <2>1. PICK f \in Questions : f = Head(frames)
      BY <1>6
    <2>2. PICK o \in Seq(Questions) : o = Tail(frames)
      BY <1>6
    <2>3. PICK none \in Seq(Data) : none = << >>
      BY EmptyTyped
    <2>4. PICK sender \in Senders : sender = [first EXCEPT !.ns = frames[k.frames].ns]
      <3> HIDE DEF first
      <3>1. PICK n \in 0..7 : n = frames[k.frames].ns
        BY <1>6
      <3>2. [first EXCEPT !.ns = n] \in Senders
        BY <1>2 DEF Senders
      <3> QED BY <3>1, <3>2
    <2>5. PICK tries \in 0..MaxTries : tries = 0
      BY BoundAssumption
    <2>6. PICK at \in {"off", "snrm", "idle", "wait"} : at = "wait"
      OBVIOUS
    <2>7. client' = [client EXCEPT !.at = at, !.frame = f, !.tries = tries,
                        !.outbox = o, !.got = none, !.sender = sender]
      BY <1>4, <2>1, <2>2, <2>3, <2>4, <2>5, <2>6
    <2>8. /\ client' \in Clients /\ client'.at = at /\ client'.session = client.session
          /\ client'.count = client.count /\ client'.missed = client.missed
          /\ client'.got = none /\ client'.frame = f /\ client'.outbox = o
      BY <1>1, <2>7 DEF Clients
    <2> QED BY <2>1, <2>2, <2>3, <2>6, <2>8
  <1>8. toServer' = Append(toServer, Head(frames)) /\ toServer' \in Seq(Questions)
    BY <1>1, <1>4, <1>6, SendTyped DEF Send
  <1> QED BY <1>2, <1>5, <1>6, <1>7, <1>8

(* UA: the session is open *)
LEMMA HearUAEffect ==
    ASSUME Types, NEW f, HearUA(f)
    PROVE  /\ client' \in Clients /\ client.at = "snrm" /\ client' = [client EXCEPT !.at = "idle"]
           /\ client'.at = "idle" /\ client'.session = client.session
           /\ client'.frame = client.frame /\ client'.outbox = client.outbox
           /\ client'.got = client.got /\ client'.count = client.count
           /\ client'.missed = client.missed
           /\ ~misled' => f.data.session = client.session
  <1>1. client \in Clients
    BY DEF Types
  <1>2. client' = [client EXCEPT !.at = "idle"] /\ client.at = "snrm"
    BY DEF HearUA
  <1>3. client' \in Clients
    BY <1>1, <1>2 DEF Clients
  <1>4. ~misled' => f.data.session = client.session
    BY DEF HearUA
  <1> QED BY <1>1, <1>2, <1>3, <1>4 DEF Clients

(* RR: the client sends the next frame of the request *)
LEMMA HearReadyEffect ==
    ASSUME Types, NEW f, HearReady(f)
    PROVE  /\ client' \in Clients /\ toServer' \in Seq(Questions)
           /\ client.at = "wait" /\ client.outbox # << >> /\ f.type = "RR"
           /\ client'.at = "wait" /\ client'.session = client.session
           /\ client'.frame = Head(client.outbox) /\ client'.outbox = Tail(client.outbox)
           /\ client'.got = client.got /\ client'.count = client.count
           /\ client'.missed = client.missed
           /\ toServer' = Append(toServer, client'.frame)
  <1>1. client \in Clients /\ Lines /\ Hears(f) /\ f.type = "RR"
    BY DEF Types, HearReady
  <1>2. f.type \in FrameTypes /\ f.nr \in 0..7 /\ f.ns \in 0..7
    BY <1>1, HearsTyped
  <1>3. /\ client' = [Checked(client, f) EXCEPT !.frame = Head(client.outbox), !.tries = 0,
                     !.outbox = Tail(client.outbox)]
        /\ client.at = "wait" /\ client.outbox # << >> /\ Send(Head(client.outbox))
    BY DEF HearReady
  <1>4. Checked(client, f) \in Clients /\ \E r \in Numbers : Checked(client, f) = [client EXCEPT !.receiver = r]
    BY <1>1, <1>2, CheckedClient
  <1>5. client.outbox \in Seq(Questions)
    BY <1>1 DEF Clients
  <1>6. PICK g \in Questions : g = Head(client.outbox)
    BY <1>3, <1>5, TailOf
  <1>7. PICK o \in Seq(Questions) : o = Tail(client.outbox)
    BY <1>3, <1>5, TailOf
  <1>8. PICK c \in Clients : c = Checked(client, f)
    BY <1>4
  <1>9. PICK tries \in 0..MaxTries : tries = 0
    BY BoundAssumption
  <1>10. client' = [c EXCEPT !.frame = g, !.tries = tries, !.outbox = o]
    BY <1>3, <1>6, <1>7, <1>8, <1>9
  <1>11. /\ client' \in Clients /\ client'.frame = g /\ client'.outbox = o
         /\ client'.at = c.at /\ client'.session = c.session /\ client'.got = c.got
         /\ client'.count = c.count /\ client'.missed = c.missed
    BY <1>10 DEF Clients
  <1>12. /\ c.at = client.at /\ c.session = client.session /\ c.got = client.got
         /\ c.count = client.count /\ c.missed = client.missed
    BY <1>1, <1>4, <1>8 DEF Clients
  <1>13. toServer' = Append(toServer, g) /\ toServer' \in Seq(Questions)
    BY <1>1, <1>3, <1>6, SendTyped DEF Send
  <1> QED BY <1>1, <1>3, <1>6, <1>7, <1>11, <1>12, <1>13

(* A part of an answer: the client keeps it, and asks for the next *)
LEMMA HearPartEffect ==
    ASSUME Types, NEW f, HearPart(f)
    PROVE  /\ client' \in Clients /\ toServer' \in Seq(Questions)
           /\ client.at = "wait" /\ client.outbox = << >> /\ f.type = "I" /\ f.more
           /\ client'.at = "wait" /\ client'.session = client.session
           /\ client'.outbox = client.outbox /\ client'.got = Append(client.got, f.data)
           /\ client'.count = client.count /\ client'.missed = 0
           /\ client'.receiver.ns = f.ns
           /\ \E n \in 0..7 : client'.frame = RR(n)
           /\ toServer' = Append(toServer, client'.frame)
           /\ ~misled' => f.ns = Inc(client.receiver.ns)
  <1> DEFINE ready == getReceiverReady(client.sender)
  <1>1. client \in Clients /\ Lines /\ Hears(f) /\ f.type = "I"
    BY DEF Types, HearPart
  <1>2. f.type \in FrameTypes /\ f.nr \in 0..7 /\ f.ns \in 0..7 /\ f.data \in Data
    BY <1>1, HearsTyped
  <1>3. /\ client' = [Checked(client, f) EXCEPT !.sender = ready, !.frame = RR(ready.nr),
                        !.tries = 0, !.got = Append(@, f.data), !.missed = 0]
        /\ client.at = "wait" /\ client.outbox = << >> /\ Send(RR(ready.nr)) /\ f.more
    BY DEF HearPart
  <1>4. /\ Checked(client, f) \in Clients
        /\ \E r \in Numbers : Checked(client, f) = [client EXCEPT !.receiver = r]
        /\ Checked(client, f).receiver.ns = f.ns
    <2>1. /\ Checked(client, f) \in Clients
          /\ \E r \in Numbers : Checked(client, f) = [client EXCEPT !.receiver = r]
          /\ Checked(client, f).receiver = [nr |-> f.nr, ns |-> f.ns]
      BY <1>1, <1>2, CheckedClient
    <2> QED BY <2>1
  <1>5. ready \in Senders /\ ready.nr \in 0..7
    <2>1. ready \in Senders
      BY <1>1, SendersTyped DEF Clients
    <2> QED BY <2>1 DEF Senders
  <1> HIDE DEF ready
  <1>6. PICK c \in Clients : c = Checked(client, f)
    BY <1>4
  <1>7. /\ c.at = client.at /\ c.session = client.session /\ c.got = client.got
        /\ c.count = client.count /\ c.outbox = client.outbox
    BY <1>1, <1>4, <1>6 DEF Clients
  <1>8. PICK q \in Seq(Data) : q = Append(client.got, f.data)
    <2>1. client.got \in Seq(Data)
      BY <1>1 DEF Clients
    <2> QED BY <1>2, <2>1, AppendTo
  <1>9. PICK tries \in 0..MaxTries : tries = 0
    BY BoundAssumption
  <1>10. PICK zero \in Nat : zero = 0
    OBVIOUS
  <1>11. PICK g \in Questions : g = RR(ready.nr)
    BY <1>5, FramesTyped
  <1>12. client' = [c EXCEPT !.sender = ready, !.frame = g, !.tries = tries, !.got = q, !.missed = zero]
    BY <1>3, <1>6, <1>7, <1>8, <1>9, <1>10, <1>11 DEF Clients
  <1>13. /\ client' \in Clients /\ client'.frame = g /\ client'.outbox = c.outbox
         /\ client'.at = c.at /\ client'.session = c.session /\ client'.got = q
         /\ client'.count = c.count /\ client'.missed = zero /\ client'.receiver = c.receiver
    BY <1>5, <1>12 DEF Clients
  <1>14. toServer' = Append(toServer, g) /\ toServer' \in Seq(Questions)
    BY <1>1, <1>3, <1>11, SendTyped DEF Send
  <1>15. ~misled' => f.ns = Inc(client.receiver.ns)
    BY <1>1 DEF HearPart, Guessed, NextNumber
  <1> QED BY <1>1, <1>3, <1>4, <1>5, <1>6, <1>7, <1>8, <1>10, <1>11, <1>13, <1>14, <1>15

(* The last part: the client is done, and its history compares *)
LEMMA HearAnswerEffect ==
    ASSUME Types, NEW f, HearAnswer(f)
    PROVE  /\ client' \in Clients /\ client.at = "wait" /\ client.outbox = << >>
           /\ f.type = "I" /\ ~f.more /\ ~(NoPart(f.data) /\ client.got = << >>)
           /\ client'.at = "idle" /\ client'.session = client.session
           /\ client'.frame = client.frame
           /\ client'.outbox = client.outbox /\ client'.got = << >>
           /\ client'.count = client.count + 1 /\ client'.missed = 0
           /\ ~misled' => f.ns = Inc(client.receiver.ns)
  <1>1. client \in Clients /\ Lines /\ Hears(f) /\ f.type = "I"
    BY DEF Types, HearAnswer
  <1>2. f.type \in FrameTypes /\ f.nr \in 0..7 /\ f.ns \in 0..7
    BY <1>1, HearsTyped
  <1>3. client' = [Checked(client, f) EXCEPT !.at = "idle", !.got = << >>, !.count = @ + 1,
                                       !.missed = 0]
    BY DEF HearAnswer
  <1>4. /\ Checked(client, f) \in Clients
        /\ \E r \in Numbers : Checked(client, f) = [client EXCEPT !.receiver = r]
    BY <1>1, <1>2, CheckedClient
  <1>6. PICK c \in Clients : c = Checked(client, f)
    BY <1>4
  <1>7. /\ c.session = client.session /\ c.frame = client.frame
        /\ c.count = client.count /\ c.outbox = client.outbox
    BY <1>1, <1>4, <1>6 DEF Clients
  <1>8. PICK none \in Seq(Data) : none = << >>
    BY EmptyTyped
  <1>9. PICK at \in {"off", "snrm", "idle", "wait"} : at = "idle"
    OBVIOUS
  <1>10. PICK zero \in Nat : zero = 0
    OBVIOUS
  <1>11. PICK n \in Nat : n = client.count + 1
    BY <1>1 DEF Clients
  <1>12. client' = [c EXCEPT !.at = at, !.got = none, !.count = n, !.missed = zero]
    BY <1>3, <1>6, <1>7, <1>8, <1>9, <1>10, <1>11 DEF Clients
  <1>13. /\ client' \in Clients /\ client'.frame = c.frame /\ client'.outbox = c.outbox
         /\ client'.at = at /\ client'.session = c.session /\ client'.got = none
         /\ client'.count = n /\ client'.missed = zero
    BY <1>12 DEF Clients
  <1>14. ~misled' => f.ns = Inc(client.receiver.ns)
    BY <1>1 DEF HearAnswer, Guessed, NextNumber
  <1>15. /\ client.at = "wait" /\ client.outbox = << >> /\ ~f.more
         /\ ~(NoPart(f.data) /\ client.got = << >>)
    BY <1>1 DEF HearAnswer, Empty
  <1> QED BY <1>1, <1>7, <1>8, <1>9, <1>10, <1>11, <1>13, <1>14, <1>15

(* A frame that goes by: ignored, damaged or lost *)
Passes ==
    /\ client' \in Clients /\ toClient # << >> /\ toClient' = Tail(toClient)
    /\ toClient' \in Seq(Replies)
    /\ ClientKeeps /\ client'.missed = Missed
    /\ ~misled' => /\ Missed # 8
                   /\ client.at = "wait" /\ client.outbox = << >> /\ client.got # << >>
                         => client'.receiver.ns = client.receiver.ns

(* The count of frames missed is a number *)
LEMMA MissedTyped == ASSUME client \in Clients PROVE Missed \in Nat
  BY DEF Clients, Missed

(* A frame the client ignores passes *)
LEMMA IgnoreEffect ==
    ASSUME Types, NEW f, Ignore(f)
    PROVE  Passes
  <1> DEFINE d == IF checkFrame(client, f) THEN Checked(client, f) ELSE client
  <1>1. client \in Clients /\ Lines /\ Hears(f)
    BY DEF Types, Ignore
  <1>2. /\ f.type \in FrameTypes /\ f.nr \in 0..7 /\ f.ns \in 0..7 /\ f.type # "SNRM"
        /\ toClient # << >> /\ toClient' = Tail(toClient) /\ toClient' \in Seq(Replies)
    BY <1>1, HearsTyped
  <1>3. client' = [d EXCEPT !.missed = Missed] /\ misled' = (misled \/ Round) /\ ~Wanted(f)
    BY DEF Ignore
  <1>4. d \in Clients /\ \E r \in Numbers : d = [client EXCEPT !.receiver = r]
    <2>1. Checked(client, f) \in Clients /\ \E r \in Numbers : Checked(client, f) = [client EXCEPT !.receiver = r]
      BY <1>1, <1>2, CheckedClient
    <2>2. client = [client EXCEPT !.receiver = client.receiver] /\ client.receiver \in Numbers
      BY <1>1 DEF Clients
    <2> QED BY <1>1, <2>1, <2>2
  <1>5. ASSUME client.at = "wait", client.outbox = << >>
        PROVE  d.receiver.ns = client.receiver.ns
    <2>1. CASE ~checkFrame(client, f)
      BY <2>1
    <2>2. CASE checkFrame(client, f)
      <3>1. f.type # "I"
        BY <1>3, <1>5, <2>2 DEF Wanted
      <3>2. f.type \in {"RR", "UA", "FRMR"}
        BY <1>2, <3>1 DEF FrameTypes
      <3>3. Checked(client, f).receiver.ns = client.receiver.ns
        BY <1>1, <1>2, <3>2, CheckedClient
      <3> QED BY <2>2, <3>3
    <2> QED BY <2>1, <2>2
  <1> HIDE DEF d
  <1>6. PICK n \in Nat : n = Missed
    BY <1>1, MissedTyped
  <1>7. PICK c \in Clients : c = d
    BY <1>4
  <1>8. client' = [c EXCEPT !.missed = n]
    BY <1>3, <1>6, <1>7
  <1>9. /\ client' \in Clients /\ client'.missed = n /\ client'.receiver = c.receiver
        /\ client'.at = c.at /\ client'.session = c.session /\ client'.frame = c.frame
        /\ client'.outbox = c.outbox /\ client'.got = c.got /\ client'.count = c.count
    BY <1>8 DEF Clients
  <1>10. /\ c.at = client.at /\ c.session = client.session /\ c.frame = client.frame
         /\ c.outbox = client.outbox /\ c.got = client.got /\ c.count = client.count
    BY <1>1, <1>4, <1>7 DEF Clients
  <1> QED BY <1>2, <1>3, <1>5, <1>6, <1>7, <1>9, <1>10 DEF Passes, ClientKeeps, Round

(* A damaged frame passes, or misleads the client *)
LEMMA HearDamagedEffect ==
    ASSUME Types, NEW control \in Controls, HearDamaged(control)
    PROVE  Passes
  <1> DEFINE d == Misread(client, control)
  <1>1. client \in Clients /\ Lines
    BY DEF Types
  <1>2. toClient # << >> /\ toClient' = Tail(toClient) /\ toClient' \in Seq(Replies)
    BY <1>1, TailOf DEF HearDamaged, Lines
  <1>3. /\ client' = [d EXCEPT !.missed = Missed]
        /\ misled' = (misled \/ (control # "other" /\ client.got # << >>) \/ Round)
    BY DEF HearDamaged
  <1>4. /\ d \in Clients
        /\ \/ \E r \in Numbers : d = [client EXCEPT !.receiver = r]
           \/ \E s \in Senders, r \in Numbers : d = [client EXCEPT !.sender = s, !.receiver = r]
        /\ control = "other" => d = client
    <2>1. /\ d \in Clients
          /\ control # "SNRM" => \E r \in Numbers : d = [client EXCEPT !.receiver = r]
          /\ control = "SNRM" => d =
                 [client EXCEPT !.sender = ClientStart.sender, !.receiver = ClientStart.receiver]
          /\ control = "other" => d = client
      BY <1>1, MisreadClient
    <2> HIDE DEF d
    <2> QED BY <2>1, StartTyped
  <1> HIDE DEF d
  <1>6. PICK n \in Nat : n = Missed
    BY <1>1, MissedTyped
  <1>7. PICK c \in Clients : c = d
    BY <1>4
  <1>8. client' = [c EXCEPT !.missed = n]
    BY <1>3, <1>6, <1>7
  <1>9. /\ client' \in Clients /\ client'.missed = n /\ client'.receiver = c.receiver
        /\ client'.at = c.at /\ client'.session = c.session /\ client'.frame = c.frame
        /\ client'.outbox = c.outbox /\ client'.got = c.got /\ client'.count = c.count
    BY <1>8 DEF Clients
  <1>10. /\ c.at = client.at /\ c.session = client.session /\ c.frame = client.frame
         /\ c.outbox = client.outbox /\ c.got = client.got /\ c.count = client.count
    BY <1>1, <1>4, <1>7 DEF Clients
  <1> QED BY <1>2, <1>3, <1>4, <1>6, <1>7, <1>9, <1>10 DEF Passes, ClientKeeps, Round

(* Lose, at either end *)
LEMMA LoseEffect ==
    ASSUME Types, Lose
    PROVE  \/ /\ toServer # << >> /\ toServer' = Tail(toServer) /\ toServer' \in Seq(Questions)
              /\ UNCHANGED <<toClient, client, misled>>
           \/ Passes /\ UNCHANGED toServer
  <1>1. client \in Clients /\ Lines
    BY DEF Types
  <1>2. ASSUME toServer # << >>, toServer' = Tail(toServer) PROVE toServer' \in Seq(Questions)
    BY <1>1, <1>2, TailOf DEF Lines
  <1>3. ASSUME toClient # << >>, toClient' = Tail(toClient),
               client' = [client EXCEPT !.missed = Missed], misled' = (misled \/ Round)
        PROVE  Passes
    <2>1. toClient' \in Seq(Replies)
      BY <1>1, <1>3, TailOf DEF Lines
    <2>2. PICK n \in Nat : n = Missed
      BY <1>1, MissedTyped
    <2>3. client' = [client EXCEPT !.missed = n]
      BY <1>3, <2>2
    <2>4. /\ client' \in Clients /\ client'.missed = n /\ client'.receiver = client.receiver
          /\ client'.at = client.at /\ client'.session = client.session
          /\ client'.frame = client.frame /\ client'.outbox = client.outbox
          /\ client'.got = client.got /\ client'.count = client.count
      BY <1>1, <2>3 DEF Clients
    <2> QED BY <1>3, <2>1, <2>2, <2>4 DEF Passes, ClientKeeps, Round
  <1> QED BY <1>2, <1>3 DEF Lose

(* The client sends its last frame again *)
LEMMA RepeatEffect ==
    ASSUME Types, NEW isLate \in BOOLEAN, Repeat(isLate)
    PROVE  /\ client' \in Clients /\ toServer' \in Seq(Questions)
           /\ client.at \in {"snrm", "wait"} /\ client' = [client EXCEPT !.tries = @ + 1]
           /\ ClientKeeps /\ client'.missed = client.missed /\ client'.receiver = client.receiver
           /\ toServer' = Append(toServer, client.frame)
  <1>1. client \in Clients /\ Lines
    BY DEF Types
  <1>2. /\ client' = [client EXCEPT !.tries = @ + 1] /\ client.tries < MaxTries
        /\ Send(client.frame) /\ client.at \in {"snrm", "wait"}
    BY DEF Repeat, Waits
  <1>3. PICK tries \in 0..MaxTries : tries = client.tries + 1
    BY <1>1, <1>2, BoundAssumption DEF Clients
  <1>4. client' = [client EXCEPT !.tries = tries]
    BY <1>1, <1>2, <1>3 DEF Clients
  <1>5. /\ client' \in Clients /\ client'.missed = client.missed /\ client'.receiver = client.receiver
        /\ client'.at = client.at /\ client'.session = client.session
        /\ client'.frame = client.frame /\ client'.outbox = client.outbox
        /\ client'.got = client.got /\ client'.count = client.count
    BY <1>1, <1>4 DEF Clients
  <1>6. toServer' = Append(toServer, client.frame) /\ toServer' \in Seq(Questions)
    BY <1>1, <1>2, SendTyped DEF Send, Clients
  <1> QED BY <1>2, <1>5, <1>6 DEF ClientKeeps

-----------------------------------------------------------------------------
(* What is left alone is typed still *)
RestTyped ==
    /\ kind' \in Kinds \cup {NoKind} /\ done' \in 0..MaxRequests /\ faults' \in 0..MaxFaults
    /\ client'.at = "wait" => kind' \in Kinds /\ done' < MaxRequests
    /\ misled' \in BOOLEAN /\ whole' \in BOOLEAN

(* Types from the types of the variables *)
LEMMA TypesFrom ==
    ASSUME server' \in Servers, client' \in Clients,
           toServer' \in Seq(Questions), toClient' \in Seq(Replies), RestTyped
    PROVE  Types'
  BY DEF Types, Lines, RestTyped

(* Faults stay within the bound *)
LEMMA FaultTyped == ASSUME Types, Fault PROVE faults' \in 0..MaxFaults
  BY BoundAssumption DEF Types, Fault

(* The initial states are typed *)
LEMMA TypesInit == ASSUME Init PROVE Types
  <1>1. PICK none \in Seq(Data) : none = << >>
    BY EmptyTyped
  <1>2. PICK no \in Seq(Questions) : no = << >>
    BY EmptyTyped
  <1>3. PICK zero \in Nat : zero = 0
    OBVIOUS
  <1>4. PICK seven \in 0..7 : seven = 7
    OBVIOUS
  <1>5. PICK false \in BOOLEAN : false = FALSE
    OBVIOUS
  <1>6. PICK s \in 0..MaxSessions : s = 0
    BY BoundAssumption
  <1>7. PICK tries \in 0..MaxTries : tries = 0
    BY BoundAssumption
  <1>8. PICK d \in Data : d = Nobody
    BY FramesTyped
  <1>9. PICK g \in Questions : g = U("SNRM", Nobody)
    BY FramesTyped
  <1>10. PICK at \in {"off", "snrm", "idle", "wait"} : at = "off"
    OBVIOUS
  <1>11. PICK s1 \in Senders, r1 \in Numbers : s1 = ServerStart.sender /\ r1 = ServerStart.receiver
    BY StartTyped
  <1>12. PICK s2 \in Senders, r2 \in Numbers : s2 = ClientStart.sender /\ r2 = ClientStart.receiver
    BY StartTyped
  <1>13. server \in Servers
    <2>1. server = [role |-> "server", session |-> s, sender |-> s1,
                 receiver |-> r1, request |-> none,
                 rest |-> none, transaction |-> false, count |-> zero, heard |-> seven,
                 sent |-> d]
      BY <1>1, <1>3, <1>4, <1>5, <1>6, <1>8, <1>11 DEF Init
    <2> QED BY <2>1 DEF Servers
  <1>14. client \in Clients
    <2>1. client = [role |-> "client", at |-> at, session |-> s, sender |-> s2, receiver |-> r2,
                 frame |-> g, tries |-> tries, outbox |-> no,
                 got |-> none, count |-> zero, missed |-> zero]
      BY <1>1, <1>2, <1>3, <1>6, <1>7, <1>9, <1>10, <1>12 DEF Init
    <2> QED BY <2>1 DEF Clients
  <1>15. Lines
    <2>1. toServer = << >> /\ toClient = << >>
      BY DEF Init
    <2> QED BY <2>1, EmptyTyped DEF Lines
  <1>16. /\ kind \in Kinds \cup {NoKind} /\ done \in 0..MaxRequests /\ faults \in 0..MaxFaults
         /\ client.at = "off" /\ misled \in BOOLEAN /\ whole \in BOOLEAN
    <2>1. /\ kind = NoKind /\ done = 0 /\ faults = 0 /\ client.at = "off"
          /\ misled = FALSE /\ whole = TRUE
      BY DEF Init
    <2>2. misled \in BOOLEAN /\ whole \in BOOLEAN
      BY <2>1
    <2> QED BY <2>1, <2>2, BoundAssumption
  <1> QED BY <1>13, <1>14, <1>15, <1>16 DEF Types

(* The steps of the server keep Types *)
LEMMA TypesServe == ASSUME Types, Serve PROVE Types'
  <1>1. PICK f \in {toServer[i] : i \in DOMAIN toServer} :
           HandleSnrm(f) \/ RejectFrame(f) \/ TakePart(f) \/ HandleRequest(f) \/ GetNextFrame(f)
    BY DEF Serve
  <1>2. Lines /\ server \in Servers /\ client \in Clients /\ whole \in BOOLEAN
    BY DEF Types
  <1>3. Takes(f) /\ Others
    BY <1>1 DEF HandleSnrm, RejectFrame, TakePart, HandleRequest, GetNextFrame
  <1>4. toServer' \in Seq(Questions)
    BY <1>2, <1>3, TakesTyped
  <1>5. whole' \in BOOLEAN
    BY <1>1, <1>2 DEF HandleSnrm, RejectFrame, TakePart, HandleRequest, GetNextFrame
  <1>6. RestTyped /\ client' \in Clients
    BY <1>2, <1>3, <1>5 DEF Types, RestTyped, Others
  <1>7. server' \in Servers /\ toClient' \in Seq(Replies)
    <2>1. CASE HandleSnrm(f)
      BY <2>1, HandleSnrmEffect
    <2>2. CASE RejectFrame(f)
      BY <1>2, <2>2, RejectFrameEffect, RejectTyped
    <2>3. CASE TakePart(f)
      BY <2>3, TakePartEffect
    <2>4. CASE HandleRequest(f)
      BY <2>4, HandleRequestEffect
    <2>5. CASE GetNextFrame(f)
      BY <2>5, GetNextFrameEffect
    <2> QED BY <1>1, <2>1, <2>2, <2>3, <2>4, <2>5
  <1> QED BY <1>4, <1>6, <1>7, TypesFrom

(* The steps of the client at a frame keep Types *)
LEMMA TypesHear == ASSUME Types, Hear PROVE Types'
  <1>1. PICK f \in {toClient[i] : i \in DOMAIN toClient} :
           HearUA(f) \/ HearReject(f) \/ HearReady(f) \/ HearPart(f) \/ HearAnswer(f) \/ Ignore(f)
    BY DEF Hear
  <1>2. Lines /\ server \in Servers /\ client \in Clients /\ whole \in BOOLEAN /\ misled \in BOOLEAN
        /\ toServer \in Seq(Questions)
    BY DEF Types, Lines
  <1>3. Hears(f) /\ UNCHANGED <<server, faults>>
    BY <1>1 DEF HearUA, HearReject, HearReady, HearPart, HearAnswer, Ignore
  <1>4. toClient' \in Seq(Replies) /\ server' \in Servers
    BY <1>2, <1>3, HearsTyped
  <1>5. whole' \in BOOLEAN /\ misled' \in BOOLEAN /\ faults' \in 0..MaxFaults
    BY <1>1, <1>2, <1>3 DEF HearUA, HearReject, HearReady, HearPart, HearAnswer, Ignore, Guessed, Types
  <1>6. CASE HearUA(f)
    <2>1. client' \in Clients /\ client'.at = "idle"
      BY <1>6, HearUAEffect
    <2>2. RestTyped /\ toServer' \in Seq(Questions)
      BY <1>2, <1>5, <1>6, <2>1 DEF HearUA, Types, RestTyped
    <2> QED BY <1>4, <2>1, <2>2, TypesFrom
  <1>7. CASE HearReject(f)
    <2>1. client' \in Clients /\ client'.at \in {"snrm", "off"} /\ toServer' \in Seq(Questions)
      BY <1>7, ConnectEffect DEF HearReject
    <2>2. RestTyped
      BY <1>5, <1>7, <2>1 DEF HearReject, Types, RestTyped
    <2> QED BY <1>4, <2>1, <2>2, TypesFrom
  <1>8. CASE HearReady(f)
    <2>1. client' \in Clients /\ client.at = "wait" /\ toServer' \in Seq(Questions)
      BY <1>8, HearReadyEffect
    <2>2. RestTyped
      BY <1>5, <1>8, <2>1 DEF HearReady, Types, RestTyped
    <2> QED BY <1>4, <2>1, <2>2, TypesFrom
  <1>9. CASE HearPart(f)
    <2>1. client' \in Clients /\ client.at = "wait" /\ toServer' \in Seq(Questions)
      BY <1>9, HearPartEffect
    <2>2. RestTyped
      BY <1>5, <1>9, <2>1 DEF HearPart, Types, RestTyped
    <2> QED BY <1>4, <2>1, <2>2, TypesFrom
  <1>10. CASE HearAnswer(f)
    <2>1. client' \in Clients /\ client.at = "wait" /\ client'.at = "idle"
      BY <1>10, HearAnswerEffect
    <2>2. done' \in 0..MaxRequests
      BY <1>10, <2>1, BoundAssumption DEF HearAnswer, Types
    <2>3. RestTyped /\ toServer' \in Seq(Questions)
      BY <1>2, <1>5, <1>10, <2>1, <2>2 DEF HearAnswer, RestTyped
    <2> QED BY <1>4, <2>1, <2>3, TypesFrom
  <1>11. CASE Ignore(f)
    <2>1. client' \in Clients /\ client'.at = client.at
      BY <1>11, IgnoreEffect DEF Passes, ClientKeeps
    <2>2. RestTyped /\ toServer' \in Seq(Questions)
      BY <1>2, <1>5, <1>11, <2>1 DEF Ignore, Types, RestTyped
    <2> QED BY <1>4, <2>1, <2>2, TypesFrom
  <1> QED BY <1>1, <1>6, <1>7, <1>8, <1>9, <1>10, <1>11

(* Every step keeps Types *)
LEMMA TypesNext == ASSUME Types, [Next]_vars PROVE Types'
  <1>1. Lines /\ server \in Servers /\ client \in Clients /\ whole \in BOOLEAN /\ misled \in BOOLEAN
        /\ toServer \in Seq(Questions) /\ toClient \in Seq(Replies)
    BY DEF Types, Lines
  <1>2. CASE Begin
    <2>1. client' \in Clients /\ client'.at \in {"snrm", "off"} /\ toServer' \in Seq(Questions)
      BY <1>2, ConnectEffect DEF Begin
    <2>2. RestTyped /\ server' \in Servers /\ toClient' \in Seq(Replies)
      BY <1>1, <1>2, <2>1 DEF Begin, Types, RestTyped
    <2> QED BY <2>1, <2>2, TypesFrom
  <1>3. CASE GiveUp
    <2>1. client' \in Clients /\ client'.at \in {"snrm", "off"} /\ toServer' \in Seq(Questions)
      BY <1>3, ConnectEffect DEF GiveUp
    <2>2. RestTyped /\ server' \in Servers /\ toClient' \in Seq(Replies)
      BY <1>1, <1>3, <2>1 DEF GiveUp, Types, RestTyped
    <2> QED BY <2>1, <2>2, TypesFrom
  <1>4. CASE Lose
    <2>1. /\ client' \in Clients /\ client'.at = client.at
          /\ toServer' \in Seq(Questions) /\ toClient' \in Seq(Replies)
      BY <1>1, <1>4, LoseEffect DEF Passes, ClientKeeps
    <2>2. faults' \in 0..MaxFaults
      BY <1>4, FaultTyped DEF Lose
    <2>3. misled' \in BOOLEAN
      BY <1>1, <1>4 DEF Lose
    <2>4. RestTyped /\ server' \in Servers
      BY <1>1, <1>4, <2>1, <2>2, <2>3 DEF Lose, Types, RestTyped
    <2> QED BY <2>1, <2>4, TypesFrom
  <1>5. ASSUME NEW k \in Kinds, Ask(k) PROVE Types'
    <2>1. client' \in Clients /\ toServer' \in Seq(Questions) /\ done < MaxRequests /\ kind' = k
      BY <1>5, AskEffect
    <2>2. RestTyped /\ server' \in Servers /\ toClient' \in Seq(Replies)
      BY <1>1, <1>5, <2>1 DEF Ask, Types, RestTyped
    <2> QED BY <2>1, <2>2, TypesFrom
  <1>6. ASSUME NEW isLate \in BOOLEAN, Repeat(isLate) PROVE Types'
    <2>1. client' \in Clients /\ client'.at = client.at /\ toServer' \in Seq(Questions)
      BY <1>6, RepeatEffect DEF ClientKeeps
    <2>2. faults' \in 0..MaxFaults
      <3>1. faults' = faults \/ Fault
        BY <1>6 DEF Repeat
      <3> QED BY <3>1, FaultTyped DEF Types
    <2>3. RestTyped /\ server' \in Servers /\ toClient' \in Seq(Replies)
      BY <1>1, <1>6, <2>1, <2>2 DEF Repeat, Types, RestTyped
    <2> QED BY <2>1, <2>3, TypesFrom
  <1>7. ASSUME NEW control \in Controls, Damaged(control) PROVE Types'
    <2>1. CASE \E f \in {toServer[i] : i \in DOMAIN toServer}, cleared \in BOOLEAN :
                  TakeDamaged(f, control, cleared)
      <3>1. PICK f \in {toServer[i] : i \in DOMAIN toServer}, cleared \in BOOLEAN :
               TakeDamaged(f, control, cleared)
        BY <2>1
      <3>2. server' \in Servers /\ AtMostReject
        BY <3>1, TakeDamagedEffect
      <3>3. toServer' \in Seq(Questions) /\ toClient' \in Seq(Replies)
        BY <1>1, <3>1, <3>2, TakesTyped, RejectTyped DEF TakeDamaged
      <3>4. faults' \in 0..MaxFaults
        BY <3>1, FaultTyped DEF TakeDamaged
      <3>5. misled' \in BOOLEAN
        BY <1>1, <3>1 DEF TakeDamaged
      <3>6. RestTyped /\ client' \in Clients
        BY <1>1, <3>1, <3>4, <3>5 DEF TakeDamaged, Types, RestTyped
      <3> QED BY <3>2, <3>3, <3>6, TypesFrom
    <2>2. CASE HearDamaged(control)
      <3>1. client' \in Clients /\ client'.at = client.at /\ toClient' \in Seq(Replies)
        BY <2>2, HearDamagedEffect DEF Passes, ClientKeeps
      <3>2. faults' \in 0..MaxFaults
        BY <2>2, FaultTyped DEF HearDamaged
      <3>3. misled' \in BOOLEAN
        BY <1>1, <2>2 DEF HearDamaged
      <3>4. RestTyped /\ server' \in Servers /\ toServer' \in Seq(Questions)
        BY <1>1, <2>2, <3>1, <3>2, <3>3 DEF HearDamaged, Types, RestTyped
      <3> QED BY <3>1, <3>4, TypesFrom
    <2> QED BY <1>7, <2>1, <2>2 DEF Damaged
  <1>8. CASE UNCHANGED vars
    BY <1>8 DEF vars, link, Types, Lines
  <1> QED BY <1>2, <1>3, <1>4, <1>5, <1>6, <1>7, <1>8, TypesServe, TypesHear DEF Next

(* Types gives TypeOK *)
LEMMA TypesImplyTypeOK == ASSUME Types PROVE TypeOK
  BY DEF Types, TypeOK, Servers, Clients

(* Every value is one the code can have *)
THEOREM TypeCorrect == Spec => []TypeOK
  <1>1. Spec => []Types
    BY TypesInit, TypesNext, PTL DEF Spec
  <1> QED BY <1>1, TypesImplyTypeOK, PTL

-----------------------------------------------------------------------------
(* The numbers of damaged frames have not gone round to the last I-frame   *)
InRange == Inc(server.receiver.ns) # server.heard

(* Sessions.  Open: the UA of its last SNRM has come to the client.        *)
Open == client.at = "idle" \/ client.frame.type # "SNRM"
Same == server.session = client.session

(* A server that has had nothing but SNRM *)
Fresh ==
    /\ server.count = 0 /\ server.request = << >> /\ server.rest = << >>
    /\ ~server.transaction /\ server.heard = 7

(* The server is in the session of the client, or in an earlier one *)
Sessions ==
    /\ server.session <= client.session
    /\ Open => Same
    /\ client.at = "off" /\ ~Open => toServer = << >>
    /\ client.at = "snrm" =>
         /\ client.frame.type = "SNRM" /\ client.frame.data.session = client.session
         /\ client.count = 0 /\ client.outbox = << >> /\ client.got = << >>
         /\ Same => Fresh
    /\ client.at = "wait" => client.frame.type # "SNRM"

(* On the way to the server: an I-frame is one the server has taken, or    *)
(* carries the part after those it has                                     *)
NewPart(f) ==
    /\ f.data.part = Len(server.request) + 1 /\ f.data.part <= f.data.kind.frames
    /\ (f.more <=> f.data.part < f.data.kind.frames)
    /\ server.request = Parts(f.data.session, f.data.id, f.data.kind, Len(server.request))

Again(f) == f.type = "SNRM" /\ f.data.session = server.session
Later(f) == f.type = "SNRM" /\ f.data.session # server.session
New(f)   == f.type = "I" /\ f.ns # server.heard

(* A frame on the way to the server *)
Sent(f) ==
    /\ f.type \in {"SNRM", "I", "RR"}
    /\ Later(f) => f.data.session = client.session
    /\ Again(f) => Fresh
    /\ f.type = "I" => f.data.session = server.session
    /\ New(f) => NewPart(f)
    /\ client.at = "snrm" /\ Same => f.type = "SNRM"

(* Two frames on the way, f before g *)
SentBefore(f, g) ==
    /\ New(f) => g = f \/ Later(g)
    /\ Again(g) => f.type = "SNRM"
    /\ Later(f) => Later(g)

(* The line to the server *)
ToServer ==
    /\ \A i \in 1..Len(toServer) : Sent(toServer[i])
    /\ \A i, j \in 1..Len(toServer) : i < j => SentBefore(toServer[i], toServer[j])

(* The request the client works on, and how far it is *)
Handled == server.count = client.count + 1
Working == Open /\ client.at # "idle"
Cur(n)  == Parts(client.session, done + 1, kind, n)
At(n)   == Part(client.session, done + 1, kind, n)
Asked   == client.frame.data.part       \* of the part sent last
Acked   == Len(server.request) = Asked  \* the server has it

(* A frame with the n-th part of the request *)
IsPart(f, n) == f.type = "I" /\ f.data = At(n) /\ (f.more <=> n < kind.frames)

(* Between two requests *)
Resting ==
    /\ server.count = client.count /\ server.request = << >>
    /\ client.got = << >> /\ client.outbox = << >>
    /\ \A i \in 1..Len(toServer) : ~New(toServer[i])

(* The server does not have the whole request yet *)
Asking ==
    /\ server.count = client.count
    /\ Asked \in 1..kind.frames /\ IsPart(client.frame, Asked)
    /\ Len(client.outbox) = kind.frames - Asked
    /\ \A i \in 1..Len(client.outbox) : IsPart(client.outbox[i], Asked + i)
    /\ client.got = << >>
    /\ server.request = Cur(Len(server.request))
    /\ \/ Acked /\ Asked < kind.frames /\ ~New(client.frame)
       \/ Len(server.request) = Asked - 1

(* The server has handled the request *)
Served ==
    /\ Handled
    /\ server.request = << >> /\ client.outbox = << >>
    /\ client.frame.type \in {"I", "RR"}
    /\ client.frame.type = "I" => ~New(client.frame) /\ client.frame.data.session = client.session
    /\ client.got = << >> => client.frame.type = "I"

(* One of these, as the state of the client says *)
Progress ==
    /\ client.at = "idle" => Resting
    /\ Working => kind # NoKind /\ (Asking \/ Served)
    /\ Open => \A i \in 1..Len(toServer) : New(toServer[i]) => toServer[i] = client.frame

(* On the way to the client: nothing of an answer; its first part; or      *)
(* others, each as far behind as it is late.  Without a transaction the    *)
(* server counts every other part twice, and the client never takes one.   *)
NoRR(line) == \A i \in 1..Len(line) : line[i].type # "RR"

(* An I-frame without data: the server had no part left *)
Nothing(f) == NoPart(f.data) /\ ~f.more

(* The server has not begun the answer to this request *)
NothingYet ==
    /\ server.rest = << >>
    /\ \A i \in 1..Len(toClient) : toClient[i].type = "I" => Nothing(toClient[i])
    /\ ~server.transaction => NoRR(toServer)
    /\ server.transaction => NoPart(NextPart(server.sent))
    /\ \/ NoRR(toClient)
       \/ /\ client.at = "wait" /\ Acked
          /\ \A i, j \in 1..Len(toClient) : toClient[i].type = "RR" /\ toClient[j].type = "RR" => i = j

(* A frame with the n-th part of the answer *)
IsAnswer(f, n) == f.data = At(n) /\ (f.more <=> n < kind.parts)

(* The server holds the parts after the n-th *)
RestIs(n) ==
    /\ n < kind.parts => Len(server.rest) = kind.parts - n
    /\ n >= kind.parts => server.rest = << >>
    /\ \A i \in 1..Len(server.rest) : server.rest[i] = At(n + i)

(* The server has sent the first part, and the client has none *)
First ==
    /\ server.sent = At(1) /\ RestIs(1)
    /\ NoRR(toServer) /\ NoRR(toClient)
    /\ \A i \in 1..Len(toClient) : toClient[i].type = "I" =>
         \/ Nothing(toClient[i])
         \/ /\ IsAnswer(toClient[i], 1) /\ toClient[i].ns = server.sender.ns
            /\ \A j \in 1..Len(toClient) : i < j => toClient[j].type # "I"

(* How many parts the client has, its number, and the part sent last *)
Got  == Len(client.got)
Here == client.receiver.ns
Last == server.sent.part

(* The n-th part is the i-th frame of the line *)
Comes(i, n) ==
    /\ IsAnswer(toClient[i], n)
    /\ Got < n /\ n <= Last /\ n <= Got + client.missed + i
    /\ Last <= n + (Len(toClient) - i)
    /\ toClient[i].ns = (Here + (n - Got)) % 8

(* The parts come in turn, with the numbers their places give *)
InTurn ==
    /\ NoRR(toClient)
    /\ server.sent = At(Last) /\ RestIs(Last)
    /\ Got <= Last /\ Last <= Got + client.missed + Len(toClient)
    /\ server.sender.ns = (Here + (Last - Got)) % 8
    /\ \A i \in 1..Len(toClient) : toClient[i].type = "I" => Comes(i, toClient[i].data.part)
    /\ \A i, j \in 1..Len(toClient) :
         i < j /\ toClient[i].type = "I" /\ toClient[j].type = "I" =>
            /\ toClient[i].data.part < toClient[j].data.part
            /\ toClient[j].data.part <= toClient[i].data.part + (j - i)

(* Without a transaction no part comes that the client would take *)
OutOfTurn ==
    /\ server.sender.ns % 2 = Here % 2
    /\ \A i \in 1..Len(toClient) : toClient[i].type = "I" => toClient[i].ns % 2 = Here % 2

(* The client has the first parts *)
Continued ==
    /\ client.got = Cur(Got) /\ Got < kind.parts /\ client.missed <= 7
    /\ server.transaction => InTurn
    /\ ~server.transaction => OutOfTurn

(* The line to the client, as the state of the client says *)
Answers ==
    /\ client.at = "idle" => NothingYet
    /\ client.at = "wait" /\ ~Handled => NothingYet
    /\ client.at = "wait" /\ Handled /\ client.got = << >> => First
    /\ client.at = "wait" /\ Handled /\ client.got # << >> => Continued
    /\ client.got = << >> => client.missed = 0

(* The UA of the client's session comes from a server that is in it, and   *)
(* has sent nothing else since                                             *)
UAOf(f) == f.type = "UA" /\ f.data.session = client.session

Opening ==
    /\ \A i \in 1..Len(toClient) : toClient[i].type = "UA" =>
         toClient[i].data.session <= client.session
    /\ client.at = "snrm" =>
         /\ \A i \in 1..Len(toClient) : UAOf(toClient[i]) => Same
         /\ \A i, j \in 1..Len(toClient) :
              i < j /\ UAOf(toClient[i]) => toClient[j].type \in {"UA", "FRMR"}

(* The two ends and the two lines together *)
Ends == Sessions /\ ToServer /\ Progress /\ Answers /\ Opening

(* The inductive invariant *)
LinkInv == Types /\ (~misled => InRange /\ Ends /\ whole)

-----------------------------------------------------------------------------
(* The lines *)

(* The line to the server without its first frame *)
LEMMA ToServerTail ==
    ASSUME Lines, toServer # << >>, toServer' = Tail(toServer)
    PROVE  /\ Len(toServer) \in Nat /\ Len(toServer) >= 1 /\ Len(toServer') = Len(toServer) - 1
           /\ \A i \in 1..Len(toServer') : toServer'[i] = toServer[i + 1] /\ i + 1 \in 1..Len(toServer)
  <1>1. /\ Len(toServer) \in Nat /\ Len(toServer) >= 1 /\ Len(toServer') = Len(toServer) - 1
        /\ \A i \in 1..(Len(toServer) - 1) : toServer'[i] = toServer[i + 1]
    BY TailOf DEF Lines
  <1> QED BY <1>1

(* The line to the client without its first frame *)
LEMMA ToClientTail ==
    ASSUME Lines, toClient # << >>, toClient' = Tail(toClient)
    PROVE  /\ Len(toClient) \in Nat /\ Len(toClient) >= 1 /\ Len(toClient') = Len(toClient) - 1
           /\ \A i \in 1..Len(toClient') : toClient'[i] = toClient[i + 1] /\ i + 1 \in 1..Len(toClient)
  <1>1. /\ Len(toClient) \in Nat /\ Len(toClient) >= 1 /\ Len(toClient') = Len(toClient) - 1
        /\ \A i \in 1..(Len(toClient) - 1) : toClient'[i] = toClient[i + 1]
    BY TailOf DEF Lines
  <1> QED BY <1>1

(* The line to the server with one frame more *)
LEMMA ToServerAppend ==
    ASSUME Lines, NEW f \in Questions, toServer' = Append(toServer, f)
    PROVE  /\ Len(toServer) \in Nat /\ Len(toServer') = Len(toServer) + 1
           /\ toServer'[Len(toServer) + 1] = f
           /\ \A i \in 1..Len(toServer) : toServer'[i] = toServer[i]
           /\ \A i \in 1..Len(toServer') : i \in 1..Len(toServer) \/ i = Len(toServer) + 1
  <1>1. /\ Len(toServer) \in Nat /\ Len(toServer') = Len(toServer) + 1
        /\ toServer'[Len(toServer) + 1] = f
        /\ \A i \in 1..Len(toServer) : toServer'[i] = toServer[i]
    BY AppendTo DEF Lines
  <1> QED BY <1>1

(* The line to the client with one frame more *)
LEMMA ToClientAppend ==
    ASSUME Lines, NEW f \in Replies, toClient' = Append(toClient, f)
    PROVE  /\ Len(toClient) \in Nat /\ Len(toClient') = Len(toClient) + 1
           /\ toClient'[Len(toClient) + 1] = f
           /\ \A i \in 1..Len(toClient) : toClient'[i] = toClient[i]
           /\ \A i \in 1..Len(toClient') : i \in 1..Len(toClient) \/ i = Len(toClient) + 1
  <1>1. /\ Len(toClient) \in Nat /\ Len(toClient') = Len(toClient) + 1
        /\ toClient'[Len(toClient) + 1] = f
        /\ \A i \in 1..Len(toClient) : toClient'[i] = toClient[i]
    BY AppendTo DEF Lines
  <1> QED BY <1>1

(* A frame leaves the line to the server, and no more happens than that it *)
(* is rejected                                                             *)
Dropped ==
    /\ toServer # << >> /\ toServer' = Tail(toServer) /\ AtMostReject
    /\ ServerKeeps /\ UNCHANGED <<client, done, kind>>

(* A dropped frame keeps Sessions *)
LEMMA DropSessions == ASSUME Types, Dropped, Sessions PROVE Sessions'
  BY DEF Types, Dropped, Sessions, ServerKeeps, Open, Same, Fresh

(* A dropped frame keeps the order on the line to the server *)
LEMMA DropToServer == ASSUME Types, Dropped, ToServer PROVE ToServer'
  <1>1. /\ Len(toServer) \in Nat /\ Len(toServer') = Len(toServer) - 1
        /\ \A i \in 1..Len(toServer') : toServer'[i] = toServer[i + 1] /\ i + 1 \in 1..Len(toServer)
    BY ToServerTail DEF Types, Dropped
  <1>2. /\ client' = client /\ server'.session = server.session
        /\ server'.heard = server.heard /\ server'.request = server.request
    BY DEF Dropped, ServerKeeps
  <1>3. (Same <=> Same') /\ (Fresh <=> Fresh')
    BY DEF Dropped, ServerKeeps, Same, Fresh
  <1>4. /\ \A f : (New(f) <=> New(f)') /\ (NewPart(f) <=> NewPart(f)')
        /\ \A f : (Later(f) <=> Later(f)') /\ (Again(f) <=> Again(f)')
    BY <1>2, Zenon DEF New, NewPart, Later, Again
  <1>5. \A f : Sent(f) => Sent(f)'
    BY <1>2, <1>3, <1>4 DEF Sent
  <1>6. \A f, g : SentBefore(f, g) => SentBefore(f, g)'
    BY <1>4 DEF SentBefore
  <1>7. ASSUME NEW i \in 1..Len(toServer') PROVE Sent(toServer[i])'
    BY <1>1, <1>5 DEF ToServer
  <1>8. ASSUME NEW i \in 1..Len(toServer'), NEW j \in 1..Len(toServer'), i < j
        PROVE  SentBefore(toServer[i], toServer[j])'
    <2>1. /\ i + 1 \in 1..Len(toServer) /\ toServer'[i] = toServer[i + 1]
          /\ j + 1 \in 1..Len(toServer) /\ toServer'[j] = toServer[j + 1]
      BY <1>1
    <2>2. i + 1 < j + 1
      BY <1>1, <1>8
    <2>3. SentBefore(toServer[i + 1], toServer[j + 1])
      BY <2>1, <2>2 DEF ToServer
    <2> QED BY <1>6, <2>1, <2>3
  <1> QED BY <1>7, <1>8 DEF ToServer

(* A dropped frame keeps Progress *)
LEMMA DropProgress == ASSUME Types, Dropped, Progress PROVE Progress'
  <1>1. /\ Len(toServer) \in Nat /\ Len(toServer') = Len(toServer) - 1
        /\ \A i \in 1..Len(toServer') : toServer'[i] = toServer[i + 1] /\ i + 1 \in 1..Len(toServer)
    BY ToServerTail DEF Types, Dropped
  <1>2. /\ \A f : New(f) <=> New(f)'
        /\ (Open <=> Open') /\ (Working <=> Working') /\ (Served => Served') /\ (Asking => Asking')
    BY DEF Dropped, ServerKeeps, New, Open, Working, Served, Asking, Handled, Acked, Asked, IsPart,
           Cur, At
  <1>3. Resting => Resting'
    BY <1>1, <1>2 DEF Dropped, ServerKeeps, Resting
  <1>4. client'.at = client.at /\ client'.frame = client.frame /\ kind' = kind
    BY DEF Dropped
  <1>5. Open' => \A i \in 1..Len(toServer') : New(toServer[i])' => toServer'[i] = client'.frame
    BY <1>1, <1>2, <1>4 DEF Progress
  <1>6. (client'.at = "idle" => Resting') /\ (Working' => kind' # NoKind /\ (Asking' \/ Served'))
    BY <1>2, <1>3, <1>4 DEF Progress
  <1> QED BY <1>5, <1>6 DEF Progress

(* Only UA or FRMR come to the line to the client *)
Quietly ==
    /\ Len(toClient) \in Nat /\ Len(toClient') \in Nat /\ Len(toClient) <= Len(toClient')
    /\ \A i \in 1..Len(toClient') :
         \/ i \in 1..Len(toClient) /\ toClient'[i] = toClient[i]
         \/ i > Len(toClient) /\ toClient'[i].type \in {"UA", "FRMR"}

(* A rejection adds no more than FRMR to the line *)
LEMMA RejectQuietly == ASSUME Types, AtMostReject PROVE Quietly
  <1>1. CASE toClient' = toClient
    BY <1>1 DEF Types, Lines, Quietly
  <1>2. CASE toClient' = Append(toClient, U("FRMR", Nobody))
    <2>1. U("FRMR", Nobody) \in Replies /\ U("FRMR", Nobody).type = "FRMR"
      BY FramesTyped DEF U, Frame
    <2> QED BY <1>2, <2>1, ToClientAppend DEF Types, Quietly
  <1> QED BY <1>1, <1>2 DEF AtMostReject

(* The client does not notice *)
ClientStays == ClientKeeps /\ client'.missed = client.missed /\ client'.receiver = client.receiver

(* A step that touches neither the answer nor the client keeps Answers *)
LEMMA AnswersStay ==
    ASSUME Types, Answers, Quietly, ServerKeeps, ClientStays, UNCHANGED <<done, kind>>,
           client.at = "idle" \/ ~Handled \/ client.got = << >> => (NoRR(toServer) => NoRR(toServer)')
    PROVE  Answers'
  <1>1. /\ (Handled <=> Handled')
        /\ \A n : At(n) = At(n)' /\ Cur(n) = Cur(n)'
        /\ (Acked <=> Acked') /\ Got = Got' /\ Here = Here' /\ Last = Last'
    BY DEF ServerKeeps, ClientStays, ClientKeeps, Handled, At, Cur, Acked, Asked, Got, Here, Last
  <1>2. \A n : RestIs(n) => RestIs(n)'
    BY <1>1 DEF ServerKeeps, RestIs
  <1>3. NoRR(toClient) => NoRR(toClient)'
    BY DEF NoRR, Quietly
  <1>4. ASSUME client.at = "idle" \/ ~Handled, NothingYet PROVE NothingYet'
    <2>1. /\ server'.rest = << >>
          /\ ~server'.transaction => NoRR(toServer)'
          /\ server'.transaction => NoPart(NextPart(server'.sent))
      BY <1>4 DEF NothingYet, ServerKeeps
    <2>2. \A i \in 1..Len(toClient') : toClient'[i].type = "I" => Nothing(toClient'[i])
      BY <1>4 DEF NothingYet, Quietly
    <2>3. \/ NoRR(toClient)'
          \/ /\ client'.at = "wait" /\ Acked'
             /\ \A i, j \in 1..Len(toClient') :
                  toClient'[i].type = "RR" /\ toClient'[j].type = "RR" => i = j
      BY <1>1, <1>3, <1>4 DEF NothingYet, ClientStays, ClientKeeps, Quietly
    <2> QED BY <2>1, <2>2, <2>3 DEF NothingYet
  <1>5. ASSUME client.got = << >>, First PROVE First'
    <2>1. server'.sent = At(1)' /\ RestIs(1)' /\ NoRR(toServer)' /\ NoRR(toClient)'
      BY <1>1, <1>2, <1>3, <1>5 DEF First, ServerKeeps
    <2>2. \A f : IsAnswer(f, 1) => IsAnswer(f, 1)'
      BY <1>1 DEF IsAnswer
    <2>3. \A i \in 1..Len(toClient') : toClient'[i].type = "I" =>
             \/ Nothing(toClient'[i])
             \/ /\ IsAnswer(toClient[i], 1) /\ toClient'[i] = toClient[i]
                /\ toClient'[i].ns = server'.sender.ns
                /\ \A j \in 1..Len(toClient') : i < j => toClient'[j].type # "I"
      BY <1>5 DEF First, ServerKeeps, Quietly
    <2> QED BY <2>1, <2>2, <2>3 DEF First
  <1>6. ASSUME Continued PROVE Continued'
    <2>1. client'.got = Cur(Got)'
      BY <1>1, <1>6 DEF Continued, ClientStays, ClientKeeps
    <2>2. Got' < kind'.parts /\ client'.missed <= 7
      BY <1>1, <1>6 DEF Continued, ClientStays
    <2>3. ASSUME InTurn PROVE InTurn'
      <3>1. server'.sent = At(Last)'
        BY <1>1, <2>3 DEF InTurn, ServerKeeps
      <3>2. RestIs(Last)'
        BY <1>1, <1>2, <2>3 DEF InTurn
      <3>3. NoRR(toClient)'
        BY <1>3, <2>3 DEF InTurn
      <3>4. server'.sender.ns = (Here' + (Last' - Got')) % 8
        BY <1>1, <2>3 DEF InTurn, ServerKeeps
      <3>5. client.missed \in Nat /\ Last \in Nat /\ Got \in Nat
        <4>1. client.missed \in Nat /\ client.got \in Seq(Data) /\ server.sent \in Data
          BY DEF Types, Servers, Clients
        <4> QED BY <4>1 DEF Data, Last, Got
      <3>6. Got' <= Last' /\ Last' <= Got' + client'.missed + Len(toClient')
        <4>1. Got <= Last /\ Last <= Got + client.missed + Len(toClient)
          BY <2>3 DEF InTurn
        <4>2. Len(toClient) \in Nat /\ Len(toClient') \in Nat /\ Len(toClient) <= Len(toClient')
          BY DEF Quietly
        <4>3. client'.missed = client.missed
          BY DEF ClientStays
        <4> QED BY <1>1, <3>5, <4>1, <4>2, <4>3
      <3>7. ASSUME NEW i \in 1..Len(toClient'), toClient'[i].type = "I"
            PROVE  /\ i \in 1..Len(toClient) /\ toClient'[i] = toClient[i]
                   /\ toClient[i].data.part \in Nat /\ i \in Nat
        <4>1. i \in 1..Len(toClient) /\ toClient'[i] = toClient[i]
          BY <3>7 DEF Quietly
        <4>2. toClient[i] \in Replies
          BY <4>1 DEF Types, Lines
        <4> QED BY <4>1, <4>2 DEF Quietly, Replies, Frames, Data
      <3>8. ASSUME NEW i \in 1..Len(toClient'), toClient'[i].type = "I"
            PROVE  Comes(i, toClient[i].data.part)'
        <4> DEFINE n == toClient[i].data.part
        <4>1. /\ IsAnswer(toClient[i], n)
              /\ Got < n /\ n <= Last /\ n <= Got + client.missed + i
              /\ Last <= n + (Len(toClient) - i)
              /\ toClient[i].ns = (Here + (n - Got)) % 8
          BY <2>3, <3>7, <3>8 DEF InTurn, Comes
        <4>2. IsAnswer(toClient[i], n)'
          BY <1>1, <3>7, <3>8, <4>1 DEF IsAnswer
        <4>3. /\ Got' < n' /\ n' <= Last' /\ n' <= Got' + client'.missed + i
              /\ toClient'[i].ns = (Here' + (n' - Got')) % 8 /\ n' = n
          BY <1>1, <3>7, <3>8, <4>1 DEF ClientStays
        <4>4. Last' <= n' + (Len(toClient') - i)
          <5>1. Len(toClient) \in Nat /\ Len(toClient') \in Nat /\ Len(toClient) <= Len(toClient')
            BY DEF Quietly
          <5>2. Last <= n + (Len(toClient) - i) /\ n \in Nat /\ i \in Nat /\ n' = n /\ Last' = Last
            BY <1>1, <3>7, <3>8, <4>1, <4>3
          <5> HIDE DEF n
          <5> QED BY <3>5, <5>1, <5>2
        <4> QED BY <4>2, <4>3, <4>4, <3>7, <3>8 DEF Comes
      <3>9. ASSUME NEW i \in 1..Len(toClient'), NEW j \in 1..Len(toClient'),
                   i < j, toClient'[i].type = "I", toClient'[j].type = "I"
            PROVE  /\ toClient'[i].data.part < toClient'[j].data.part
                   /\ toClient'[j].data.part <= toClient'[i].data.part + (j - i)
        BY <2>3, <3>7, <3>9 DEF InTurn
      <3> QED BY <3>1, <3>2, <3>3, <3>4, <3>6, <3>8, <3>9 DEF InTurn
    <2>4. ASSUME OutOfTurn PROVE OutOfTurn'
      BY <1>1, <2>4 DEF OutOfTurn, Quietly, ServerKeeps
    <2> QED BY <1>6, <2>1, <2>2, <2>3, <2>4 DEF Continued, ServerKeeps
  <1> QED BY <1>1, <1>4, <1>5, <1>6 DEF Answers, ClientStays, ClientKeeps

(* A line without RR stays one *)
LEMMA NoRRTail ==
    ASSUME Lines, toServer # << >>, toServer' = Tail(toServer), NoRR(toServer)
    PROVE  NoRR(toServer)'
  BY ToServerTail DEF NoRR

(* A dropped frame keeps the whole invariant *)
LEMMA DropEnds == ASSUME Types, Dropped, Ends PROVE Ends'
  <1>1. Sessions' /\ ToServer' /\ Progress'
    BY DropSessions, DropToServer, DropProgress DEF Ends
  <1>2. Answers'
    <2>1. Quietly
      BY RejectQuietly DEF Dropped
    <2>2. ServerKeeps /\ ClientStays /\ UNCHANGED <<done, kind>>
      BY DEF Dropped, ClientStays, ClientKeeps
    <2>3. NoRR(toServer) => NoRR(toServer)'
      BY NoRRTail DEF Dropped, Types
    <2> QED BY <2>1, <2>2, <2>3, AnswersStay DEF Ends
  <1>3. Opening'
    <2>1. CASE toClient' = toClient
      BY <2>1 DEF Ends, Opening, Dropped, ServerKeeps, UAOf, Same
    <2>2. CASE toClient' = Append(toClient, U("FRMR", Nobody))
      <3>1. U("FRMR", Nobody) \in Replies /\ U("FRMR", Nobody).type = "FRMR"
        BY FramesTyped DEF U, Frame
      <3>2. /\ Len(toClient) \in Nat /\ Len(toClient') = Len(toClient) + 1
            /\ toClient'[Len(toClient) + 1].type = "FRMR"
            /\ \A i \in 1..Len(toClient) : toClient'[i] = toClient[i]
            /\ \A i \in 1..Len(toClient') : i \in 1..Len(toClient) \/ i = Len(toClient) + 1
        BY <2>2, <3>1, ToClientAppend DEF Types
      <3>3. \A f : UAOf(f) <=> UAOf(f)'
        BY DEF Dropped, UAOf
      <3>4. Same => Same'
        BY DEF Dropped, ServerKeeps, Same
      <3>5. client'.at = client.at /\ client'.session = client.session
        BY DEF Dropped
      <3>6. \A i \in 1..Len(toClient') : toClient'[i].type = "UA" =>
                toClient'[i].data.session <= client'.session
        BY <3>2, <3>5 DEF Ends, Opening
      <3>7. ASSUME client.at = "snrm"
            PROVE  /\ \A i \in 1..Len(toClient') : UAOf(toClient[i])' => Same'
                   /\ \A i, j \in 1..Len(toClient') :
                        i < j /\ UAOf(toClient[i])' => toClient'[j].type \in {"UA", "FRMR"}
        <4>1. /\ \A i \in 1..Len(toClient) : UAOf(toClient[i]) => Same
              /\ \A i, j \in 1..Len(toClient) :
                   i < j /\ UAOf(toClient[i]) => toClient[j].type \in {"UA", "FRMR"}
          BY <3>7 DEF Ends, Opening
        <4>2. ~UAOf(toClient'[Len(toClient) + 1])
          BY <3>2 DEF UAOf
        <4> QED BY <3>2, <3>3, <3>4, <4>1, <4>2
      <3> QED BY <3>5, <3>6, <3>7 DEF Opening
    <2> QED BY <2>1, <2>2 DEF Dropped, AtMostReject
  <1> QED BY <1>1, <1>2, <1>3 DEF Ends

(* The frame sent last may be sent again *)
LEMMA FrameSent ==
    ASSUME Types, Sessions, ToServer, Progress, client.at \in {"snrm", "wait"}
    PROVE  /\ Sent(client.frame)
           /\ \A i \in 1..Len(toServer) : SentBefore(toServer[i], client.frame)
  <1>1. CASE client.at = "snrm"
    <2>1. /\ client.frame.type = "SNRM" /\ client.frame.data.session = client.session
          /\ Same => Fresh
      BY <1>1 DEF Sessions
    <2>2. Sent(client.frame)
      BY <2>1 DEF Sent, Again, Later, New, Same
    <2>3. ASSUME NEW i \in 1..Len(toServer) PROVE SentBefore(toServer[i], client.frame)
      <3>1. Sent(toServer[i])
        BY DEF ToServer
      <3>2. CASE Same
        BY <1>1, <2>1, <3>1, <3>2 DEF Sent, SentBefore, Again, Later, New, Same
      <3>3. CASE ~Same
        BY <2>1, <3>1, <3>3 DEF SentBefore, Again, Later, New, Same
      <3> QED BY <3>2, <3>3
    <2> QED BY <2>2, <2>3
  <1>2. CASE client.at = "wait"
    <2>1. /\ Open /\ Same /\ Working /\ client.at # "snrm" /\ kind \in Kinds
          /\ client.session \in 0..MaxSessions /\ done + 1 \in Nat /\ done \in Nat
      <3>1. client.session \in 0..MaxSessions /\ done \in 0..MaxRequests /\ kind \in Kinds
        BY <1>2 DEF Types, Clients
      <3> QED BY <1>2, <3>1, BoundAssumption DEF Sessions, Open, Working
    <2>2. /\ client.frame.type \in {"I", "RR"}
          /\ client.frame.type = "I" => client.frame.data.session = client.session
          /\ New(client.frame) => NewPart(client.frame)
      <3>1. CASE Asking
        <4>1. /\ client.frame.type = "I" /\ client.frame.data = At(Asked)
              /\ (client.frame.more <=> Asked < kind.frames) /\ Asked \in 1..kind.frames
              /\ server.request = Cur(Len(server.request))
              /\ ~New(client.frame) \/ Len(server.request) = Asked - 1
          BY <3>1 DEF Asking, IsPart
        <4>2. /\ client.frame.data.session = client.session /\ client.frame.data.id = done + 1
              /\ client.frame.data.kind = kind /\ client.frame.data.part = Asked
          BY <4>1 DEF At, Part
        <4>3. kind.frames \in Nat
          BY <2>1, KindTyped
        <4>4. Len(server.request) = Asked - 1 => NewPart(client.frame)
          BY <4>1, <4>2, <4>3 DEF NewPart, Cur
        <4> QED BY <4>1, <4>2, <4>4
      <3>2. CASE Served
        BY <3>2 DEF Served, New
      <3> QED BY <2>1, <3>1, <3>2 DEF Progress
    <2>3. Sent(client.frame)
      BY <2>1, <2>2 DEF Sent, Again, Later, Same
    <2>4. ASSUME NEW i \in 1..Len(toServer) PROVE SentBefore(toServer[i], client.frame)
      <3>1. Sent(toServer[i])
        BY DEF ToServer
      <3>2. New(toServer[i]) => toServer[i] = client.frame
        BY <2>1 DEF Progress
      <3> QED BY <2>1, <2>2, <3>1, <3>2 DEF SentBefore, Sent, Again, Later, Same
    <2> QED BY <2>3, <2>4
  <1> QED BY <1>1, <1>2

(* A frame sent again is one the server has taken, or still awaits *)
LEMMA RepeatEnds ==
    ASSUME Types, Ends, NEW isLate \in BOOLEAN, Repeat(isLate)
    PROVE  Ends'
  <1>1. /\ client.at \in {"snrm", "wait"} /\ ClientStays
        /\ toServer' = Append(toServer, client.frame) /\ client.frame \in Questions
        /\ UNCHANGED <<server, done, kind, toClient>>
    BY RepeatEffect DEF Repeat, ClientStays, Types, Clients
  <1>2. client'.at = client.at /\ client'.session = client.session
        /\ client'.frame = client.frame /\ client'.outbox = client.outbox
        /\ client'.got = client.got /\ client'.count = client.count
    BY <1>1 DEF ClientStays, ClientKeeps
  <1>3. /\ Len(toServer) \in Nat /\ Len(toServer') = Len(toServer) + 1
        /\ toServer'[Len(toServer) + 1] = client.frame
        /\ \A i \in 1..Len(toServer) : toServer'[i] = toServer[i]
        /\ \A i \in 1..Len(toServer') : i \in 1..Len(toServer) \/ i = Len(toServer) + 1
    BY <1>1, ToServerAppend DEF Types
  <1>4. Sessions'
    BY <1>1, <1>2 DEF Ends, Sessions, Open, Same, Fresh
  <1>5. ToServer'
    <2>1. /\ Sent(client.frame)
          /\ \A i \in 1..Len(toServer) : SentBefore(toServer[i], client.frame)
      BY <1>1, FrameSent DEF Ends
    <2>2. \A f : Sent(f) => Sent(f)'
      BY <1>1, <1>2 DEF Sent, Later, Again, New, NewPart, Same, Fresh
    <2>3. \A f, g : SentBefore(f, g) => SentBefore(f, g)'
      BY <1>1 DEF SentBefore, Later, Again, New
    <2> QED BY <1>3, <2>1, <2>2, <2>3 DEF Ends, ToServer
  <1>6. Progress'
    <2>1. /\ \A f : New(f) <=> New(f)'
          /\ (Open <=> Open') /\ (Working <=> Working') /\ (Served => Served') /\ (Asking => Asking')
      BY <1>1, <1>2 DEF New, Open, Working, Served, Asking, Handled, Acked, Asked, IsPart, Cur, At
    <2>2. Open' => \A i \in 1..Len(toServer') : New(toServer[i])' => toServer'[i] = client'.frame
      BY <1>2, <1>3, <2>1 DEF Ends, Progress
    <2>3. client'.at # "idle" /\ (Working' => kind' # NoKind /\ (Asking' \/ Served'))
      BY <1>1, <1>2, <2>1 DEF Ends, Progress
    <2> QED BY <2>2, <2>3 DEF Progress
  <1>7. Answers'
    <2>1. Quietly /\ ServerKeeps
      BY <1>1 DEF Types, Lines, Quietly, ServerKeeps
    <2>2. ASSUME client.at = "idle" \/ ~Handled \/ client.got = << >>, NoRR(toServer)
          PROVE  NoRR(toServer)'
      <3>1. client.frame.type # "RR"
        BY <1>1, <2>2 DEF Ends, Sessions, Progress, Working, Open, Asking, IsPart, Served
      <3> QED BY <1>3, <2>2, <3>1 DEF NoRR
    <2> QED BY <1>1, <2>1, <2>2, AnswersStay DEF Ends
  <1>8. Opening'
    <2>1. \A f : UAOf(f) <=> UAOf(f)'
      BY <1>2 DEF UAOf
    <2> QED BY <1>1, <1>2, <2>1 DEF Ends, Opening, Same
  <1> QED BY <1>4, <1>5, <1>6, <1>7, <1>8 DEF Ends

(* A frame to the client that goes by *)
LEMMA PassEnds ==
    ASSUME Types, Ends, ~misled', Passes, UNCHANGED <<server, toServer, done, kind>>
    PROVE  Ends'
  <1>1. /\ client'.at = client.at /\ client'.session = client.session
        /\ client'.frame = client.frame /\ client'.outbox = client.outbox
        /\ client'.got = client.got /\ client'.count = client.count
        /\ client'.missed = Missed /\ Missed # 8
    BY DEF Passes, ClientKeeps
  <1>2. /\ Len(toClient) \in Nat /\ Len(toClient) >= 1 /\ Len(toClient') = Len(toClient) - 1
        /\ \A i \in 1..Len(toClient') : toClient'[i] = toClient[i + 1] /\ i + 1 \in 1..Len(toClient)
    BY ToClientTail DEF Types, Passes
  <1>3. Sessions'
    BY <1>1 DEF Ends, Sessions, Open, Same, Fresh
  <1>4. ToServer'
    BY <1>1 DEF Ends, ToServer, Sent, SentBefore, Later, Again, New, NewPart, Same, Fresh
  <1>5. /\ \A f : New(f) <=> New(f)'
        /\ (Open <=> Open') /\ (Working <=> Working') /\ (Served => Served') /\ (Asking => Asking')
        /\ (Handled <=> Handled') /\ (Acked <=> Acked') /\ Got = Got' /\ Last = Last'
        /\ \A n : At(n) = At(n)' /\ Cur(n) = Cur(n)'
    BY <1>1 DEF New, Open, Working, Served, Asking, Handled, Acked, Asked, IsPart, Cur, At, Got, Last
  <1>6. Progress'
    <2>1. Resting => Resting'
      BY <1>1, <1>5 DEF Resting
    <2> QED BY <1>1, <1>5, <2>1 DEF Ends, Progress
  <1>7. \A n : RestIs(n) => RestIs(n)'
    BY <1>5 DEF RestIs
  <1>8. NoRR(toClient) => NoRR(toClient)'
    BY <1>2 DEF NoRR
  <1>9. NoRR(toServer) <=> NoRR(toServer)'
    BY DEF NoRR
  <1>10. ASSUME NothingYet PROVE NothingYet'
    <2>1. \A i \in 1..Len(toClient') : toClient'[i].type = "I" => Nothing(toClient'[i])
      BY <1>2, <1>10 DEF NothingYet
    <2>2. \/ NoRR(toClient)'
          \/ /\ client'.at = "wait" /\ Acked'
             /\ \A i, j \in 1..Len(toClient') :
                  toClient'[i].type = "RR" /\ toClient'[j].type = "RR" => i = j
      <3>1. CASE NoRR(toClient)
        BY <1>8, <3>1
      <3>2. CASE ~NoRR(toClient)
        <4>1. /\ client.at = "wait" /\ Acked
              /\ \A i, j \in 1..Len(toClient) :
                   toClient[i].type = "RR" /\ toClient[j].type = "RR" => i = j
          BY <1>10, <3>2 DEF NothingYet
        <4>2. ASSUME NEW i \in 1..Len(toClient'), NEW j \in 1..Len(toClient'),
                     toClient'[i].type = "RR", toClient'[j].type = "RR"
              PROVE  i = j
          <5>1. /\ i + 1 \in 1..Len(toClient) /\ toClient[i + 1].type = "RR"
                /\ j + 1 \in 1..Len(toClient) /\ toClient[j + 1].type = "RR"
            BY <1>2, <4>2
          <5>2. i + 1 = j + 1
            BY <4>1, <5>1
          <5> QED BY <5>2
        <4> QED BY <1>1, <1>5, <4>1, <4>2
      <3> QED BY <3>1, <3>2
    <2> QED BY <1>9, <1>10, <2>1, <2>2 DEF NothingYet
  <1>11. ASSUME First PROVE First'
    <2>1. server'.sent = At(1)' /\ RestIs(1)' /\ NoRR(toServer)' /\ NoRR(toClient)'
      BY <1>5, <1>7, <1>8, <1>9, <1>11 DEF First
    <2>2. \A f : IsAnswer(f, 1) => IsAnswer(f, 1)'
      BY <1>5 DEF IsAnswer
    <2>3. ASSUME NEW i \in 1..Len(toClient'), toClient'[i].type = "I", ~Nothing(toClient'[i])
          PROVE  /\ IsAnswer(toClient[i + 1], 1) /\ toClient'[i] = toClient[i + 1]
                 /\ toClient'[i].ns = server'.sender.ns
                 /\ \A j \in 1..Len(toClient') : i < j => toClient'[j].type # "I"
      <3>1. i + 1 \in 1..Len(toClient) /\ toClient'[i] = toClient[i + 1]
        BY <1>2
      <3>2. /\ IsAnswer(toClient[i + 1], 1) /\ toClient[i + 1].ns = server.sender.ns
            /\ \A j \in 1..Len(toClient) : i + 1 < j => toClient[j].type # "I"
        BY <1>11, <2>3, <3>1 DEF First
      <3>3. ASSUME NEW j \in 1..Len(toClient'), i < j PROVE toClient'[j].type # "I"
        <4>1. j + 1 \in 1..Len(toClient) /\ toClient'[j] = toClient[j + 1]
          BY <1>2
        <4>2. i + 1 < j + 1
          BY <3>3
        <4> QED BY <3>2, <4>1, <4>2
      <3> QED BY <1>1, <3>1, <3>2, <3>3
    <2> QED BY <2>1, <2>2, <2>3 DEF First
  <1>12. ASSUME Continued, client.at = "wait", Handled, client.got # << >> PROVE Continued'
    <2>1. Here' = Here
      <3>1. client.outbox = << >>
        BY <1>12 DEF Ends, Progress, Sessions, Working, Open, Asking, Served
      <3> QED BY <1>12, <3>1 DEF Passes, Here
    <2>2. client'.got = Cur(Got)' /\ Got' < kind'.parts
      BY <1>1, <1>5, <1>12 DEF Continued
    <2>3. /\ client.missed \in Nat /\ Last \in Nat /\ Got \in Nat
          /\ client'.missed = client.missed + 1 /\ client'.missed <= 7
      <3>1. client.missed \in Nat /\ client.got \in Seq(Data) /\ server.sent \in Data
        BY DEF Types, Servers, Clients
      <3>2. client.missed <= 7
        BY <1>12 DEF Continued
      <3>3. Last \in Nat /\ Got \in Nat
        BY <3>1 DEF Data, Last, Got
      <3>4. client'.missed = client.missed + 1 /\ client'.missed # 8
        BY <1>1, <1>12 DEF Missed
      <3> QED BY <3>1, <3>2, <3>3, <3>4
    <2>4. ASSUME InTurn PROVE InTurn'
      <3>1. server'.sent = At(Last)' /\ RestIs(Last)' /\ NoRR(toClient)'
        BY <1>5, <1>7, <1>8, <2>4 DEF InTurn
      <3>2. server'.sender.ns = (Here' + (Last' - Got')) % 8
        BY <1>5, <2>1, <2>4 DEF InTurn
      <3>6. PICK m \in Nat, g \in Nat, l \in Nat, d \in Nat :
              m = Len(toClient) /\ g = Got /\ l = Last /\ d = client.missed
        BY <1>2, <2>3
      <3>7. Got' = g /\ Last' = l /\ Len(toClient') = m - 1 /\ client'.missed = d + 1
        BY <1>2, <1>5, <2>3, <3>6
      <3>3. Got' <= Last' /\ Last' <= Got' + client'.missed + Len(toClient')
        <4>1. g <= l /\ l <= g + d + m
          BY <2>4, <3>6 DEF InTurn
        <4> QED BY <3>7, <4>1
      <3>4. ASSUME NEW i \in 1..Len(toClient'), toClient'[i].type = "I"
            PROVE  Comes(i, toClient[i].data.part)'
        <4>1. i \in Nat /\ i + 1 \in 1..Len(toClient) /\ toClient'[i] = toClient[i + 1]
          BY <1>2
        <4>3. PICK n \in Nat : n = toClient[i + 1].data.part
          <5>1. toClient[i + 1] \in Replies
            BY <4>1 DEF Types, Lines
          <5> QED BY <5>1 DEF Replies, Frames, Data
        <4>2. /\ IsAnswer(toClient[i + 1], n)
              /\ Got < n /\ n <= Last /\ n <= Got + client.missed + (i + 1)
              /\ Last <= n + (Len(toClient) - (i + 1))
              /\ toClient[i + 1].ns = (Here + (n - Got)) % 8
          BY <2>4, <3>4, <4>1, <4>3 DEF InTurn, Comes
        <4>4. toClient'[i].data.part = n
          BY <4>1, <4>3
        <4>5. IsAnswer(toClient[i], toClient[i].data.part)'
          <5>1. toClient'[i].data = At(n)' /\ (toClient'[i].more <=> n < kind'.parts)
            BY <1>5, <4>1, <4>2 DEF IsAnswer
          <5> QED BY <4>4, <5>1 DEF IsAnswer
        <4>6. /\ Got' < n /\ n <= Last' /\ n <= Got' + client'.missed + i
              /\ Last' <= n + (Len(toClient') - i)
              /\ toClient'[i].ns = (Here' + (n - Got')) % 8
          <5>1. /\ g < n /\ n <= l /\ n <= g + d + (i + 1) /\ l <= n + (m - (i + 1))
                /\ toClient'[i].ns = (Here' + (n - g)) % 8
            BY <2>1, <3>6, <4>1, <4>2
          <5>2. n <= g + (d + 1) + i /\ l <= n + ((m - 1) - i)
            BY <4>1, <5>1
          <5> QED BY <3>7, <5>1, <5>2
        <4> QED BY <4>4, <4>5, <4>6 DEF Comes
      <3>5. ASSUME NEW i \in 1..Len(toClient'), NEW j \in 1..Len(toClient'),
                   i < j, toClient'[i].type = "I", toClient'[j].type = "I"
            PROVE  /\ toClient'[i].data.part < toClient'[j].data.part
                   /\ toClient'[j].data.part <= toClient'[i].data.part + (j - i)
        <4>1. /\ i + 1 \in 1..Len(toClient) /\ toClient'[i] = toClient[i + 1]
              /\ j + 1 \in 1..Len(toClient) /\ toClient'[j] = toClient[j + 1]
              /\ i + 1 < j + 1 /\ (j + 1) - (i + 1) = j - i
          <5>1. i + 1 \in 1..Len(toClient) /\ toClient'[i] = toClient[i + 1]
            BY <1>2
          <5>2. j + 1 \in 1..Len(toClient) /\ toClient'[j] = toClient[j + 1]
            BY <1>2
          <5>3. i + 1 < j + 1 /\ (j + 1) - (i + 1) = j - i
            BY <1>2, <3>5
          <5> QED BY <5>1, <5>2, <5>3
        <4>2. /\ toClient[i + 1].data.part < toClient[j + 1].data.part
              /\ toClient[j + 1].data.part <= toClient[i + 1].data.part + ((j + 1) - (i + 1))
          BY <2>4, <3>5, <4>1 DEF InTurn
        <4> QED BY <4>1, <4>2
      <3> QED BY <3>1, <3>2, <3>3, <3>4, <3>5 DEF InTurn
    <2>5. ASSUME OutOfTurn PROVE OutOfTurn'
      BY <1>2, <2>1, <2>5 DEF OutOfTurn
    <2> QED BY <1>12, <2>2, <2>3, <2>4, <2>5 DEF Continued
  <1>13. Answers'
    BY <1>1, <1>5, <1>10, <1>11, <1>12 DEF Ends, Answers, Missed
  <1>14. Opening'
    <2>1. \A f : UAOf(f) <=> UAOf(f)'
      BY <1>1 DEF UAOf
    <2>2. Same <=> Same'
      BY <1>1 DEF Same
    <2>3. \A i \in 1..Len(toClient') : toClient'[i].type = "UA" =>
             toClient'[i].data.session <= client'.session
      BY <1>1, <1>2 DEF Ends, Opening
    <2>4. ASSUME client'.at = "snrm"
          PROVE  /\ \A i \in 1..Len(toClient') : UAOf(toClient[i])' => Same'
                 /\ \A i, j \in 1..Len(toClient') :
                      i < j /\ UAOf(toClient[i])' => toClient'[j].type \in {"UA", "FRMR"}
      <3>1. /\ \A i \in 1..Len(toClient) : UAOf(toClient[i]) => Same
            /\ \A i, j \in 1..Len(toClient) :
                 i < j /\ UAOf(toClient[i]) => toClient[j].type \in {"UA", "FRMR"}
        BY <1>1, <2>4 DEF Ends, Opening
      <3>2. \A i \in 1..Len(toClient') : UAOf(toClient[i])' => Same'
        BY <1>2, <2>1, <2>2, <3>1
      <3>3. ASSUME NEW i \in 1..Len(toClient'), NEW j \in 1..Len(toClient'),
                   i < j, UAOf(toClient[i])'
            PROVE  toClient'[j].type \in {"UA", "FRMR"}
        <4>1. /\ i + 1 \in 1..Len(toClient) /\ toClient'[i] = toClient[i + 1]
              /\ j + 1 \in 1..Len(toClient) /\ toClient'[j] = toClient[j + 1]
              /\ i + 1 < j + 1
          BY <1>2, <3>3
        <4> QED BY <2>1, <3>1, <3>3, <4>1
      <3> QED BY <3>2, <3>3
    <2> QED BY <2>3, <2>4 DEF Opening
  <1> QED BY <1>3, <1>4, <1>6, <1>13, <1>14 DEF Ends

(* f was the first frame on the line to the server *)
WasFirst(f) ==
    /\ toServer # << >> /\ toServer' = Tail(toServer) /\ toServer' \in Seq(Questions)
    /\ Len(toServer) \in Nat /\ Len(toServer) >= 1
    /\ Len(toServer') \in Nat /\ Len(toServer') = Len(toServer) - 1
    /\ 1 \in 1..Len(toServer) /\ f = toServer[1] /\ Sent(f)
    /\ \A i \in 1..Len(toServer') :
          toServer'[i] = toServer[i + 1] /\ i + 1 \in 1..Len(toServer)
    /\ \A i \in 1..Len(toServer') : Sent(toServer'[i]) /\ SentBefore(f, toServer'[i])
    /\ \A i, j \in 1..Len(toServer') : i < j => SentBefore(toServer'[i], toServer'[j])

(* The frame the server takes *)
LEMMA TakesHead == ASSUME Types, ToServer, NEW f, Takes(f) PROVE WasFirst(f)
  <1>1. toServer # << >> /\ f = Head(toServer) /\ toServer' = Tail(toServer)
    BY DEF Takes
  <1>2. toServer' \in Seq(Questions) /\ f = toServer[1]
    BY <1>1, TailOf DEF Types, Lines
  <1>3. /\ Len(toServer) \in Nat /\ Len(toServer) >= 1 /\ Len(toServer') = Len(toServer) - 1
        /\ \A i \in 1..Len(toServer') : toServer'[i] = toServer[i + 1] /\ i + 1 \in 1..Len(toServer)
    BY <1>1, ToServerTail DEF Types
  <1>4. 1 \in 1..Len(toServer) /\ Sent(f)
    BY <1>2, <1>3 DEF ToServer
  <1>5. ASSUME NEW i \in 1..Len(toServer')
        PROVE  Sent(toServer'[i]) /\ SentBefore(f, toServer'[i])
    <2>1. 1 < i + 1 /\ i + 1 \in 1..Len(toServer) /\ toServer'[i] = toServer[i + 1]
      BY <1>3
    <2> QED BY <1>2, <1>4, <2>1 DEF ToServer
  <1>6. ASSUME NEW i \in 1..Len(toServer'), NEW j \in 1..Len(toServer'), i < j
        PROVE  SentBefore(toServer'[i], toServer'[j])
    <2>1. i + 1 \in 1..Len(toServer) /\ toServer'[i] = toServer[i + 1]
      BY <1>3
    <2>2. j + 1 \in 1..Len(toServer) /\ toServer'[j] = toServer[j + 1]
      BY <1>3
    <2>3. i + 1 < j + 1
      BY <1>3, <1>6
    <2> QED BY <2>1, <2>2, <2>3 DEF ToServer
  <1>7. Len(toServer') \in Nat
    BY <1>3
  <1> QED BY <1>1, <1>2, <1>3, <1>4, <1>5, <1>6, <1>7 DEF WasFirst

(* SNRM is that of a session the client is still opening *)
LEMMA HandleSnrmEnds ==
    ASSUME Types, Ends, NEW f, HandleSnrm(f)
    PROVE  Ends' /\ InRange' /\ whole' = whole
  <1>1. /\ server' \in Servers /\ toClient' \in Seq(Replies)
        /\ server'.session = f.data.session /\ server'.request = << >>
        /\ server'.rest = << >> /\ server'.transaction = FALSE /\ server'.count = 0
        /\ server'.heard = 7 /\ server'.sent = Nobody
        /\ server'.receiver = ServerStart.receiver
        /\ f.data \in Data /\ toClient' = Append(toClient, U("UA", f.data))
    <2>1. f.data \in Data
      BY TakesTyped DEF HandleSnrm, Types
    <2> QED BY <2>1, HandleSnrmEffect
  <1>2. Takes(f) /\ f.type = "SNRM" /\ UNCHANGED <<client, done, kind, whole>>
    BY DEF HandleSnrm, Others
  <1>3. /\ toServer # << >> /\ Len(toServer') \in Nat /\ Sent(f) /\ f = toServer[1]
        /\ \A i \in 1..Len(toServer') : Sent(toServer'[i]) /\ SentBefore(f, toServer'[i])
        /\ \A i, j \in 1..Len(toServer') : i < j => SentBefore(toServer'[i], toServer'[j])
        /\ \A i \in 1..Len(toServer') :
              toServer'[i] = toServer[i + 1] /\ i + 1 \in 1..Len(toServer)
    <2>1. WasFirst(f)
      BY <1>2, TakesHead DEF Ends
    <2> QED BY <2>1 DEF WasFirst
  <1>4. InRange'
    BY <1>1 DEF InRange, ServerStart, Inc
  <1>5. Fresh'
    BY <1>1 DEF Fresh
  <1>6. /\ U("UA", f.data) \in Replies /\ U("UA", f.data).type = "UA"
        /\ U("UA", f.data).data = f.data
    BY <1>1, FramesTyped DEF U, Frame
  <1>7. /\ Len(toClient) \in Nat /\ Len(toClient') = Len(toClient) + 1
        /\ toClient'[Len(toClient) + 1].type = "UA"
        /\ toClient'[Len(toClient) + 1].data = f.data
        /\ \A i \in 1..Len(toClient) : toClient'[i] = toClient[i]
        /\ \A i \in 1..Len(toClient') : i \in 1..Len(toClient) \/ i = Len(toClient) + 1
    BY <1>1, <1>6, ToClientAppend DEF Types
  <1>8. \A g : UAOf(g) <=> UAOf(g)'
    BY <1>2 DEF UAOf
  <1>9. ASSUME Later(f) PROVE Ends'
    <2>1. f.data.session = client.session /\ ~Same /\ Same' /\ ~Open /\ client.at = "snrm"
      <3>1. f.data.session = client.session /\ f.data.session # server.session
        BY <1>3, <1>9 DEF Sent, Later
      <3>2. ~Same /\ Same'
        BY <1>1, <1>2, <3>1 DEF Same
      <3>3. ~Open
        BY <3>2 DEF Ends, Sessions
      <3>4. client.at \in {"off", "snrm", "idle", "wait"}
        BY DEF Types, Clients
      <3> QED BY <1>3, <3>1, <3>2, <3>3, <3>4 DEF Ends, Sessions, Open
    <2>2. Sessions'
      <3>1. server'.session <= client'.session
        BY <1>1, <1>2, <2>1 DEF Types, Clients
      <3> QED BY <1>2, <1>5, <2>1, <3>1 DEF Ends, Sessions, Open
    <2>3. ToServer'
      <3>1. \A i \in 1..Len(toServer') : Later(toServer'[i]) /\ toServer'[i].data.session = client.session
        BY <1>3, <1>9 DEF SentBefore, Sent
      <3>2. \A i \in 1..Len(toServer') : toServer'[i].type = "SNRM" /\ toServer'[i].data.session = server'.session
        BY <1>1, <2>1, <3>1 DEF Later
      <3>3. \A g : g.type = "SNRM" /\ g.data.session = server'.session => Sent(g)'
        BY <1>5 DEF Sent, Later, New
      <3>4. \A g, h : g.type = "SNRM" /\ g.data.session = server'.session => SentBefore(g, h)'
        BY DEF SentBefore, Later, New
      <3> QED BY <3>2, <3>3, <3>4 DEF ToServer
    <2>4. Progress' /\ Answers'
      BY <1>2, <2>1 DEF Ends, Answers, Progress, Working, Open
    <2>5. Opening'
      <3>1. \A i \in 1..Len(toClient) : ~UAOf(toClient[i])
        BY <2>1 DEF Ends, Opening
      <3>2. \A i \in 1..Len(toClient') : UAOf(toClient[i])' => i = Len(toClient) + 1
        BY <1>7, <1>8, <3>1
      <3>3. \A i \in 1..Len(toClient') : toClient'[i].type = "UA" =>
                toClient'[i].data.session <= client'.session
        <4>1. f.data.session <= client'.session
          BY <1>2, <2>1 DEF Types, Clients
        <4> QED BY <1>2, <1>7, <4>1 DEF Ends, Opening
      <3>4. \A i, j \in 1..Len(toClient') : ~(i < j /\ UAOf(toClient[i])')
        BY <1>7, <3>2
      <3> QED BY <2>1, <3>3, <3>4 DEF Opening
    <2> QED BY <2>2, <2>3, <2>4, <2>5 DEF Ends
  <1>10. ASSUME ~Later(f) PROVE Ends'
    <2>1. Again(f) /\ Fresh /\ server'.session = server.session
      BY <1>1, <1>2, <1>3, <1>10 DEF Again, Later, Sent
    <2>2. /\ server'.request = server.request /\ server'.rest = server.rest
          /\ server'.transaction = server.transaction /\ server'.count = server.count
          /\ server'.heard = server.heard
      BY <1>1, <2>1 DEF Fresh, Types, Servers
    <2>3. Sessions'
      <3>1. (Open <=> Open') /\ (Same <=> Same')
        BY <1>2, <2>1 DEF Open, Same
      <3> QED BY <1>2, <1>3, <1>5, <2>1, <3>1 DEF Ends, Sessions
    <2>4. ToServer'
      <3>1. \A g : Sent(g) => Sent(g)'
        BY <1>2, <1>5, <2>1, <2>2 DEF Sent, Later, Again, New, NewPart, Same
      <3>2. \A g, h : SentBefore(g, h) => SentBefore(g, h)'
        BY <2>1, <2>2 DEF SentBefore, Later, Again, New
      <3>3. /\ \A i \in 1..Len(toServer') : Sent(toServer[i])'
            /\ \A i, j \in 1..Len(toServer') : i < j => SentBefore(toServer[i], toServer[j])'
        BY <1>3, <3>1, <3>2
      <3> QED BY <3>3 DEF ToServer
    <2>5. Progress'
      <3>1. /\ \A g : New(g) <=> New(g)'
            /\ (Open <=> Open') /\ (Working <=> Working') /\ (Served => Served') /\ (Asking => Asking')
        BY <1>2, <2>2 DEF New, Open, Working, Served, Asking, Handled, Acked, Asked, IsPart, Cur, At
      <3>2. Resting => Resting'
        BY <1>2, <1>3, <2>2, <3>1 DEF Resting
      <3>3. Open' => \A i \in 1..Len(toServer') : New(toServer[i])' => toServer'[i] = client'.frame
        BY <1>2, <1>3, <3>1 DEF Ends, Progress
      <3> QED BY <1>2, <3>1, <3>2, <3>3 DEF Ends, Progress
    <2>6. Answers'
      <3>1. ~Handled /\ ~Handled'
        BY <1>1, <1>2, <2>2 DEF Handled, Types, Clients
      <3>2. ASSUME NothingYet PROVE NothingYet'
        <4>1. \A i \in 1..Len(toClient') : toClient'[i].type = "I" => Nothing(toClient'[i])
          BY <1>7, <3>2 DEF NothingYet
        <4>2. NoRR(toServer)'
          <5>1. NoRR(toServer)
            BY <2>1, <3>2 DEF NothingYet, Fresh
          <5> QED BY <1>3, <5>1 DEF NoRR
        <4>3. Acked <=> Acked'
          BY <1>2, <2>2 DEF Acked, Asked
        <4>4. NoRR(toClient) => NoRR(toClient)'
          BY <1>7 DEF NoRR
        <4>5. \/ NoRR(toClient)'
              \/ /\ client'.at = "wait" /\ Acked'
                 /\ \A i, j \in 1..Len(toClient') :
                      toClient'[i].type = "RR" /\ toClient'[j].type = "RR" => i = j
          BY <1>2, <1>7, <3>2, <4>3, <4>4 DEF NothingYet
        <4> QED BY <1>1, <4>1, <4>2, <4>5 DEF NothingYet
      <3> QED BY <1>2, <3>1, <3>2 DEF Ends, Answers
    <2>7. Opening'
      <3>1. f.data.session = server.session /\ server.session <= client.session
        BY <1>1, <2>1 DEF Ends, Sessions
      <3>2. \A i \in 1..Len(toClient') : toClient'[i].type = "UA" =>
                toClient'[i].data.session <= client'.session
        BY <1>2, <1>7, <3>1 DEF Ends, Opening
      <3>3. ASSUME client.at = "snrm"
            PROVE  /\ \A i \in 1..Len(toClient') : UAOf(toClient[i])' => Same'
                   /\ \A i, j \in 1..Len(toClient') :
                        i < j /\ UAOf(toClient[i])' => toClient'[j].type \in {"UA", "FRMR"}
        <4>1. /\ \A i \in 1..Len(toClient) : UAOf(toClient[i]) => Same
              /\ \A i, j \in 1..Len(toClient) :
                   i < j /\ UAOf(toClient[i]) => toClient[j].type \in {"UA", "FRMR"}
          BY <3>3 DEF Ends, Opening
        <4>2. Same <=> Same'
          BY <1>2, <2>1 DEF Same
        <4>3. UAOf(toClient'[Len(toClient) + 1]) => Same
          BY <1>7, <3>1 DEF UAOf, Same
        <4>4. \A i \in 1..Len(toClient') : UAOf(toClient[i])' => Same'
          BY <1>7, <1>8, <4>1, <4>2, <4>3
        <4>5. ASSUME NEW i \in 1..Len(toClient'), NEW j \in 1..Len(toClient'),
                     i < j, UAOf(toClient[i])'
              PROVE  toClient'[j].type \in {"UA", "FRMR"}
          <5>1. i \in 1..Len(toClient) /\ UAOf(toClient[i])
            BY <1>7, <1>8, <4>5
          <5> QED BY <1>7, <4>1, <4>5, <5>1
        <4> QED BY <4>4, <4>5
      <3> QED BY <1>2, <3>2, <3>3 DEF Opening
    <2> QED BY <2>3, <2>4, <2>5, <2>6, <2>7 DEF Ends
  <1> QED BY <1>2, <1>4, <1>9, <1>10

(* An I-frame the server takes is the one the client sent last *)
LEMMA TakesNew ==
    ASSUME Types, Ends, InRange, NEW f, Takes(f), f.type = "I", f.ns = Inc(server.receiver.ns),
           server'.session = server.session, server'.heard = f.ns, UNCHANGED <<client, done, kind>>
    PROVE  /\ NewPart(f) /\ f.data.session = server.session
           /\ ToServer' /\ Sessions' /\ client.at # "idle" /\ ~(client.at = "snrm" /\ Same)
           /\ \A i \in 1..Len(toServer') : ~New(toServer[i])' /\ toServer'[i].type # "RR"
           /\ Open => /\ Asking /\ f = client.frame /\ Len(server.request) = Asked - 1
                      /\ kind \in Kinds
  <1>1. /\ toServer # << >> /\ Len(toServer') \in Nat /\ Sent(f) /\ f = toServer[1]
        /\ 1 \in 1..Len(toServer)
        /\ \A i \in 1..Len(toServer') : Sent(toServer'[i]) /\ SentBefore(f, toServer'[i])
        /\ \A i, j \in 1..Len(toServer') : i < j => SentBefore(toServer'[i], toServer'[j])
    <2>1. WasFirst(f)
      BY TakesHead DEF Ends
    <2> QED BY <2>1 DEF WasFirst
  <1>2. New(f)
    BY DEF InRange, New
  <1>3. NewPart(f) /\ f.data.session = server.session /\ ~(client.at = "snrm" /\ Same)
    BY <1>1, <1>2 DEF Sent
  <1>4. client.at # "idle"
    BY <1>1, <1>2 DEF Ends, Progress, Resting
  <1>5. \A i \in 1..Len(toServer') : toServer'[i] = f \/ Later(toServer'[i])
    BY <1>1, <1>2 DEF SentBefore
  <1>6. \A i \in 1..Len(toServer') : ~New(toServer[i])' /\ toServer'[i].type # "RR"
    BY <1>5 DEF New, Later
  <1>7. (Open <=> Open') /\ (Same <=> Same')
    BY DEF Open, Same
  <1>8. Sessions'
    BY <1>1, <1>3, <1>7 DEF Ends, Sessions
  <1>9. ToServer'
    <2>1. ASSUME NEW g, g = f \/ Later(g), Sent(g) PROVE Sent(g)'
      BY <1>3, <1>7, <2>1 DEF Sent, Later, Again, New
    <2>2. ASSUME NEW g, NEW h, g = f \/ Later(g), h = f \/ Later(h), SentBefore(g, h)
          PROVE  SentBefore(g, h)'
      BY <2>2 DEF SentBefore, Later, Again, New
    <2>3. /\ \A i \in 1..Len(toServer') : Sent(toServer[i])'
          /\ \A i, j \in 1..Len(toServer') : i < j => SentBefore(toServer[i], toServer[j])'
      BY <1>1, <1>5, <2>1, <2>2
    <2> QED BY <2>3 DEF ToServer
  <1>10. ASSUME Open
         PROVE  Asking /\ f = client.frame /\ Len(server.request) = Asked - 1 /\ kind \in Kinds
    <2>1. f = client.frame /\ kind # NoKind /\ (Asking \/ Served)
      BY <1>1, <1>2, <1>4, <1>10 DEF Ends, Progress, Working
    <2>2. ~Served
      BY <1>2, <2>1 DEF Served, New
    <2> QED BY <1>2, <2>1, <2>2 DEF Asking, Types
  <1> QED BY <1>3, <1>4, <1>6, <1>8, <1>9, <1>10

(* No UA of the present session is on the way to a client whose SNRM the   *)
(* server has not taken                                                    *)
LEMMA OpeningStays ==
    ASSUME Opening, UNCHANGED client, server'.session = server.session,
           ~(client.at = "snrm" /\ Same), NEW f, f.type # "UA",
           Types, toClient' = Append(toClient, f), f \in Replies
    PROVE  Opening'
  <1>1. /\ Len(toClient) \in Nat /\ Len(toClient') = Len(toClient) + 1
        /\ toClient'[Len(toClient) + 1] = f
        /\ \A i \in 1..Len(toClient) : toClient'[i] = toClient[i]
        /\ \A i \in 1..Len(toClient') : i \in 1..Len(toClient) \/ i = Len(toClient) + 1
    BY ToClientAppend DEF Types
  <1>2. \A i \in 1..Len(toClient') : toClient'[i].type = "UA" =>
            toClient'[i].data.session <= client'.session
    BY <1>1 DEF Opening
  <1>3. ASSUME client.at = "snrm" PROVE \A i \in 1..Len(toClient') : ~UAOf(toClient[i])'
    <2>1. \A i \in 1..Len(toClient) : ~UAOf(toClient[i])
      BY <1>3 DEF Opening
    <2> QED BY <1>1, <2>1 DEF UAOf
  <1> QED BY <1>2, <1>3 DEF Opening

(* While a part of the request is missing, no RR is on the way *)
LEMMA NoReady ==
    ASSUME NothingYet, Asking, Types, Len(server.request) = Asked - 1
    PROVE  NoRR(toClient)
  BY DEF NothingYet, Asking, Acked

(* The server takes a part: it is the next part of the request *)
LEMMA TakePartEnds ==
    ASSUME Types, Ends, InRange, NEW f, TakePart(f)
    PROVE  Ends' /\ InRange' /\ whole' = whole
  <1>1. /\ server' \in Servers /\ toClient' \in Seq(Replies)
        /\ f.ns = Inc(server.receiver.ns)
        /\ server'.session = server.session
        /\ server'.request = Append(server.request, f.data)
        /\ server'.rest = server.rest /\ server'.transaction = server.transaction
        /\ server'.count = server.count /\ server'.heard = f.ns
        /\ server'.sent = server.sent /\ server'.receiver.ns = f.ns
    BY TakePartEffect
  <1>2. PICK n \in 0..7 : toClient' = Append(toClient, RR(n))
    BY TakePartEffect
  <1>3. Takes(f) /\ f.type = "I" /\ f.more /\ UNCHANGED <<client, done, kind, whole>>
    BY DEF TakePart, Others
  <1>4. /\ NewPart(f) /\ f.data.session = server.session
        /\ ToServer' /\ Sessions' /\ client.at # "idle" /\ ~(client.at = "snrm" /\ Same)
        /\ \A i \in 1..Len(toServer') : ~New(toServer[i])' /\ toServer'[i].type # "RR"
        /\ Open => /\ Asking /\ f = client.frame /\ Len(server.request) = Asked - 1
                   /\ kind \in Kinds
    BY <1>1, <1>3, TakesNew
  <1>5. InRange'
    <2>1. f.ns \in 0..7
      BY <1>3, TakesTyped DEF Types
    <2> QED BY <1>1, <2>1, IncTyped DEF InRange
  <1>6. RR(n) \in Replies /\ RR(n).type = "RR"
    BY FramesTyped DEF RR, Frame
  <1>7. /\ Len(toClient) \in Nat /\ Len(toClient') = Len(toClient) + 1
        /\ toClient'[Len(toClient) + 1].type = "RR"
        /\ \A i \in 1..Len(toClient) : toClient'[i] = toClient[i]
        /\ \A i \in 1..Len(toClient') : i \in 1..Len(toClient) \/ i = Len(toClient) + 1
    BY <1>2, <1>6, ToClientAppend DEF Types
  <1>8. Opening'
    BY <1>1, <1>2, <1>3, <1>4, <1>6, OpeningStays DEF Ends
  <1>9. ASSUME Open PROVE Asking' /\ Acked' /\ kind # NoKind
    <2>1. /\ Asking /\ f = client.frame /\ Len(server.request) = Asked - 1 /\ kind \in Kinds
          /\ Asked \in 1..kind.frames /\ IsPart(f, Asked)
          /\ server.request = Cur(Len(server.request))
      BY <1>4, <1>9 DEF Asking
    <2>2. PICK m \in Nat : m = Len(server.request)
      BY DEF Types, Servers
    <2>3. /\ client.session \in 0..MaxSessions /\ done + 1 \in Nat /\ kind.frames \in Nat
          /\ kind # NoKind
      <3>1. client.session \in 0..MaxSessions /\ done \in Nat
        BY BoundAssumption DEF Types, Clients
      <3> QED BY <2>1, <3>1, KindTyped, KindAssumption DEF NoKind
    <2>4. Asked = m + 1 /\ f.data = At(m + 1) /\ Asked < kind.frames
      BY <1>3, <2>1, <2>2, <2>3 DEF IsPart
    <2>5. server'.request = Cur(m + 1)
      <3>1. server.request = Parts(client.session, done + 1, kind, m)
        BY <2>1, <2>2 DEF Cur
      <3>2. Append(Parts(client.session, done + 1, kind, m), Part(client.session, done + 1, kind, m + 1))
                = Parts(client.session, done + 1, kind, m + 1)
        <4>1. PICK s \in 0..MaxSessions, id \in Nat, k \in Kinds :
                s = client.session /\ id = done + 1 /\ k = kind
          BY <2>1, <2>3
        <4>2. Append(Parts(s, id, k, m), Part(s, id, k, m + 1)) = Parts(s, id, k, m + 1)
          BY PartsAppend
        <4> QED BY <4>1, <4>2
      <3> QED BY <1>1, <2>4, <3>1, <3>2 DEF At, Cur
    <2>6. Len(server'.request) = m + 1
      BY <1>1, <2>2, <1>3, TakesTyped, AppendTo DEF Types, Servers
    <2>7. Asked' = Asked /\ Acked'
      BY <1>3, <2>4, <2>6 DEF Asked, Acked
    <2>8. server'.request = Cur(Len(server.request))'
      BY <1>3, <2>5, <2>6 DEF Cur
    <2>9. ~New(client.frame)'
      BY <1>1, <1>3, <2>1 DEF New
    <2>10. \A g, i : IsPart(g, i) => IsPart(g, i)'
      BY <1>3 DEF IsPart, At
    <2>11. server'.count = client'.count /\ client'.got = << >>
      BY <1>1, <1>3, <2>1 DEF Asking
    <2>12. /\ IsPart(client.frame, Asked)' /\ Len(client'.outbox) = kind'.frames - Asked'
           /\ \A i \in 1..Len(client'.outbox) : IsPart(client.outbox[i], Asked + i)'
      BY <1>3, <2>1, <2>7 DEF Asking, IsPart, At
    <2> QED BY <1>3, <2>1, <2>3, <2>4, <2>7, <2>8, <2>9, <2>11, <2>12 DEF Asking
  <1>10. Progress'
    <2>1. Open <=> Open'
      BY <1>3 DEF Open
    <2> QED BY <1>3, <1>4, <1>9, <2>1 DEF Progress, Working
  <1>11. Answers'
    <2>1. ASSUME client.at = "wait" PROVE NothingYet' /\ ~Handled'
      <3>1. Open
        BY <2>1 DEF Ends, Sessions, Open
      <3>2. Asking /\ Len(server.request) = Asked - 1 /\ Acked' /\ server.count = client.count
        BY <1>4, <1>9, <3>1 DEF Asking
      <3>3. ~Handled /\ ~Handled'
        BY <1>1, <1>3, <3>2 DEF Handled, Types, Clients
      <3>4. NothingYet
        BY <2>1, <3>3 DEF Ends, Answers
      <3>5. NoRR(toClient)
        BY <3>2, <3>4, NoReady
      <3>6. \A i, j \in 1..Len(toClient') : toClient'[i].type = "RR" /\ toClient'[j].type = "RR" => i = j
        BY <1>7, <3>5 DEF NoRR
      <3>7. \A i \in 1..Len(toClient') : toClient'[i].type = "I" => Nothing(toClient'[i])
        BY <1>7, <3>4 DEF NothingYet
      <3>8. NoRR(toServer)'
        BY <1>4 DEF NoRR
      <3> QED BY <1>1, <1>3, <2>1, <3>2, <3>3, <3>4, <3>6, <3>7, <3>8 DEF NothingYet
    <2> QED BY <1>3, <1>4, <2>1 DEF Ends, Answers
  <1> QED BY <1>3, <1>4, <1>5, <1>8, <1>10, <1>11 DEF Ends

(* The server takes the last part: the answer begins *)
LEMMA HandleRequestEnds ==
    ASSUME Types, Ends, InRange, NEW f, HandleRequest(f)
    PROVE  Ends' /\ InRange' /\ whole' = whole
  <1> DEFINE k == f.data.kind
  <1>1. /\ server' \in Servers /\ toClient' \in Seq(Replies) /\ k \in Kinds
        /\ f.ns = Inc(server.receiver.ns)
        /\ server'.session = server.session /\ server'.request = << >>
        /\ server'.rest = [i \in 1..(k.parts - 1) |-> Part(server.session, f.data.id, k, 1 + i)]
        /\ server'.count = server.count + 1 /\ server'.heard = f.ns
        /\ server'.sent = Part(server.session, f.data.id, k, 1)
        /\ server'.receiver.ns = f.ns
        /\ toClient' = Append(toClient, I(server'.sender, k.parts > 1, server'.sent))
        /\ whole' = (whole /\ Append(server.request, f.data)
                                   = Parts(server.session, f.data.id, k, k.frames))
    BY HandleRequestEffect
  <1>2. Takes(f) /\ f.type = "I" /\ ~f.more /\ UNCHANGED <<client, done, kind>>
    BY DEF HandleRequest, Others
  <1>3. f.data \in Data /\ f.ns \in 0..7 /\ k.parts \in Nat /\ k.frames \in Nat /\ server \in Servers
    BY <1>1, <1>2, TakesTyped, KindTyped DEF Types
  <1> HIDE DEF k
  <1>4. /\ NewPart(f) /\ f.data.session = server.session
        /\ ToServer' /\ Sessions' /\ client.at # "idle" /\ ~(client.at = "snrm" /\ Same)
        /\ \A i \in 1..Len(toServer') : ~New(toServer[i])' /\ toServer'[i].type # "RR"
        /\ Open => /\ Asking /\ f = client.frame /\ Len(server.request) = Asked - 1
                   /\ kind \in Kinds
    BY <1>1, <1>2, TakesNew
  <1>5. InRange'
    BY <1>1, <1>3, IncTyped DEF InRange
  <1>6. whole' = whole
    <2>1. PICK m \in Nat : m = Len(server.request)
      BY <1>3 DEF Servers
    <2>2. /\ server.request = Parts(server.session, f.data.id, k, m)
          /\ f.data.part = m + 1 /\ m + 1 = k.frames
      BY <1>2, <1>3, <1>4, <2>1 DEF NewPart, k, Data
    <2>3. f.data = Part(server.session, f.data.id, k, m + 1)
      BY <1>3, <1>4, <2>2 DEF Data, Part, k
    <2>4. server.session \in 0..MaxSessions /\ f.data.id \in Nat
      BY <1>3 DEF Data, Servers
    <2>5. Append(Parts(server.session, f.data.id, k, m), Part(server.session, f.data.id, k, m + 1))
              = Parts(server.session, f.data.id, k, m + 1)
      <3>1. PICK s \in 0..MaxSessions, id \in Nat, z \in Kinds :
              s = server.session /\ id = f.data.id /\ z = k
        BY <1>1, <2>4
      <3>2. Append(Parts(s, id, z, m), Part(s, id, z, m + 1)) = Parts(s, id, z, m + 1)
        BY PartsAppend
      <3> QED BY <3>1, <3>2
    <2>6. Append(server.request, f.data) = Parts(server.session, f.data.id, k, k.frames)
      BY <2>2, <2>3, <2>5
    <2> QED BY <1>1, <2>6 DEF Types
  <1> DEFINE a == I(server'.sender, k.parts > 1, server'.sent)
  <1>7. /\ a \in Replies /\ a.type = "I" /\ a.data = server'.sent /\ a.ns = server'.sender.ns
        /\ (a.more <=> k.parts > 1)
    <2>1. server'.sender \in Senders /\ server'.sent \in Data /\ (k.parts > 1) \in BOOLEAN
      BY <1>1 DEF Servers
    <2>2. a \in Replies
      BY <2>1, FramesTyped
    <2> QED BY <2>2 DEF I, Frame
  <1>8. toClient' = Append(toClient, a)
    BY <1>1
  <1> HIDE DEF a
  <1>9. /\ Len(toClient) \in Nat /\ Len(toClient') = Len(toClient) + 1
        /\ toClient'[Len(toClient) + 1] = a
        /\ \A i \in 1..Len(toClient) : toClient'[i] = toClient[i]
        /\ \A i \in 1..Len(toClient') : i \in 1..Len(toClient) \/ i = Len(toClient) + 1
    BY <1>7, <1>8, ToClientAppend DEF Types
  <1>10. Opening'
    BY <1>1, <1>2, <1>4, <1>7, <1>8, OpeningStays DEF Ends
  <1>11. ASSUME Open
         PROVE  /\ Served' /\ kind \in Kinds /\ kind # NoKind /\ kind = k
                /\ f.data = At(Asked) /\ client.got = << >> /\ ~Handled
                /\ Len(server.request) = Asked - 1 /\ Asking
    <2>1. /\ Asking /\ f = client.frame /\ Len(server.request) = Asked - 1 /\ kind \in Kinds
          /\ Asked \in 1..kind.frames /\ IsPart(f, Asked) /\ client.got = << >>
          /\ server.count = client.count /\ Len(client.outbox) = kind.frames - Asked
      BY <1>4, <1>11 DEF Asking
    <2>2. kind.frames \in Nat /\ kind # NoKind
      BY <2>1, KindTyped, KindAssumption DEF NoKind
    <2>3. f.data = At(Asked) /\ Asked = kind.frames
      BY <1>2, <2>1, <2>2 DEF IsPart
    <2>4. kind = k
      BY <2>3 DEF At, Part, k
    <2>5. client.outbox = << >>
      BY <2>1, <2>2, <2>3 DEF Types, Clients
    <2>6. Handled' /\ ~Handled
      BY <1>1, <1>2, <2>1 DEF Handled, Types, Clients
    <2>7. client.session = f.data.session
      BY <2>3 DEF At, Part
    <2>8. Served'
      BY <1>1, <1>2, <2>1, <2>5, <2>6, <2>7 DEF Served, New
    <2> QED BY <2>1, <2>2, <2>3, <2>4, <2>6, <2>8
  <1>12. Progress'
    <2>1. Open <=> Open'
      BY <1>2 DEF Open
    <2> QED BY <1>2, <1>4, <1>11, <2>1 DEF Progress, Working
  <1>13. Answers'
    <2>1. ASSUME client.at = "wait" PROVE First' /\ Handled' /\ client.got = << >>
      <3>1. Open
        BY <2>1 DEF Ends, Sessions, Open
      <3>2. /\ Served' /\ kind \in Kinds /\ kind = k /\ f.data = At(Asked) /\ client.got = << >>
            /\ ~Handled /\ Len(server.request) = Asked - 1 /\ Asking
        BY <1>11, <3>1
      <3>3. NothingYet
        BY <2>1, <3>2 DEF Ends, Answers
      <3>4. NoRR(toClient)
        BY <3>2, <3>3, NoReady
      <3>5. NoRR(toServer)' /\ NoRR(toClient)'
        BY <1>4, <1>7, <1>9, <3>4 DEF NoRR
      <3>6. /\ f.data.session = client.session /\ f.data.id = done + 1
            /\ \A i : Part(server.session, f.data.id, k, i) = At(i)
            /\ \A i : At(i)' = At(i)
        BY <1>2, <1>4, <3>2 DEF At, Part
      <3>7. server'.sent = At(1)'
        BY <1>1, <3>6
      <3>8. RestIs(1)'
        <4>1. server'.rest = [i \in 1..(k.parts - 1) |-> At(1 + i)]
          BY <1>1, <3>6
        <4>2. server'.rest \in Seq(Data) /\ k.parts \in Nat /\ k.parts >= 1
          <5>1. server'.rest \in Seq(Data)
            BY <1>1 DEF Servers
          <5>2. k.parts \in Nat \ {0}
            BY <1>1, KindTyped
          <5> QED BY <5>1, <5>2
        <4>3. Len(server'.rest) = k.parts - 1
          BY <4>1, <4>2
        <4>4. \A i \in 1..Len(server'.rest) : server'.rest[i] = At(1 + i)
          BY <4>1, <4>3
        <4>5. 1 >= k.parts => server'.rest = << >>
          BY <4>2, <4>3
        <4> QED BY <1>2, <3>2, <3>6, <4>3, <4>4, <4>5 DEF RestIs
      <3>9. ASSUME NEW i \in 1..Len(toClient'), toClient'[i].type = "I"
             PROVE  \/ Nothing(toClient'[i])
                    \/ /\ IsAnswer(toClient[i], 1)' /\ toClient'[i].ns = server'.sender.ns
                       /\ \A j \in 1..Len(toClient') : i < j => toClient'[j].type # "I"
        <4>1. CASE i \in 1..Len(toClient)
          BY <1>9, <3>3, <3>9, <4>1 DEF NothingYet
        <4>2. CASE i = Len(toClient) + 1
          <5>1. toClient'[i] = a
            BY <1>9, <4>2
          <5>2. IsAnswer(toClient[i], 1)'
            BY <3>7, <1>7, <1>2, <1>3, <3>2, <5>1 DEF IsAnswer
          <5>3. \A j \in 1..Len(toClient') : ~(i < j)
            BY <1>9, <4>2
          <5> QED BY <1>7, <5>1, <5>2, <5>3
        <4> QED BY <1>9, <4>1, <4>2
      <3> QED BY <3>2, <3>5, <3>7, <3>8, <3>9 DEF First, Served
    <2> QED BY <1>2, <1>4, <2>1 DEF Ends, Answers
  <1> QED BY <1>4, <1>5, <1>6, <1>10, <1>12, <1>13 DEF Ends

(* Numbers go on by one *)
LEMMA Shift == \A h, d \in Nat : (((h + d) % 8) + 1) % 8 = (h + d + 1) % 8
  OBVIOUS

(* An RR the server takes: of the fields that are not about the answer,    *)
(* none changes                                                            *)
LEMMA TakesReady ==
    ASSUME Types, Ends, NEW f, Takes(f), f.type = "RR",
           server'.session = server.session, server'.request = server.request,
           server'.count = server.count, server'.heard = server.heard,
           UNCHANGED <<client, done, kind>>
    PROVE  /\ Sessions' /\ ToServer' /\ Progress' /\ ~(client.at = "snrm" /\ Same)
           /\ ~NoRR(toServer) /\ (NoRR(toServer) => NoRR(toServer)')
  <1>1. /\ toServer # << >> /\ Len(toServer') \in Nat /\ Sent(f) /\ f = toServer[1]
        /\ 1 \in 1..Len(toServer)
        /\ \A i \in 1..Len(toServer') : Sent(toServer'[i]) /\ SentBefore(f, toServer'[i])
        /\ \A i, j \in 1..Len(toServer') : i < j => SentBefore(toServer'[i], toServer'[j])
        /\ \A i \in 1..Len(toServer') :
                 toServer'[i] = toServer[i + 1] /\ i + 1 \in 1..Len(toServer)
    <2>1. WasFirst(f)
      BY TakesHead DEF Ends
    <2> QED BY <2>1 DEF WasFirst
  <1>2. ~(client.at = "snrm" /\ Same) /\ ~NoRR(toServer)
    BY <1>1 DEF Sent, NoRR
  <1>3. (Open <=> Open') /\ (Same <=> Same') /\ (\A g : New(g) <=> New(g)')
    BY DEF Open, Same, New
  <1>4. Sessions'
    BY <1>1, <1>2, <1>3 DEF Ends, Sessions
  <1>5. ToServer'
    <2>1. \A g : Sent(g) /\ ~Again(g) => Sent(g)'
      BY <1>2, <1>3 DEF Sent, Later, Again, NewPart
    <2>2. \A g, h : SentBefore(g, h) => SentBefore(g, h)'
      BY <1>3 DEF SentBefore, Later, Again
    <2>3. \A g : SentBefore(f, g) => ~Again(g)
      BY DEF SentBefore
    <2>4. /\ \A i \in 1..Len(toServer') : Sent(toServer[i])'
          /\ \A i, j \in 1..Len(toServer') : i < j => SentBefore(toServer[i], toServer[j])'
      BY <1>1, <2>1, <2>2, <2>3
    <2> QED BY <2>4 DEF ToServer
  <1>6. Progress'
    <2>1. (Working <=> Working') /\ (Served => Served') /\ (Asking => Asking')
      BY <1>3 DEF Working, Served, Asking, Handled, Acked, Asked, IsPart, Cur, At
    <2>2. Resting => Resting'
      BY <1>1, <1>3 DEF Resting
    <2>3. Open' => \A i \in 1..Len(toServer') : New(toServer[i])' => toServer'[i] = client'.frame
      BY <1>1, <1>3 DEF Ends, Progress
    <2> QED BY <2>1, <2>2, <2>3 DEF Ends, Progress
  <1> QED BY <1>2, <1>4, <1>5, <1>6

(* The server sends a, the next part of the answer, or none *)
SendsNext(a) ==
    /\ UNCHANGED <<client, done, kind>>
    /\ toClient' = Append(toClient, a) /\ a \in Replies /\ a.type = "I"
    /\ a.data = server'.sent /\ a.ns = server'.sender.ns
    /\ server'.sender.ns = Inc(server.sender.ns)
    /\ server.rest # << >> => /\ server'.rest = Tail(server.rest)
                              /\ server'.sent = Head(server.rest)
                              /\ (a.more <=> Len(server.rest) > 1)
    /\ server.rest = << >> => /\ server'.rest = << >>
                              /\ server'.sent = NextPart(server.sent)
                              /\ ~a.more

(* The parts stay in turn when the next one is sent *)
LEMMA NextSent ==
    ASSUME Types, InTurn, NEW a, SendsNext(a), kind \in Kinds
    PROVE  InTurn'
  <1>1. /\ client.missed \in Nat /\ client.got \in Seq(Data) /\ server.sent \in Data
        /\ client.receiver \in Numbers /\ server.rest \in Seq(Data) /\ kind.parts \in Nat
    <2>1. /\ client.missed \in Nat /\ client.got \in Seq(Data) /\ server.sent \in Data
          /\ client.receiver \in Numbers /\ server.rest \in Seq(Data)
      BY DEF Types, Servers, Clients
    <2> QED BY <2>1, KindTyped
  <1>2. PICK g \in Nat, l \in Nat, h \in 0..7, q \in Nat, p \in Nat :
          g = Got /\ l = Last /\ h = Here /\ q = client.missed /\ p = kind.parts
    <2>1. Last \in Nat /\ Got \in Nat /\ Here \in 0..7
      BY <1>1 DEF Data, Last, Got, Here, Numbers
    <2> QED BY <1>1, <2>1
  <1>3. /\ Len(toClient) \in Nat /\ Len(toClient') = Len(toClient) + 1
        /\ toClient'[Len(toClient) + 1] = a
        /\ \A i \in 1..Len(toClient) : toClient'[i] = toClient[i]
        /\ \A i \in 1..Len(toClient') : i \in 1..Len(toClient) \/ i = Len(toClient) + 1
    BY ToClientAppend DEF Types, SendsNext
  <1>4. PICK m \in Nat : m = Len(toClient)
    BY <1>3
  <1>5. /\ Len(toClient') = m + 1 /\ toClient'[m + 1] = a
        /\ \A i \in 1..m : toClient'[i] = toClient[i]
        /\ \A i \in 1..(m + 1) : i \in 1..m \/ i = m + 1
    BY <1>3, <1>4
  <1>6. NoRR(toClient) /\ server.sent = At(l) /\ RestIs(l)
    BY <1>2 DEF InTurn
  <1>7. g <= l /\ l <= g + q + m /\ server.sender.ns = (h + (l - g)) % 8
    BY <1>2, <1>4 DEF InTurn
  <1>8. /\ client' = client /\ kind' = kind /\ Got' = g /\ Here' = h /\ client'.missed = q
        /\ \A i : At(i)' = At(i)
    BY <1>2 DEF SendsNext, Got, Here, At
  <1>9. a.type = "I" /\ a.data = server'.sent /\ a.ns = server'.sender.ns
    BY DEF SendsNext
  <1>10. ASSUME server.rest # << >>
         PROVE  /\ l < p /\ Len(server.rest) = p - l
                /\ \A i \in 1..Len(server.rest) : server.rest[i] = At(l + i)
    <2>1. l < p
      <3>1. ~(l >= p)
        BY <1>2, <1>6, <1>10 DEF RestIs
      <3> QED BY <3>1
    <2> QED BY <1>2, <1>6, <2>1 DEF RestIs
  <1>11. ASSUME server.rest # << >>
         PROVE  /\ server'.rest \in Seq(Data) /\ Len(server'.rest) = Len(server.rest) - 1
                /\ Len(server.rest) \in Nat /\ 1 \in 1..Len(server.rest)
                /\ \A i \in 1..(Len(server.rest) - 1) : server'.rest[i] = server.rest[i + 1]
                /\ server'.sent = server.rest[1] /\ (a.more <=> Len(server.rest) > 1)
    <2>1. PICK r \in Seq(Data) : r = server.rest
      BY <1>1
    <2>2. /\ server'.rest = Tail(r) /\ server'.sent = Head(r) /\ r # << >>
          /\ (a.more <=> Len(r) > 1)
      BY <1>11, <2>1 DEF SendsNext
    <2>3. /\ Tail(r) \in Seq(Data) /\ Head(r) = r[1] /\ Len(r) \in Nat /\ Len(r) >= 1
          /\ Len(Tail(r)) = Len(r) - 1 /\ \A i \in 1..(Len(r) - 1) : Tail(r)[i] = r[i + 1]
      BY <2>2, TailOf
    <2> QED BY <2>1, <2>2, <2>3
  <1>12. server'.sent = At(l + 1) /\ Last' = l + 1
    <2>1. server'.sent = At(l + 1)
      <3>1. CASE server.rest # << >>
        BY <1>10, <1>11, <3>1
      <3>2. CASE server.rest = << >>
        <4>1. server'.sent = NextPart(At(l))
          BY <1>6, <3>2 DEF SendsNext
        <4> QED BY <4>1 DEF NextPart, At, Part
      <3> QED BY <3>1, <3>2
    <2> QED BY <2>1 DEF At, Part, Last
  <1>13. RestIs(l + 1)' /\ (a.more <=> l + 1 < p)
    <2>1. CASE server.rest # << >>
      <3>1. PICK n \in Nat : n = Len(server.rest)
        BY <1>11, <2>1
      <3>2. l < p /\ n = p - l /\ Len(server'.rest) = n - 1 /\ (a.more <=> n > 1)
        BY <1>10, <1>11, <2>1, <3>1
      <3>3. Len(server'.rest) = p - (l + 1) /\ (a.more <=> l + 1 < p)
        BY <3>2
      <3>4. ASSUME NEW i \in 1..(n - 1) PROVE server'.rest[i] = At((l + 1) + i)
        <4>1. i + 1 \in 1..n /\ l + (i + 1) = (l + 1) + i
          OBVIOUS
        <4>2. server'.rest[i] = server.rest[i + 1] /\ server.rest[i + 1] = At(l + (i + 1))
          BY <1>10, <1>11, <2>1, <3>1, <4>1
        <4> QED BY <4>1, <4>2
      <3>5. l + 1 >= p => server'.rest = << >>
        <4>1. l + 1 >= p => Len(server'.rest) = 0
          BY <3>2
        <4> QED BY <1>11, <2>1, <4>1
      <3> QED BY <1>2, <1>8, <3>2, <3>3, <3>4, <3>5 DEF RestIs
    <2>2. CASE server.rest = << >>
      <3>1. ~(l < p)
        <4>1. l < p => Len(server.rest) = p - l
          BY <1>2, <1>6 DEF RestIs
        <4>2. Len(server.rest) = 0
          BY <2>2
        <4> QED BY <4>1, <4>2
      <3>2. ~(l + 1 < p) /\ l + 1 >= p
        BY <3>1
      <3>3. server'.rest = << >> /\ ~a.more
        BY <2>2 DEF SendsNext
      <3> QED BY <1>2, <1>8, <3>2, <3>3 DEF RestIs
    <2> QED BY <2>1, <2>2
  <1>14. server'.sender.ns = (h + ((l + 1) - g)) % 8
    <2>1. PICK d \in Nat : d = l - g
      BY <1>7
    <2>2. server'.sender.ns = (((h + d) % 8) + 1) % 8
      <3>1. server'.sender.ns = Inc((h + d) % 8)
        BY <1>7, <2>1 DEF SendsNext
      <3> QED BY <3>1 DEF Inc
    <2>3. h \in Nat
      OBVIOUS
    <2>4. (((h + d) % 8) + 1) % 8 = (h + d + 1) % 8
      BY <2>3, Shift
    <2>5. h + d + 1 = h + ((l + 1) - g)
      BY <2>1, <2>3
    <2> QED BY <2>2, <2>4, <2>5
  <1>15. NoRR(toClient)'
    BY <1>4, <1>5, <1>6, <1>9 DEF NoRR
  <1>16. ASSUME NEW i \in 1..m, toClient[i].type = "I", NEW n, n = toClient[i].data.part
         PROVE  /\ n \in Nat /\ IsAnswer(toClient[i], n)
                /\ g < n /\ n <= l /\ n <= g + q + i /\ l <= n + (m - i)
                /\ toClient[i].ns = (h + (n - g)) % 8
    <2>1. toClient[i] \in Replies
      BY <1>4 DEF Types, Lines
    <2>2. n \in Nat
      BY <1>16, <2>1 DEF Replies, Frames, Data
    <2>3. Comes(i, n)
      BY <1>4, <1>16 DEF InTurn
    <2> QED BY <1>2, <1>4, <2>2, <2>3 DEF Comes
  <1>17. ASSUME NEW i \in 1..Len(toClient'), toClient'[i].type = "I"
         PROVE  Comes(i, toClient[i].data.part)'
    <2>1. i \in 1..(m + 1)
      BY <1>5
    <2>2. CASE i \in 1..m
      <3>1. PICK n : n = toClient[i].data.part
        OBVIOUS
      <3>2. toClient'[i] = toClient[i] /\ i \in Nat
        BY <1>5, <2>2
      <3>3. /\ n \in Nat /\ IsAnswer(toClient[i], n)
            /\ g < n /\ n <= l /\ n <= g + q + i /\ l <= n + (m - i)
            /\ toClient[i].ns = (h + (n - g)) % 8
        BY <1>16, <1>17, <2>2, <3>1, <3>2
      <3>4. IsAnswer(toClient[i], n)'
        BY <1>8, <3>2, <3>3 DEF IsAnswer
      <3>5. n <= l + 1 /\ l + 1 <= n + ((m + 1) - i)
        BY <3>2, <3>3
      <3>6. Comes(i, n)'
        BY <1>5, <1>8, <1>12, <3>2, <3>3, <3>4, <3>5 DEF Comes
      <3>7. toClient'[i].data.part = n
        BY <3>1, <3>2
      <3> QED BY <3>6, <3>7
    <2>3. CASE i = m + 1
      <3>1. toClient'[i] = a /\ a.data = At(l + 1)
        BY <1>5, <1>9, <1>12, <2>3
      <3>2. a.data.part = l + 1
        BY <3>1 DEF At, Part
      <3>3. IsAnswer(toClient[i], l + 1)'
        BY <1>2, <1>8, <1>13, <3>1 DEF IsAnswer
      <3>4. /\ g < l + 1 /\ l + 1 <= l + 1 /\ l + 1 <= g + q + i
            /\ l + 1 <= (l + 1) + ((m + 1) - i)
        BY <1>7, <2>3
      <3>5. Comes(i, l + 1)'
        BY <1>5, <1>8, <1>9, <1>12, <1>14, <3>1, <3>3, <3>4 DEF Comes
      <3> QED BY <3>1, <3>2, <3>5
    <2> QED BY <1>5, <2>1, <2>2, <2>3
  <1>18. ASSUME NEW i \in 1..Len(toClient'), NEW j \in 1..Len(toClient'),
                i < j, toClient'[i].type = "I", toClient'[j].type = "I"
         PROVE  /\ toClient'[i].data.part < toClient'[j].data.part
                /\ toClient'[j].data.part <= toClient'[i].data.part + (j - i)
    <2>1. i \in 1..m /\ (j \in 1..m \/ j = m + 1)
      BY <1>5, <1>18
    <2>2. CASE j \in 1..m
      <3>1. toClient'[i] = toClient[i] /\ toClient'[j] = toClient[j]
        BY <1>5, <2>1, <2>2
      <3>2. i \in 1..Len(toClient) /\ j \in 1..Len(toClient)
        BY <1>4, <2>1, <2>2
      <3> QED BY <1>18, <3>1, <3>2 DEF InTurn
    <2>3. CASE j = m + 1
      <3>1. toClient'[i] = toClient[i]
        BY <1>5, <2>1
      <3>2. PICK n : n = toClient[i].data.part
        OBVIOUS
      <3>3. n \in Nat /\ n <= l /\ l <= n + (m - i)
        BY <1>16, <1>18, <2>1, <3>1, <3>2
      <3>4. toClient'[j].data.part = l + 1
        BY <1>5, <1>9, <1>12, <2>3 DEF At, Part
      <3>5. n < l + 1 /\ l + 1 <= n + (j - i)
        BY <2>1, <2>3, <3>3
      <3> QED BY <3>1, <3>2, <3>4, <3>5
    <2> QED BY <2>1, <2>2, <2>3
  <1>19. /\ Got' <= Last' /\ Last' <= Got' + client'.missed + Len(toClient')
         /\ server'.sender.ns = (Here' + (Last' - Got')) % 8
         /\ server'.sent = At(Last)' /\ RestIs(Last)'
    <2>1. g <= l + 1 /\ l + 1 <= g + q + (m + 1)
      BY <1>7
    <2>2. server'.sent = At(Last)' /\ RestIs(Last)'
      BY <1>8, <1>12, <1>13
    <2> QED BY <1>5, <1>8, <1>12, <1>14, <2>1, <2>2
  <1> QED BY <1>15, <1>17, <1>18, <1>19 DEF InTurn

(* The server sends the next part, or says that none is left *)
LEMMA GetNextFrameEnds ==
    ASSUME Types, Ends, InRange, NEW f, GetNextFrame(f)
    PROVE  Ends' /\ InRange' /\ whole' = whole
  <1> DEFINE a == I(server'.sender, server.rest # << >> /\ Len(server.rest) > 1, server'.sent)
  <1>1. /\ server' \in Servers /\ toClient' \in Seq(Replies)
        /\ server'.session = server.session /\ server'.request = server.request
        /\ server'.transaction = server.transaction
        /\ server'.count = server.count /\ server'.heard = server.heard
        /\ server'.receiver.ns = server.receiver.ns
        /\ server.rest # << >> =>
              /\ server'.rest = Tail(server.rest) /\ server'.sent = Head(server.rest)
              /\ server'.sender.ns = IF server.transaction THEN Inc(server.sender.ns)
                                       ELSE Inc(Inc(server.sender.ns))
              /\ toClient' = Append(toClient, I(server'.sender, Len(server.rest) > 1, server'.sent))
        /\ server.rest = << >> /\ server.transaction =>
              /\ server'.rest = << >> /\ server'.sent = NextPart(server.sent)
              /\ server'.sender.ns = Inc(server.sender.ns)
              /\ toClient' = Append(toClient, I(server'.sender, FALSE, server'.sent))
        /\ server.rest = << >> /\ ~server.transaction =>
              /\ server'.rest = << >> /\ server'.sent = server.sent
              /\ server'.sender.ns = server.sender.ns
              /\ \E n \in 0..7 : toClient' = Append(toClient, RR(n))
    BY GetNextFrameEffect
  <1>2. Takes(f) /\ f.type = "RR" /\ UNCHANGED <<client, done, kind, whole>>
    BY DEF GetNextFrame, Others
  <1>3. /\ Sessions' /\ ToServer' /\ Progress' /\ ~(client.at = "snrm" /\ Same)
        /\ ~NoRR(toServer)
    BY <1>1, <1>2, TakesReady
  <1>4. InRange'
    BY <1>1 DEF InRange
  <1>5. /\ a \in Replies /\ a.type = "I" /\ a.data = server'.sent /\ a.ns = server'.sender.ns
        /\ (a.more <=> server.rest # << >> /\ Len(server.rest) > 1)
    <2>1. /\ server'.sender \in Senders /\ server'.sent \in Data
          /\ (server.rest # << >> /\ Len(server.rest) > 1) \in BOOLEAN
      BY <1>1 DEF Servers
    <2>2. a \in Replies
      BY <2>1, FramesTyped
    <2> QED BY <2>2 DEF I, Frame
  <1>6. server.rest # << >> \/ server.transaction => toClient' = Append(toClient, a)
    <2>1. CASE server.rest # << >>
      <3>1. (server.rest # << >> /\ Len(server.rest) > 1) = (Len(server.rest) > 1)
        BY <2>1
      <3> QED BY <1>1, <2>1, <3>1
    <2>2. CASE server.rest = << >>
      <3>1. (server.rest # << >> /\ Len(server.rest) > 1) = FALSE
        BY <2>2
      <3> QED BY <1>1, <2>2, <3>1
    <2> QED BY <2>1, <2>2
  <1> HIDE DEF a
  <1>7. PICK b \in Replies : /\ toClient' = Append(toClient, b) /\ b.type \in {"I", "RR"}
                             /\ server.rest # << >> \/ server.transaction => b = a
                             /\ server.rest = << >> /\ ~server.transaction => b.type = "RR"
    <2>1. CASE server.rest # << >> \/ server.transaction
      BY <1>5, <1>6, <2>1
    <2>2. CASE server.rest = << >> /\ ~server.transaction
      <3>1. PICK n \in 0..7 : toClient' = Append(toClient, RR(n))
        BY <1>1, <2>2
      <3>2. RR(n) \in Replies /\ RR(n).type = "RR"
        BY FramesTyped DEF RR, Frame
      <3> QED BY <2>2, <3>1, <3>2
    <2> QED BY <2>1, <2>2
  <1>8. Opening'
    BY <1>1, <1>2, <1>3, <1>7, OpeningStays DEF Ends
  <1>9. /\ Len(toClient) \in Nat /\ Len(toClient') = Len(toClient) + 1
        /\ toClient'[Len(toClient) + 1] = b
        /\ \A i \in 1..Len(toClient) : toClient'[i] = toClient[i]
        /\ \A i \in 1..Len(toClient') : i \in 1..Len(toClient) \/ i = Len(toClient) + 1
    BY <1>7, ToClientAppend DEF Types
  <1>10. (Handled <=> Handled') /\ (Acked <=> Acked') /\ Got' = Got /\ Here' = Here
         /\ \A n : Cur(n)' = Cur(n)
    BY <1>1, <1>2 DEF Handled, Acked, Asked, Got, Here, Cur
  <1>11. ASSUME NothingYet PROVE NothingYet'
    <2>1. server.rest = << >> /\ server.transaction /\ NoPart(NextPart(server.sent))
      BY <1>3, <1>11 DEF NothingYet
    <2>2. /\ server'.sent = NextPart(server.sent) /\ server'.rest = << >>
          /\ b.type = "I" /\ Nothing(b)
      <3>1. b = a /\ server'.sent = NextPart(server.sent) /\ server'.rest = << >>
        BY <1>1, <1>7, <2>1
      <3> QED BY <1>5, <2>1, <3>1 DEF Nothing
    <2>3. NoPart(NextPart(server.sent))'
      <3>1. server.sent \in Data
        BY DEF Types, Servers
      <3>2. server.sent.kind.parts \in Nat
        BY <3>1, KindTyped DEF Data, NoKind
      <3>3. PICK s \in Data : s = server.sent
        BY <3>1
      <3>4. PICK m \in Nat : m = s.part
        BY DEF Data
      <3>5. s.kind.parts \in Nat /\ m + 1 > s.kind.parts
        BY <2>1, <3>2, <3>3, <3>4 DEF NoPart, NextPart, Data
      <3>6. NextPart(s).part = m + 1 /\ NextPart(s).kind = s.kind
        BY <3>4 DEF NextPart, Data
      <3>7. NextPart(NextPart(s)).part = m + 1 + 1 /\ NextPart(NextPart(s)).kind = s.kind
        BY <3>4 DEF NextPart, Data
      <3>8. NoPart(NextPart(NextPart(s)))
        BY <3>5, <3>7 DEF NoPart
      <3>9. server'.sent = NextPart(s)
        BY <2>2, <3>3
      <3>10. NoPart(NextPart(server'.sent))
        BY <3>8, <3>9
      <3> QED BY <3>10
    <2>4. \A i \in 1..Len(toClient') : toClient'[i].type = "I" => Nothing(toClient'[i])
      BY <1>9, <1>11, <2>2 DEF NothingYet
    <2>5. NoRR(toClient) => NoRR(toClient)'
      BY <1>9, <2>2 DEF NoRR
    <2>6. \/ NoRR(toClient)'
          \/ /\ client'.at = "wait" /\ Acked'
             /\ \A i, j \in 1..Len(toClient') :
                  toClient'[i].type = "RR" /\ toClient'[j].type = "RR" => i = j
      BY <1>2, <1>9, <1>10, <1>11, <2>2, <2>5 DEF NothingYet
    <2> QED BY <1>1, <2>1, <2>2, <2>3, <2>4, <2>6 DEF NothingYet
  <1>12. ASSUME Continued, client.at = "wait" PROVE Continued'
    <2>1. client'.got = Cur(Got)' /\ Got' < kind'.parts /\ client'.missed <= 7
      BY <1>2, <1>10, <1>12 DEF Continued
    <2>2. ASSUME server.transaction PROVE InTurn'
      <3>1. InTurn /\ server.session = client.session /\ kind \in Kinds
        BY <1>12, <2>2 DEF Continued, Ends, Sessions, Open, Same, Types
      <3>2. b = a /\ server'.sender.ns = Inc(server.sender.ns)
        BY <1>1, <1>7, <2>2
      <3>3. server.rest # << >> => /\ server'.rest = Tail(server.rest)
                                  /\ server'.sent = Head(server.rest)
                                  /\ (b.more <=> Len(server.rest) > 1)
        BY <1>1, <1>5, <3>2
      <3>4. server.rest = << >> => /\ server'.rest = << >>
                                  /\ server'.sent = NextPart(server.sent)
                                  /\ ~b.more
        BY <1>1, <1>5, <2>2, <3>2
      <3>5. SendsNext(b)
        BY <1>1, <1>2, <1>5, <1>7, <3>2, <3>3, <3>4 DEF SendsNext
      <3> QED BY <3>1, <3>5, NextSent
    <2>3. ASSUME ~server.transaction PROVE OutOfTurn'
      <3>1. OutOfTurn
        BY <1>12, <2>3 DEF Continued
      <3>2. server'.sender.ns % 2 = server.sender.ns % 2
        <4>1. server.sender.ns \in 0..7
          BY DEF Types, Servers, Senders
        <4>2. Inc(Inc(server.sender.ns)) % 2 = server.sender.ns % 2
          BY <4>1 DEF Inc
        <4> QED BY <1>1, <2>3, <4>2
      <3>3. b.type = "I" => b.ns = server'.sender.ns
        BY <1>5, <1>7
      <3> QED BY <1>9, <1>10, <3>1, <3>2, <3>3 DEF OutOfTurn
    <2> QED BY <1>1, <2>1, <2>2, <2>3 DEF Continued
  <1>13. Answers'
    <2>1. ~First
      BY <1>3 DEF First
    <2> QED BY <1>2, <1>10, <1>11, <1>12, <2>1 DEF Ends, Answers
  <1> QED BY <1>2, <1>3, <1>4, <1>8, <1>13 DEF Ends

(* The frame the client hears *)
LEMMA HearsHead ==
    ASSUME Types, NEW f, Hears(f)
    PROVE  /\ toClient # << >> /\ toClient' = Tail(toClient) /\ toClient' \in Seq(Replies)
           /\ f = toClient[1] /\ 1 \in 1..Len(toClient) /\ f \in Frames /\ f.data \in Data
           /\ Len(toClient) \in Nat /\ Len(toClient) >= 1 /\ Len(toClient') = Len(toClient) - 1
           /\ \A i \in 1..Len(toClient') :
                 toClient'[i] = toClient[i + 1] /\ i + 1 \in 1..Len(toClient)
  <1>1. /\ toClient # << >> /\ toClient' = Tail(toClient) /\ toClient' \in Seq(Replies)
        /\ f = toClient[1] /\ f \in Frames /\ f.data \in Data
    BY HearsTyped DEF Types
  <1> QED BY <1>1, ToClientTail DEF Types

(* The client hears UA: the server is in its session and has nothing *)
LEMMA HearUAEnds ==
    ASSUME Types, Ends, ~misled', NEW f, HearUA(f)
    PROVE  Ends'
  <1>1. /\ client' \in Clients /\ client.at = "snrm"
        /\ client'.at = "idle" /\ client'.session = client.session
        /\ client'.frame = client.frame /\ client'.outbox = client.outbox
        /\ client'.got = client.got /\ client'.count = client.count
        /\ client'.missed = client.missed
        /\ f.data.session = client.session
    BY HearUAEffect
  <1>2. Hears(f) /\ f.type = "UA" /\ UNCHANGED <<server, done, kind, toServer>>
    BY DEF HearUA
  <1>3. /\ f = toClient[1] /\ 1 \in 1..Len(toClient) /\ Len(toClient') \in Nat
        /\ Len(toClient) \in Nat /\ Len(toClient') = Len(toClient) - 1
        /\ \A i \in 1..Len(toClient') :
              toClient'[i] = toClient[i + 1] /\ i + 1 \in 1..Len(toClient)
    BY <1>2, HearsHead
  <1>4. UAOf(toClient[1])
    BY <1>1, <1>2, <1>3 DEF UAOf
  <1>5. Same
    BY <1>1, <1>3, <1>4 DEF Ends, Opening
  <1>6. \A i \in 1..Len(toClient') : toClient'[i].type \in {"UA", "FRMR"}
    <2>1. ASSUME NEW i \in 1..Len(toClient') PROVE toClient'[i].type \in {"UA", "FRMR"}
      <3>1. i + 1 \in 1..Len(toClient) /\ toClient'[i] = toClient[i + 1] /\ 1 < i + 1
        BY <1>3
      <3> QED BY <1>1, <1>3, <1>4, <3>1 DEF Ends, Opening
    <2> QED BY <2>1
  <1>7. Fresh /\ client.count = 0 /\ client.outbox = << >> /\ client.got = << >>
    BY <1>1, <1>5 DEF Ends, Sessions
  <1>8. \A i \in 1..Len(toServer) : toServer[i].type = "SNRM"
    BY <1>1, <1>5 DEF Ends, ToServer, Sent
  <1>9. Same'
    BY <1>1, <1>2, <1>5 DEF Same
  <1>10. Sessions'
    BY <1>1, <1>2, <1>9 DEF Ends, Sessions
  <1>11. ToServer'
    <2>1. \A g : Sent(g) => Sent(g)'
      BY <1>1, <1>2 DEF Sent, Later, Again, New, NewPart, Fresh
    <2>2. \A g, h : SentBefore(g, h) => SentBefore(g, h)'
      BY <1>2 DEF SentBefore, Later, Again, New
    <2> QED BY <1>2, <2>1, <2>2 DEF Ends, ToServer
  <1>12. \A i \in 1..Len(toServer') : ~New(toServer[i])' /\ toServer'[i].type # "RR"
    BY <1>2, <1>8 DEF New
  <1>13. Progress'
    <2>1. Resting'
      BY <1>1, <1>2, <1>7, <1>12 DEF Resting, Fresh
    <2> QED BY <1>1, <1>12, <2>1 DEF Progress, Working
  <1>14. Answers'
    <2>1. NothingYet'
      <3>1. NoRR(toServer)' /\ NoRR(toClient)'
        BY <1>6, <1>12 DEF NoRR
      <3> QED BY <1>2, <1>6, <1>7, <3>1 DEF NothingYet, Fresh
    <2> QED BY <1>1, <2>1 DEF Ends, Answers
  <1>15. Opening'
    BY <1>1, <1>3 DEF Ends, Opening
  <1> QED BY <1>10, <1>11, <1>13, <1>14, <1>15 DEF Ends

(* What comes to the client is what was on the way, or less *)
Shorter == \A i \in 1..Len(toClient') : \E j \in 1..Len(toClient) : toClient'[i] = toClient[j]

(* A new session leaves nothing of the earlier one to the client *)
LEMMA ConnectEnds ==
    ASSUME Types, Ends, Connect, Shorter, UNCHANGED <<server, done, kind>>,
           client.at # "idle", ~Open => toServer = << >>
    PROVE  Ends'
  <1>1. \/ /\ client'.at = "snrm" /\ client'.session = client.session + 1
           /\ client'.frame.type = "SNRM"
           /\ client'.frame.data.session = client'.session
           /\ client'.outbox = << >> /\ client'.got = << >> /\ client'.count = 0
           /\ client'.missed = 0
           /\ toServer' = Append(toServer, client'.frame)
        \/ /\ toServer' = toServer
           /\ client'.at = "off"
           /\ client'.session = client.session /\ client'.frame = client.frame
           /\ client'.outbox = client.outbox /\ client'.got = client.got
           /\ client'.count = client.count /\ client'.missed = client.missed
    BY ConnectEffect
  <1>2. client' \in Clients /\ client'.frame \in Questions
    <2>1. client' \in Clients
      BY ConnectEffect
    <2> QED BY <2>1 DEF Clients
  <1>3. \A i \in 1..Len(toServer) : ~Later(toServer[i])
    <2>1. CASE Open
      <3>1. Same
        BY <2>1 DEF Ends, Sessions
      <3> QED BY <3>1 DEF Ends, ToServer, Sent, Later, Same
    <2>2. CASE ~Open
      <3>1. toServer = << >>
        BY <2>2
      <3>2. Len(toServer) = 0
        BY <3>1
      <3> QED BY <3>2
    <2> QED BY <2>1, <2>2
  <1>4. \A i \in 1..Len(toClient') : toClient'[i].type = "UA" =>
            toClient'[i].data.session <= client.session
    BY DEF Shorter, Ends, Opening
  <1>5. CASE /\ client'.at = "snrm" /\ client'.session = client.session + 1
             /\ client'.frame.type = "SNRM"
             /\ client'.frame.data.session = client'.session
             /\ client'.outbox = << >> /\ client'.got = << >> /\ client'.count = 0
             /\ client'.missed = 0
             /\ toServer' = Append(toServer, client'.frame)
    <2>1. /\ client.session \in 0..MaxSessions /\ server.session \in 0..MaxSessions
          /\ server.session <= client.session
      BY DEF Ends, Sessions, Types, Clients, Servers
    <2>2. ~Same' /\ server'.session <= client'.session /\ ~Open'
      BY <1>5, <2>1 DEF Same, Open
    <2>3. Sessions'
      BY <1>5, <2>2 DEF Sessions
    <2>4. PICK e \in Questions : e = client'.frame
      BY <1>2
    <2>5. /\ Len(toServer) \in Nat /\ Len(toServer') = Len(toServer) + 1
          /\ toServer'[Len(toServer) + 1] = e
          /\ \A i \in 1..Len(toServer) : toServer'[i] = toServer[i]
          /\ \A i \in 1..Len(toServer') : i \in 1..Len(toServer) \/ i = Len(toServer) + 1
      BY <1>5, <2>4, ToServerAppend DEF Types
    <2>6. ToServer'
      <3>1. \A g : Sent(g) /\ ~Later(g) => Sent(g)'
        BY <2>2 DEF Sent, Later, Again, New, NewPart, Fresh
      <3>2. \A g, h : SentBefore(g, h) => SentBefore(g, h)'
        BY DEF SentBefore, Later, Again, New
      <3>3. Later(e)' /\ ~Again(e)' /\ ~New(e)'
        BY <1>5, <2>2, <2>4 DEF Later, Again, New, Same
      <3>4. Sent(e)'
        BY <1>5, <2>2, <2>4, <3>3 DEF Sent, Later
      <3>5. \A g : ~Later(g) => SentBefore(g, e)'
        BY <3>3 DEF SentBefore, Later
      <3>6. \A i \in 1..Len(toServer') : Sent(toServer[i])'
        BY <1>3, <2>5, <3>1, <3>4 DEF Ends, ToServer
      <3>7. ASSUME NEW i \in 1..Len(toServer'), NEW j \in 1..Len(toServer'), i < j
            PROVE  SentBefore(toServer[i], toServer[j])'
        <4>1. i \in 1..Len(toServer) /\ toServer'[i] = toServer[i]
          BY <2>5, <3>7
        <4>2. CASE j \in 1..Len(toServer)
          BY <2>5, <3>2, <3>7, <4>1, <4>2 DEF Ends, ToServer
        <4>3. CASE j = Len(toServer) + 1
          BY <1>3, <2>5, <3>5, <4>1, <4>3
        <4> QED BY <2>5, <4>2, <4>3
      <3> QED BY <3>6, <3>7 DEF ToServer
    <2>7. Progress' /\ Answers'
      BY <1>5, <2>2 DEF Progress, Answers, Working
    <2>8. Opening'
      <3>1. \A i \in 1..Len(toClient') : toClient'[i].type = "UA" =>
                toClient'[i].data.session <= client'.session /\ toClient'[i].data.session # client'.session
        <4>1. ASSUME NEW i \in 1..Len(toClient'), toClient'[i].type = "UA"
              PROVE  toClient'[i].data.session <= client'.session /\ toClient'[i].data.session # client'.session
          <5>1. toClient'[i].data.session <= client.session
            BY <1>4, <4>1
          <5>2. toClient'[i].data.session \in 0..MaxSessions
            <6>1. PICK j \in 1..Len(toClient) : toClient'[i] = toClient[j]
              BY DEF Shorter
            <6>2. toClient[j] \in Replies
              BY DEF Types, Lines
            <6> QED BY <6>1, <6>2 DEF Replies, Frames, Data
          <5> QED BY <1>5, <2>1, <5>1, <5>2
        <4> QED BY <4>1
      <3>2. \A i \in 1..Len(toClient') : ~UAOf(toClient[i])'
        BY <3>1 DEF UAOf
      <3> QED BY <3>1, <3>2 DEF Opening
    <2> QED BY <2>3, <2>6, <2>7, <2>8 DEF Ends
  <1>6. CASE /\ toServer' = toServer
             /\ client'.at = "off"
             /\ client'.session = client.session /\ client'.frame = client.frame
             /\ client'.outbox = client.outbox /\ client'.got = client.got
             /\ client'.count = client.count /\ client'.missed = client.missed
    <2>1. (Open <=> Open') /\ (Same <=> Same') /\ (Working <=> Working')
      BY <1>6 DEF Open, Same, Working
    <2>2. Sessions'
      BY <1>6, <2>1 DEF Ends, Sessions
    <2>3. ToServer'
      <3>1. \A g : Sent(g) => Sent(g)'
        BY <1>6 DEF Sent, Later, Again, New, NewPart, Fresh
      <3>2. \A g, h : SentBefore(g, h) => SentBefore(g, h)'
        BY DEF SentBefore, Later, Again, New
      <3> QED BY <1>6, <3>1, <3>2 DEF Ends, ToServer
    <2>4. Progress'
      <3>1. (Served => Served') /\ (Asking => Asking') /\ \A g : New(g) <=> New(g)'
        BY <1>6 DEF Served, Asking, Handled, Acked, Asked, IsPart, Cur, At, New
      <3> QED BY <1>6, <2>1, <3>1 DEF Ends, Progress
    <2>5. Answers'
      BY <1>6 DEF Ends, Answers
    <2>6. Opening'
      BY <1>4, <1>6 DEF Opening
    <2> QED BY <2>2, <2>3, <2>4, <2>5, <2>6 DEF Ends
  <1> QED BY <1>1, <1>5, <1>6

(* The client opens its first session *)
LEMMA BeginEnds == ASSUME Types, Ends, Begin PROVE Ends'
  <1>1. Connect /\ client.at = "off" /\ UNCHANGED <<server, done, kind, toClient>>
    BY DEF Begin
  <1>2. Shorter
    BY <1>1 DEF Shorter
  <1>3. ~Open => toServer = << >>
    BY <1>1 DEF Ends, Sessions
  <1> QED BY <1>1, <1>2, <1>3, ConnectEnds

(* The client gives its session up *)
LEMMA GiveUpEnds == ASSUME Types, Ends, GiveUp PROVE Ends'
  <1>1. Connect /\ client.at \in {"snrm", "wait"} /\ toServer = << >>
        /\ UNCHANGED <<server, done, kind, toClient>>
    BY DEF GiveUp, Waits
  <1>2. Shorter
    BY <1>1 DEF Shorter
  <1> QED BY <1>1, <1>2, ConnectEnds

(* The client hears that its frame was rejected *)
LEMMA HearRejectEnds == ASSUME Types, Ends, NEW f, HearReject(f) PROVE Ends'
  <1>1. Connect /\ client.at = "wait" /\ Hears(f) /\ UNCHANGED <<server, done, kind>>
    BY DEF HearReject
  <1>2. Shorter
    BY <1>1, HearsHead DEF Shorter
  <1>3. Open
    BY <1>1 DEF Ends, Sessions, Open
  <1> QED BY <1>1, <1>2, <1>3, ConnectEnds

(* The fields of an I-frame *)
LEMMA IFrameIs ==
    ASSUME NEW nr, NEW ns, NEW n, NEW k, NEW data
    PROVE  /\ Frame("I", nr, ns, n < k, data).type = "I"
           /\ Frame("I", nr, ns, n < k, data).data = data
           /\ (Frame("I", nr, ns, n < k, data).more <=> n < k)
  BY DEF Frame

(* The client sends an I-frame the server may not have had *)
LEMMA SendsNew ==
    ASSUME Types, ToServer, Same, NEW e \in Questions, toServer' = Append(toServer, e),
           UNCHANGED server, client'.session = client.session, client'.at # "snrm",
           ~(client.at = "snrm"),
           \A i \in 1..Len(toServer) : ~New(toServer[i]),
           e.type \in {"I", "RR"}, e.type = "I" => e.data.session = server.session,
           New(e) => NewPart(e)
    PROVE  ToServer' /\ \A i \in 1..Len(toServer') : New(toServer[i])' => toServer'[i] = e
  <1>1. /\ Len(toServer) \in Nat /\ Len(toServer') = Len(toServer) + 1
        /\ toServer'[Len(toServer) + 1] = e
        /\ \A i \in 1..Len(toServer) : toServer'[i] = toServer[i]
        /\ \A i \in 1..Len(toServer') : i \in 1..Len(toServer) \/ i = Len(toServer) + 1
    BY ToServerAppend DEF Types
  <1>2. \A g : Sent(g) => Sent(g)'
    BY DEF Sent, Later, Again, New, NewPart, Fresh
  <1>3. \A g, h : SentBefore(g, h) => SentBefore(g, h)'
    BY DEF SentBefore, Later, Again, New
  <1>4. \A g : New(g) <=> New(g)'
    BY DEF New
  <1>5. Sent(e)'
    BY DEF Sent, Later, Again, New, NewPart
  <1>6. \A i \in 1..Len(toServer) : ~Later(toServer[i]) /\ ~New(toServer[i])
    BY DEF ToServer, Sent, Later, Same
  <1>7. \A g : ~Later(g) /\ ~New(g) => SentBefore(g, e)'
    BY DEF SentBefore, Later, Again, New
  <1>8. \A i \in 1..Len(toServer') : Sent(toServer[i])'
    BY <1>1, <1>2, <1>5 DEF ToServer
  <1>9. ASSUME NEW i \in 1..Len(toServer'), NEW j \in 1..Len(toServer'), i < j
        PROVE  SentBefore(toServer[i], toServer[j])'
    <2>1. i \in 1..Len(toServer) /\ toServer'[i] = toServer[i]
      BY <1>1, <1>9
    <2>2. CASE j \in 1..Len(toServer)
      BY <1>1, <1>3, <1>9, <2>1, <2>2 DEF ToServer
    <2>3. CASE j = Len(toServer) + 1
      BY <1>1, <1>6, <1>7, <2>1, <2>3
    <2> QED BY <1>1, <2>2, <2>3
  <1>10. \A i \in 1..Len(toServer') : New(toServer[i])' => toServer'[i] = e
    BY <1>1, <1>4, <1>6
  <1> QED BY <1>8, <1>9, <1>10 DEF ToServer

(* The client asks: the first frame is new to the server *)
LEMMA AskEnds == ASSUME Types, Ends, NEW k \in Kinds, Ask(k) PROVE Ends'
  <1>1. /\ client' \in Clients /\ client.at = "idle" /\ kind' = k
        /\ client'.at = "wait" /\ client'.session = client.session
        /\ client'.count = client.count /\ client'.missed = client.missed
        /\ client'.got = << >> /\ toServer' = Append(toServer, client'.frame)
    BY AskEffect
  <1>2. PICK nr \in 0..7, ns \in 0..7 :
          /\ client'.frame = Frame("I", nr, ns, 1 < k.frames, Part(client.session, done + 1, k, 1))
          /\ client'.outbox = OtherFrames(nr, ns, client.session, done + 1, k)
    BY AskEffect
  <1>3. UNCHANGED <<server, done, toClient>>
    BY DEF Ask
  <1>4. k.frames \in Nat /\ k.frames >= 1 /\ k # NoKind
    BY KindTyped, KindAssumption DEF NoKind
  <1>5. Resting /\ NothingYet /\ Open /\ Same
    BY <1>1 DEF Ends, Progress, Answers, Sessions, Open
  <1>6. PICK e \in Questions : e = client'.frame
    BY <1>1 DEF Clients
  <1>7. /\ e.type = "I" /\ e.data = Part(client.session, done + 1, k, 1)
        /\ (e.more <=> 1 < k.frames)
    BY <1>2, <1>6, IFrameIs
  <1>8. /\ e.data.session = client.session /\ e.data.kind = k /\ e.data.part = 1
        /\ e.data.id = done + 1
    BY <1>7 DEF Part
  <1>9. Parts(client.session, done + 1, k, 0) = << >>
    <2>1. client.session \in 0..MaxSessions /\ done + 1 \in Nat
      BY BoundAssumption DEF Types, Clients
    <2>2. 0 \in Nat
      OBVIOUS
    <2>3. Parts(client.session, done + 1, k, 0) \in Seq(Data) /\ Len(Parts(client.session, done + 1, k, 0)) = 0
      BY <2>1, <2>2, PartsAre
    <2> QED BY <2>3
  <1>10. server.request = << >> /\ Len(server.request) = 0
    BY <1>5 DEF Resting
  <1>11. New(e) => NewPart(e)
    BY <1>4, <1>7, <1>8, <1>9, <1>10 DEF NewPart
  <1>12. ToServer' /\ \A i \in 1..Len(toServer') : New(toServer[i])' => toServer'[i] = e
    <2>1. \A i \in 1..Len(toServer) : ~New(toServer[i])
      BY <1>5 DEF Resting
    <2>2. e.data.session = server.session
      BY <1>5, <1>8 DEF Same
    <2> QED BY <1>1, <1>3, <1>5, <1>6, <1>7, <1>11, <2>1, <2>2, SendsNew DEF Ends
  <1>13. Sessions'
    BY <1>1, <1>3, <1>5, <1>6, <1>7 DEF Ends, Sessions, Open, Same
  <1>14. Asking'
    <2>1. server'.count = client'.count /\ client'.got = << >>
      BY <1>1, <1>3, <1>5 DEF Resting
    <2>2. Asked' = 1 /\ Asked' \in 1..kind'.frames
      BY <1>1, <1>4, <1>6, <1>8 DEF Asked
    <2>3. \A n : At(n)' = Part(client.session, done + 1, k, n)
      BY <1>1, <1>3 DEF At
    <2>4. IsPart(client.frame, Asked)'
      BY <1>1, <1>6, <1>7, <2>2, <2>3 DEF IsPart
    <2>5. /\ client'.outbox \in Seq(Questions) /\ Len(client'.outbox) = k.frames - 1
      <3>1. client'.outbox \in Seq(Questions)
        BY <1>1 DEF Clients
      <3>2. DOMAIN client'.outbox = 1..(k.frames - 1)
        BY <1>2 DEF OtherFrames
      <3> QED BY <1>4, <3>1, <3>2
    <2>6. ASSUME NEW i \in 1..Len(client'.outbox) PROVE IsPart(client.outbox[i], Asked + i)'
      <3>1. client'.outbox[i] = Frame("I", nr, (ns + i) % 8, 1 + i < k.frames,
                                      Part(client.session, done + 1, k, 1 + i))
        BY <1>2, <2>5 DEF OtherFrames
      <3>2. /\ client'.outbox[i].type = "I"
            /\ client'.outbox[i].data = Part(client.session, done + 1, k, 1 + i)
            /\ (client'.outbox[i].more <=> 1 + i < k.frames)
        BY <3>1, IFrameIs
      <3> QED BY <1>1, <2>2, <2>3, <3>2 DEF IsPart
    <2>7. server'.request = Cur(Len(server.request))'
      BY <1>1, <1>3, <1>9, <1>10 DEF Cur
    <2>8. Len(server'.request) = Asked' - 1
      BY <1>3, <1>10, <2>2
    <2> QED BY <1>1, <2>1, <2>2, <2>4, <2>5, <2>6, <2>7, <2>8 DEF Asking
  <1>15. Progress'
    BY <1>1, <1>4, <1>6, <1>12, <1>14 DEF Progress
  <1>16. Answers'
    <2>1. ~Handled'
      <3>1. server'.count = client'.count /\ client'.count \in Nat
        BY <1>1, <1>14 DEF Asking, Clients
      <3> QED BY <3>1 DEF Handled
    <2>2. NoRR(toClient)
      BY <1>1, <1>5 DEF NothingYet
    <2>3. NoRR(toServer) => NoRR(toServer)'
      <3>1. /\ Len(toServer) \in Nat /\ Len(toServer') = Len(toServer) + 1
            /\ toServer'[Len(toServer) + 1] = e
            /\ \A i \in 1..Len(toServer) : toServer'[i] = toServer[i]
            /\ \A i \in 1..Len(toServer') : i \in 1..Len(toServer) \/ i = Len(toServer) + 1
        BY <1>1, <1>6, ToServerAppend DEF Types
      <3> QED BY <1>7, <3>1 DEF NoRR
    <2>4. NothingYet'
      <3>1. NoRR(toClient)'
        BY <1>3, <2>2
      <3> QED BY <1>3, <1>5, <2>3, <3>1 DEF NothingYet
    <2>5. client'.missed = 0
      BY <1>1, <1>5 DEF Ends, Answers, Resting
    <2> QED BY <1>1, <2>1, <2>4, <2>5 DEF Answers
  <1>17. Opening'
    BY <1>1, <1>3 DEF Ends, Opening
  <1> QED BY <1>12, <1>13, <1>15, <1>16, <1>17 DEF Ends

(* The client sends the next frame: the server has the one before *)
LEMMA HearReadyEnds == ASSUME Types, Ends, NEW f, HearReady(f) PROVE Ends'
  <1>1. /\ client' \in Clients
        /\ client.at = "wait" /\ client.outbox # << >> /\ f.type = "RR"
        /\ client'.at = "wait" /\ client'.session = client.session
        /\ client'.frame = Head(client.outbox) /\ client'.outbox = Tail(client.outbox)
        /\ client'.got = client.got /\ client'.count = client.count
        /\ client'.missed = client.missed
        /\ toServer' = Append(toServer, client'.frame)
    BY HearReadyEffect
  <1>2. Hears(f) /\ UNCHANGED <<server, done, kind>>
    BY DEF HearReady
  <1>3. /\ f = toClient[1] /\ 1 \in 1..Len(toClient) /\ Len(toClient') \in Nat
        /\ Len(toClient) \in Nat /\ Len(toClient') = Len(toClient) - 1
        /\ \A i \in 1..Len(toClient') :
              toClient'[i] = toClient[i + 1] /\ i + 1 \in 1..Len(toClient)
    BY <1>2, HearsHead
  <1>4. Open /\ Same /\ Working
    BY <1>1 DEF Ends, Sessions, Open, Working
  <1>5. Asking
    BY <1>1, <1>4 DEF Ends, Progress, Served
  <1>6. ~Handled
    BY <1>5 DEF Asking, Handled, Types, Servers, Clients
  <1>7. NothingYet
    BY <1>1, <1>6 DEF Ends, Answers
  <1>8. /\ Acked
        /\ \A i, j \in 1..Len(toClient) : toClient[i].type = "RR" /\ toClient[j].type = "RR" => i = j
    BY <1>1, <1>3, <1>7 DEF NothingYet, NoRR
  <1>9. PICK m \in Nat : m = Asked
    BY <1>5, <1>6 DEF Asking
  <1>10. /\ kind \in Kinds /\ kind.frames \in Nat /\ m < kind.frames /\ Len(server.request) = m
         /\ ~New(client.frame) /\ client.outbox \in Seq(Questions)
    <2>1. kind \in Kinds /\ client.outbox \in Seq(Questions)
      BY <1>1 DEF Types, Clients
    <2>2. kind.frames \in Nat
      BY <2>1, KindTyped
    <2> QED BY <1>5, <1>8, <1>9, <2>1, <2>2 DEF Asking, Acked
  <1>11. PICK e \in Questions : e = client'.frame /\ e = client.outbox[1]
    BY <1>1, <1>10, TailOf
  <1>12. 1 \in 1..Len(client.outbox)
    BY <1>1, <1>10
  <1>13. IsPart(e, m + 1)
    BY <1>5, <1>9, <1>11, <1>12 DEF Asking
  <1>14. /\ e.type = "I" /\ e.data = At(m + 1) /\ (e.more <=> m + 1 < kind.frames)
         /\ e.data.session = client.session /\ e.data.kind = kind /\ e.data.part = m + 1
         /\ e.data.id = done + 1
    BY <1>13 DEF IsPart, At, Part
  <1>15. NewPart(e)
    BY <1>5, <1>9, <1>10, <1>14 DEF NewPart, Asking, Cur
  <1>16. \A i \in 1..Len(toServer) : ~New(toServer[i])
    BY <1>4, <1>10 DEF Ends, Progress
  <1>17. ToServer' /\ \A i \in 1..Len(toServer') : New(toServer[i])' => toServer'[i] = e
    <2>1. e.data.session = server.session
      BY <1>4, <1>14 DEF Same
    <2> QED BY <1>1, <1>2, <1>4, <1>11, <1>14, <1>15, <1>16, <2>1, SendsNew DEF Ends
  <1>18. Sessions'
    BY <1>1, <1>2, <1>4, <1>11, <1>14 DEF Ends, Sessions, Open, Same
  <1>19. Asking'
    <2>1. server'.count = client'.count /\ client'.got = << >>
      BY <1>1, <1>2, <1>5 DEF Asking
    <2>2. Asked' = m + 1 /\ Asked' \in 1..kind'.frames
      BY <1>2, <1>10, <1>11, <1>14 DEF Asked
    <2>3. \A n : At(n)' = At(n)
      BY <1>1, <1>2 DEF At
    <2>4. IsPart(client.frame, Asked)'
      BY <1>2, <1>11, <1>14, <2>2, <2>3 DEF IsPart
    <2>5. /\ Len(client'.outbox) = Len(client.outbox) - 1 /\ Len(client.outbox) = kind.frames - m
          /\ \A i \in 1..(Len(client.outbox) - 1) : client'.outbox[i] = client.outbox[i + 1]
      <3>1. PICK q \in Seq(Questions) : q = client.outbox
        BY <1>10
      <3>2. q # << >> /\ client'.outbox = Tail(q)
        BY <1>1, <3>1
      <3>3. Len(Tail(q)) = Len(q) - 1 /\ \A i \in 1..(Len(q) - 1) : Tail(q)[i] = q[i + 1]
        BY <3>2, TailOf
      <3>4. Len(client.outbox) = kind.frames - m
        BY <1>5, <1>9 DEF Asking
      <3> QED BY <3>1, <3>2, <3>3, <3>4
    <2>6. Len(client'.outbox) = kind'.frames - Asked'
      BY <1>2, <1>10, <2>2, <2>5
    <2>7. ASSUME NEW i \in 1..Len(client'.outbox) PROVE IsPart(client.outbox[i], Asked + i)'
      <3>1. i \in Nat /\ i + 1 \in 1..Len(client.outbox) /\ client'.outbox[i] = client.outbox[i + 1]
        BY <1>10, <2>5
      <3>2. IsPart(client.outbox[i + 1], m + (i + 1))
        BY <1>5, <1>9, <3>1 DEF Asking
      <3>3. m + (i + 1) = (m + 1) + i
        BY <3>1
      <3> QED BY <1>2, <2>2, <2>3, <3>1, <3>2, <3>3 DEF IsPart
    <2>8. server'.request = Cur(Len(server.request))'
      BY <1>1, <1>2, <1>5 DEF Asking, Cur
    <2>9. Len(server'.request) = Asked' - 1
      BY <1>2, <1>10, <2>2
    <2> QED BY <2>1, <2>2, <2>4, <2>6, <2>7, <2>8, <2>9 DEF Asking
  <1>20. Progress'
    <2>1. kind' # NoKind
      BY <1>2, <1>10 DEF NoKind
    <2> QED BY <1>1, <1>11, <1>17, <1>19, <2>1 DEF Progress
  <1>21. Answers'
    <2>1. ~Handled'
      BY <1>1, <1>2, <1>6 DEF Handled
    <2>2. NoRR(toClient)'
      <3>1. ASSUME NEW i \in 1..Len(toClient'), toClient'[i].type = "RR" PROVE FALSE
        <4>1. i \in Nat /\ i + 1 \in 1..Len(toClient) /\ toClient[i + 1].type = "RR" /\ i >= 1
          BY <1>3, <3>1
        <4>2. i + 1 = 1
          BY <1>1, <1>3, <1>8, <4>1
        <4> QED BY <4>1, <4>2
      <3> QED BY <3>1 DEF NoRR
    <2>3. NoRR(toServer) => NoRR(toServer)'
      <3>1. /\ Len(toServer) \in Nat /\ Len(toServer') = Len(toServer) + 1
            /\ toServer'[Len(toServer) + 1] = e
            /\ \A i \in 1..Len(toServer) : toServer'[i] = toServer[i]
            /\ \A i \in 1..Len(toServer') : i \in 1..Len(toServer) \/ i = Len(toServer) + 1
        BY <1>1, <1>11, ToServerAppend DEF Types
      <3> QED BY <1>14, <3>1 DEF NoRR
    <2>4. \A i \in 1..Len(toClient') : toClient'[i].type = "I" => Nothing(toClient'[i])
      BY <1>3, <1>7 DEF NothingYet
    <2>5. NothingYet'
      BY <1>2, <1>7, <2>2, <2>3, <2>4 DEF NothingYet
    <2> QED BY <1>1, <2>1, <2>5 DEF Ends, Answers
  <1>22. Opening'
    BY <1>1, <1>3 DEF Ends, Opening
  <1> QED BY <1>17, <1>18, <1>20, <1>21, <1>22 DEF Ends

(* Of eight numbers in a row only the first is the next one *)
LEMMA NextOnly == \A h \in 0..7, d \in 1..8 : (h + d) % 8 = (h + 1) % 8 => d = 1
  OBVIOUS

(* The next number is odd if this one is even *)
LEMMA OddEven == \A h \in 0..7 : Inc(h) % 2 # h % 2
  <1>1. ASSUME NEW h \in 0..7 PROVE ((h + 1) % 8) % 2 # h % 2
    <2>1. h = 0 \/ h = 1 \/ h = 2 \/ h = 3 \/ h = 4 \/ h = 5 \/ h = 6 \/ h = 7
      OBVIOUS
    <2> QED BY <2>1
  <1> QED BY <1>1 DEF Inc

(* The same number, counted from the next *)
LEMMA ShiftBack == \A h, d \in Nat : (((h + 1) % 8) + d) % 8 = (h + (d + 1)) % 8
  OBVIOUS

(* When the client has taken f, the n-th part is the i-th frame of the line *)
Follows(f, i, n) ==
    /\ toClient'[i].data = At(n) /\ (toClient'[i].more <=> n < kind.parts)
    /\ Got + 1 < n /\ n <= Last /\ n <= Got + 1 + i
    /\ Last <= n + (Len(toClient') - i)
    /\ toClient'[i].ns = (f.ns + (n - (Got + 1))) % 8

(* The frame with the next number is the next part of the answer *)
LEMMA NextIn ==
    ASSUME Types, Ends, NEW f, Hears(f), f.type = "I", client.at = "wait", client.outbox = << >>,
           f.ns = Inc(client.receiver.ns), f.more \/ ~(NoPart(f.data) /\ client.got = << >>)
    PROVE  /\ Served /\ Open /\ Same /\ kind \in Kinds /\ kind # NoKind
           /\ kind.parts \in Nat /\ Got \in Nat /\ Last \in Nat
           /\ client.session \in 0..MaxSessions /\ done + 1 \in Nat
           /\ client.got = Cur(Got) /\ IsAnswer(f, Got + 1) /\ Got < kind.parts
           /\ server.sent = At(Last) /\ RestIs(Last) /\ Got + 1 <= Last /\ NoRR(toClient)
           /\ client.got = << >> =>
                 /\ NoRR(toServer) /\ server.sender.ns = f.ns
                 /\ \A i \in 1..Len(toClient') : toClient'[i].type # "I"
           /\ client.got # << >> => server.transaction
           /\ Last <= Got + 1 + Len(toClient')
           /\ server.sender.ns = (f.ns + (Last - (Got + 1))) % 8
           /\ \A i \in 1..Len(toClient') : toClient'[i].type = "I" =>
                 toClient'[i].data.part \in Nat /\ Follows(f, i, toClient'[i].data.part)
           /\ \A i, j \in 1..Len(toClient') :
                 i < j /\ toClient'[i].type = "I" /\ toClient'[j].type = "I" =>
                    /\ toClient'[i].data.part < toClient'[j].data.part
                    /\ toClient'[j].data.part <= toClient'[i].data.part + (j - i)
  <1>1. /\ f = toClient[1] /\ 1 \in 1..Len(toClient) /\ Len(toClient') \in Nat
        /\ Len(toClient) \in Nat /\ Len(toClient') = Len(toClient) - 1
        /\ \A i \in 1..Len(toClient') :
              toClient'[i] = toClient[i + 1] /\ i + 1 \in 1..Len(toClient)
    BY HearsHead
  <1>2. /\ Open /\ Same /\ Working /\ kind \in Kinds /\ kind # NoKind
        /\ kind.parts \in Nat /\ kind.parts >= 1
        /\ client.session \in 0..MaxSessions /\ done + 1 \in Nat
    <2>1. kind \in Kinds /\ client.session \in 0..MaxSessions /\ done \in Nat
      BY BoundAssumption DEF Types, Clients
    <2>2. kind.parts \in Nat \ {0} /\ kind # NoKind
      BY <2>1, KindTyped, KindAssumption DEF NoKind
    <2> QED BY <2>1, <2>2 DEF Ends, Sessions, Open, Working
  <1>3. Got \in Nat /\ Last \in Nat /\ Here \in 0..7 /\ client.missed \in Nat
        /\ (client.got = << >> <=> Got = 0) /\ server.sender.ns \in 0..7
    <2>1. /\ client.missed \in Nat /\ client.got \in Seq(Data) /\ server.sent \in Data
          /\ client.receiver \in Numbers /\ server.sender \in Senders
      BY DEF Types, Servers, Clients
    <2> QED BY <2>1 DEF Data, Last, Got, Here, Numbers, Senders
  <1>4. Handled
    <2>1. ASSUME ~Handled PROVE FALSE
      <3>1. NothingYet /\ Asking
        BY <1>2, <2>1 DEF Ends, Answers, Progress, Served
      <3>2. Nothing(f) /\ client.got = << >>
        BY <1>1, <3>1 DEF NothingYet, Asking
      <3> QED BY <3>2 DEF Nothing
    <2> QED BY <2>1
  <1>5. Served
    <2>1. ~Asking
      BY <1>4 DEF Asking, Handled, Types, Clients
    <2> QED BY <1>2, <2>1 DEF Ends, Progress
  <1>6. CASE client.got = << >>
    <2>1. First
      BY <1>4, <1>6 DEF Ends, Answers
    <2>2. ~Nothing(f)
      BY <1>6 DEF Nothing
    <2>3. /\ server.sent = At(1) /\ RestIs(1) /\ NoRR(toServer) /\ NoRR(toClient)
          /\ IsAnswer(f, 1) /\ f.ns = server.sender.ns
          /\ \A j \in 1..Len(toClient) : 1 < j => toClient[j].type # "I"
      BY <1>1, <2>1, <2>2 DEF First
    <2>4. Last = 1 /\ Got = 0
      BY <1>3, <1>6, <2>3 DEF At, Part, Last
    <2>5. client.got = Cur(0)
      <3>1. 0 \in Nat
        OBVIOUS
      <3>2. /\ Parts(client.session, done + 1, kind, 0) \in Seq(Data)
            /\ Len(Parts(client.session, done + 1, kind, 0)) = 0
        BY <1>2, <3>1, PartsAre
      <3>3. Parts(client.session, done + 1, kind, 0) = << >>
        BY <3>2
      <3> QED BY <1>6, <3>3 DEF Cur
    <2>6. \A i \in 1..Len(toClient') : toClient'[i].type # "I"
      <3>1. ASSUME NEW i \in 1..Len(toClient') PROVE toClient'[i].type # "I"
        <4>1. i + 1 \in 1..Len(toClient) /\ 1 < i + 1 /\ toClient'[i] = toClient[i + 1]
          BY <1>1
        <4> QED BY <2>3, <4>1
      <3> QED BY <3>1
    <2>7. server.sender.ns = (f.ns + (Last - (Got + 1))) % 8
      BY <1>3, <2>3, <2>4
    <2>8. Got + 1 = 1 /\ Got + 1 <= Last /\ Got < kind.parts /\ Last <= Got + 1 + Len(toClient')
      BY <1>1, <1>2, <2>4
    <2>9. /\ client.got = Cur(Got) /\ IsAnswer(f, Got + 1) /\ server.sent = At(Last) /\ RestIs(Last)
      BY <2>3, <2>4, <2>5, <2>8
    <2> QED BY <1>2, <1>3, <1>5, <1>6, <2>3, <2>6, <2>7, <2>8, <2>9
  <1>7. CASE client.got # << >>
    <2>1. Continued
      BY <1>4, <1>7 DEF Ends, Answers
    <2>2. server.transaction
      <3>1. ASSUME OutOfTurn PROVE FALSE
        <4>1. f.ns % 2 = Here % 2
          BY <1>1, <3>1 DEF OutOfTurn
        <4>2. f.ns = Inc(Here)
          BY DEF Here
        <4> QED BY <1>3, <4>1, <4>2, OddEven
      <3> QED BY <2>1, <3>1 DEF Continued
    <2>3. InTurn /\ client.got = Cur(Got) /\ Got < kind.parts /\ client.missed <= 7
      BY <2>1, <2>2 DEF Continued
    <2>4. \A i \in 1..Len(toClient) : toClient[i].type = "I" => toClient[i].data.part \in Nat
      BY DEF Types, Lines, Replies, Frames, Data
    <2>5. PICK n \in Nat : n = f.data.part
      BY <1>1, <2>4
    <2>6. Comes(1, n)
      BY <1>1, <2>3, <2>5 DEF InTurn
    <2>7. n = Got + 1
      <3>1. /\ Got < n /\ n <= Got + client.missed + 1
            /\ toClient[1].ns = (Here + (n - Got)) % 8
        BY <2>6 DEF Comes
      <3>2. PICK d \in Nat : d = n - Got
        BY <1>3, <3>1
      <3>3. d \in 1..8
        BY <1>3, <2>3, <3>1, <3>2
      <3>4. (Here + d) % 8 = (Here + 1) % 8
        BY <1>1, <3>1, <3>2 DEF Inc, Here
      <3>5. d = 1
        BY <1>3, <3>3, <3>4, NextOnly
      <3> QED BY <1>3, <3>2, <3>5
    <2>8. /\ IsAnswer(f, Got + 1) /\ Got + 1 <= Last /\ Last <= (Got + 1) + (Len(toClient) - 1)
      BY <1>1, <2>6, <2>7 DEF Comes
    <2>9. server.sent = At(Last) /\ RestIs(Last) /\ NoRR(toClient)
          /\ server.sender.ns = (Here + (Last - Got)) % 8
      BY <2>3 DEF InTurn
    <2>10. \A m \in Nat : m >= Got + 1 =>
              (Here + (m - Got)) % 8 = (f.ns + (m - (Got + 1))) % 8
      <3>1. ASSUME NEW m \in Nat, m >= Got + 1
            PROVE  (Here + (m - Got)) % 8 = (f.ns + (m - (Got + 1))) % 8
        <4>1. PICK d \in Nat : d = m - (Got + 1)
          BY <1>3, <3>1
        <4>2. m - Got = d + 1 /\ Here \in Nat
          BY <1>3, <4>1
        <4>3. (((Here + 1) % 8) + d) % 8 = (Here + (d + 1)) % 8
          BY <4>2, ShiftBack
        <4>4. f.ns = (Here + 1) % 8
          BY DEF Inc, Here
        <4> QED BY <4>1, <4>2, <4>3, <4>4
      <3> QED BY <3>1
    <2>11. server.sender.ns = (f.ns + (Last - (Got + 1))) % 8
      BY <1>3, <2>8, <2>9, <2>10
    <2>12. ASSUME NEW i \in 1..Len(toClient'), toClient'[i].type = "I"
           PROVE  toClient'[i].data.part \in Nat /\ Follows(f, i, toClient'[i].data.part)
      <3>1. i \in Nat /\ i >= 1 /\ i + 1 \in 1..Len(toClient) /\ toClient'[i] = toClient[i + 1]
        BY <1>1
      <3>2. PICK m \in Nat : m = toClient[i + 1].data.part
        BY <2>4, <2>12, <3>1
      <3>3. Comes(i + 1, m)
        BY <2>3, <2>12, <3>1, <3>2 DEF InTurn
      <3>4. n < m /\ m <= n + ((i + 1) - 1)
        BY <1>1, <2>3, <2>5, <2>12, <3>1, <3>2 DEF InTurn
      <3>5. /\ IsAnswer(toClient[i + 1], m) /\ m <= Last /\ Last <= m + (Len(toClient) - (i + 1))
            /\ toClient[i + 1].ns = (Here + (m - Got)) % 8
        BY <3>3 DEF Comes
      <3>6. Got + 1 < m /\ m <= Got + 1 + i /\ m >= Got + 1
        BY <1>3, <2>7, <3>1, <3>4
      <3>7. Last <= m + (Len(toClient') - i)
        <4>1. PICK l \in Nat : l = Len(toClient)
          BY <1>1
        <4>2. Len(toClient') = l - 1 /\ Last <= m + (l - (i + 1))
          BY <1>1, <3>5, <4>1
        <4> QED BY <1>3, <3>1, <4>2
      <3>8. toClient'[i].ns = (f.ns + (m - (Got + 1))) % 8
        BY <2>10, <3>1, <3>5, <3>6
      <3>9. toClient'[i].data.part = m
        BY <3>1, <3>2
      <3> QED BY <3>1, <3>5, <3>6, <3>7, <3>8, <3>9 DEF Follows, IsAnswer
    <2>13. ASSUME NEW i \in 1..Len(toClient'), NEW j \in 1..Len(toClient'),
                  i < j, toClient'[i].type = "I", toClient'[j].type = "I"
           PROVE  /\ toClient'[i].data.part < toClient'[j].data.part
                  /\ toClient'[j].data.part <= toClient'[i].data.part + (j - i)
      <3>1. /\ i + 1 \in 1..Len(toClient) /\ toClient'[i] = toClient[i + 1]
            /\ j + 1 \in 1..Len(toClient) /\ toClient'[j] = toClient[j + 1]
            /\ i + 1 < j + 1 /\ (j + 1) - (i + 1) = j - i
        <4>1. i + 1 \in 1..Len(toClient) /\ toClient'[i] = toClient[i + 1]
          BY <1>1
        <4>2. j + 1 \in 1..Len(toClient) /\ toClient'[j] = toClient[j + 1]
          BY <1>1
        <4>3. i + 1 < j + 1 /\ (j + 1) - (i + 1) = j - i
          BY <1>1, <2>13
        <4> QED BY <4>1, <4>2, <4>3
      <3>2. /\ toClient[i + 1].data.part < toClient[j + 1].data.part
            /\ toClient[j + 1].data.part <= toClient[i + 1].data.part + ((j + 1) - (i + 1))
        BY <2>3, <2>13, <3>1 DEF InTurn
      <3> QED BY <3>1, <3>2
    <2>14. Last <= Got + 1 + Len(toClient')
      BY <1>1, <1>3, <2>8
    <2> QED BY <1>2, <1>3, <1>5, <1>7, <2>2, <2>3, <2>8, <2>9, <2>11, <2>12, <2>13, <2>14
  <1> QED BY <1>6, <1>7

(* The client takes a part: it is the next part of the answer *)
LEMMA HearPartEnds == ASSUME Types, Ends, ~misled', NEW f, HearPart(f) PROVE Ends'
  <1>1. /\ client' \in Clients
        /\ client.at = "wait" /\ client.outbox = << >> /\ f.type = "I" /\ f.more
        /\ client'.at = "wait" /\ client'.session = client.session
        /\ client'.outbox = client.outbox /\ client'.got = Append(client.got, f.data)
        /\ client'.count = client.count /\ client'.missed = 0
        /\ client'.receiver.ns = f.ns
        /\ toServer' = Append(toServer, client'.frame)
        /\ f.ns = Inc(client.receiver.ns)
    BY HearPartEffect
  <1>2. PICK r \in 0..7 : client'.frame = RR(r)
    BY HearPartEffect
  <1>3. Hears(f) /\ UNCHANGED <<server, done, kind>>
    BY DEF HearPart
  <1>4. /\ f = toClient[1] /\ 1 \in 1..Len(toClient) /\ Len(toClient') \in Nat /\ f.data \in Data
        /\ Len(toClient) \in Nat /\ Len(toClient') = Len(toClient) - 1
        /\ \A i \in 1..Len(toClient') :
              toClient'[i] = toClient[i + 1] /\ i + 1 \in 1..Len(toClient)
    BY <1>3, HearsHead
  <1>5. /\ Served /\ Open /\ Same /\ kind \in Kinds /\ kind # NoKind
        /\ kind.parts \in Nat /\ Got \in Nat /\ Last \in Nat
        /\ client.session \in 0..MaxSessions /\ done + 1 \in Nat
        /\ client.got = Cur(Got) /\ IsAnswer(f, Got + 1) /\ Got < kind.parts
        /\ server.sent = At(Last) /\ RestIs(Last) /\ Got + 1 <= Last /\ NoRR(toClient)
        /\ client.got = << >> =>
              /\ NoRR(toServer) /\ server.sender.ns = f.ns
              /\ \A i \in 1..Len(toClient') : toClient'[i].type # "I"
        /\ client.got # << >> => server.transaction
        /\ Last <= Got + 1 + Len(toClient')
        /\ server.sender.ns = (f.ns + (Last - (Got + 1))) % 8
        /\ \A i \in 1..Len(toClient') : toClient'[i].type = "I" =>
              toClient'[i].data.part \in Nat /\ Follows(f, i, toClient'[i].data.part)
        /\ \A i, j \in 1..Len(toClient') :
              i < j /\ toClient'[i].type = "I" /\ toClient'[j].type = "I" =>
                 /\ toClient'[i].data.part < toClient'[j].data.part
                 /\ toClient'[j].data.part <= toClient'[i].data.part + (j - i)
    BY <1>1, <1>3, NextIn
  <1>6. PICK n \in Nat : n = Got + 1
    BY <1>5
  <1>7. client'.got = Cur(n) /\ Got' = n /\ n < kind.parts /\ client'.got # << >>
    <2>1. f.data = At(n) /\ n < kind.parts
      BY <1>1, <1>5, <1>6 DEF IsAnswer
    <2>2. PICK m \in Nat : m = Got
      BY <1>5
    <2>3. Append(Parts(client.session, done + 1, kind, m), Part(client.session, done + 1, kind, m + 1))
              = Parts(client.session, done + 1, kind, m + 1)
      <3>1. PICK s \in 0..MaxSessions, id \in Nat, k \in Kinds :
              s = client.session /\ id = done + 1 /\ k = kind
        BY <1>5
      <3>2. m \in Nat
        OBVIOUS
      <3>3. Append(Parts(s, id, k, m), Part(s, id, k, m + 1)) = Parts(s, id, k, m + 1)
        BY <3>2, PartsAppend
      <3> QED BY <3>1, <3>3
    <2>4. client'.got = Cur(n)
      BY <1>1, <1>5, <1>6, <2>1, <2>2, <2>3 DEF Cur, At
    <2>5. client.got \in Seq(Data)
      BY DEF Types, Clients
    <2>6. Len(client'.got) = Len(client.got) + 1
      BY <1>1, <1>4, <2>5, AppendTo
    <2>7. Got' = n /\ client'.got # << >>
      <3>1. Len(client'.got) = n
        BY <1>6, <2>6 DEF Got
      <3>2. n # 0
        BY <1>5, <1>6
      <3> QED BY <3>1, <3>2 DEF Got
    <2> QED BY <2>1, <2>4, <2>7
  <1>8. /\ Here' = f.ns /\ Last' = Last
        /\ \A m : At(m)' = At(m) /\ Cur(m)' = Cur(m)
    BY <1>1, <1>3 DEF Here, Last, At, Cur
  <1>9. PICK e \in Questions : e = client'.frame /\ e.type = "RR"
    <2>1. RR(r).type = "RR"
      BY DEF RR, Frame
    <2> QED BY <1>1, <1>2, <2>1 DEF Clients
  <1>10. \A i \in 1..Len(toServer) : ~New(toServer[i])
    BY <1>5 DEF Ends, Progress, Served, New
  <1>11. ToServer' /\ \A i \in 1..Len(toServer') : New(toServer[i])' => toServer'[i] = e
    <2>1. ~New(e)
      BY <1>9 DEF New
    <2> QED BY <1>1, <1>3, <1>5, <1>9, <1>10, <2>1, SendsNew DEF Ends
  <1>12. Sessions'
    BY <1>1, <1>3, <1>5, <1>9 DEF Ends, Sessions, Open, Same
  <1>13. Served'
    BY <1>1, <1>3, <1>5, <1>7, <1>9 DEF Served, Handled
  <1>14. Progress'
    BY <1>1, <1>3, <1>5, <1>9, <1>11, <1>13 DEF Progress
  <1>15. InTurn'
    <2>1. server'.sent = At(Last)' /\ Got' <= Last'
      BY <1>3, <1>5, <1>6, <1>7, <1>8
    <2>2. RestIs(Last)'
      BY <1>3, <1>5, <1>8 DEF RestIs
    <2>3. NoRR(toClient)'
      BY <1>4, <1>5 DEF NoRR
    <2>4. Last' <= Got' + client'.missed + Len(toClient')
      BY <1>1, <1>4, <1>5, <1>6, <1>7, <1>8
    <2>5. server'.sender.ns = (Here' + (Last' - Got')) % 8
      BY <1>3, <1>5, <1>6, <1>7, <1>8
    <2>6. ASSUME NEW i \in 1..Len(toClient'), toClient'[i].type = "I"
          PROVE  Comes(i, toClient[i].data.part)'
      <3>1. PICK m \in Nat : m = toClient'[i].data.part
        BY <1>5, <2>6
      <3>2. /\ toClient'[i].data = At(m) /\ (toClient'[i].more <=> m < kind.parts)
            /\ n < m /\ m <= Last /\ m <= n + i /\ Last <= m + (Len(toClient') - i)
            /\ toClient'[i].ns = (f.ns + (m - n)) % 8
        BY <1>5, <1>6, <2>6, <3>1 DEF Follows
      <3>3. IsAnswer(toClient[i], toClient[i].data.part)'
        <4>1. toClient'[i].data = At(m)' /\ (toClient'[i].more <=> m < kind'.parts)
          BY <1>3, <1>8, <3>2
        <4> QED BY <3>1, <4>1 DEF IsAnswer
      <3>4. /\ Got' < m /\ m <= Last' /\ m <= Got' + client'.missed + i
            /\ Last' <= m + (Len(toClient') - i)
            /\ toClient'[i].ns = (Here' + (m - Got')) % 8
        <4>1. n + 0 + i = n + i
          OBVIOUS
        <4> QED BY <1>1, <1>7, <1>8, <3>2, <4>1
      <3> QED BY <3>1, <3>3, <3>4 DEF Comes
    <2>7. ASSUME NEW i \in 1..Len(toClient'), NEW j \in 1..Len(toClient'),
                 i < j, toClient'[i].type = "I", toClient'[j].type = "I"
          PROVE  /\ toClient'[i].data.part < toClient'[j].data.part
                 /\ toClient'[j].data.part <= toClient'[i].data.part + (j - i)
      BY <1>5, <2>7
    <2> QED BY <2>1, <2>2, <2>3, <2>4, <2>5, <2>6, <2>7 DEF InTurn
  <1>16. ~server.transaction => OutOfTurn'
    <2>1. ASSUME ~server.transaction PROVE OutOfTurn'
      <3>1. server'.sender.ns = Here' /\ \A i \in 1..Len(toClient') : toClient'[i].type # "I"
        BY <1>3, <1>5, <1>8, <2>1
      <3> QED BY <3>1 DEF OutOfTurn
    <2> QED BY <2>1
  <1>17. Continued'
    <2>1. client'.got = Cur(Got)' /\ Got' < kind'.parts /\ client'.missed <= 7
      <3>1. \A m : Cur(m)' = Parts(client.session, done + 1, kind, m)
        BY <1>1, <1>3 DEF Cur
      <3>2. client'.got = Cur(Got)'
        BY <1>1, <1>3, <1>7 DEF Cur
      <3> QED BY <1>1, <1>3, <1>7, <3>2
    <2> QED BY <1>3, <1>15, <1>16, <2>1 DEF Continued
  <1>18. Answers'
    <2>1. Handled'
      BY <1>13 DEF Served
    <2> QED BY <1>1, <1>7, <1>17, <2>1 DEF Answers
  <1>19. Opening'
    <2>1. \A i \in 1..Len(toClient) : toClient[i].type = "UA" =>
             toClient[i].data.session <= client.session
      BY DEF Ends, Opening
    <2>2. \A i \in 1..Len(toClient') : toClient'[i].type = "UA" =>
             toClient'[i].data.session <= client'.session
      <3>1. SUFFICES ASSUME NEW i \in 1..Len(toClient'), toClient'[i].type = "UA"
                     PROVE  toClient'[i].data.session <= client'.session
        OBVIOUS
      <3>2. toClient'[i] = toClient[i + 1] /\ i + 1 \in 1..Len(toClient)
        BY <1>4
      <3>3. toClient[i + 1].data.session <= client.session
        BY <2>1, <3>1, <3>2
      <3> QED BY <1>1, <3>2, <3>3
    <2> QED BY <1>1, <2>2 DEF Opening
  <1> QED BY <1>11, <1>12, <1>14, <1>18, <1>19 DEF Ends

(* The client takes the last part: it has the answer to its request, whole *)
LEMMA HearAnswerEnds ==
    ASSUME Types, Ends, ~misled', NEW f, HearAnswer(f)
    PROVE  Ends' /\ whole' = whole
  <1>1. /\ client' \in Clients /\ client.at = "wait" /\ client.outbox = << >>
        /\ f.type = "I" /\ ~f.more /\ ~(NoPart(f.data) /\ client.got = << >>)
        /\ client'.at = "idle" /\ client'.session = client.session
        /\ client'.frame = client.frame
        /\ client'.outbox = client.outbox /\ client'.got = << >>
        /\ client'.count = client.count + 1 /\ client'.missed = 0
        /\ f.ns = Inc(client.receiver.ns)
    BY HearAnswerEffect
  <1>2. /\ Hears(f) /\ UNCHANGED <<server, toServer>> /\ done' = done + 1 /\ kind' = NoKind
        /\ whole' = (whole /\ Append(client.got, f.data)
                                  = Parts(client.session, done + 1, kind, kind.parts))
    BY DEF HearAnswer
  <1>3. /\ f = toClient[1] /\ 1 \in 1..Len(toClient) /\ Len(toClient') \in Nat /\ f.data \in Data
        /\ Len(toClient) \in Nat /\ Len(toClient') = Len(toClient) - 1
        /\ \A i \in 1..Len(toClient') :
              toClient'[i] = toClient[i + 1] /\ i + 1 \in 1..Len(toClient)
    BY <1>2, HearsHead
  <1>4. /\ Served /\ Open /\ Same /\ kind \in Kinds /\ kind # NoKind
        /\ kind.parts \in Nat /\ Got \in Nat /\ Last \in Nat
        /\ client.session \in 0..MaxSessions /\ done + 1 \in Nat
        /\ client.got = Cur(Got) /\ IsAnswer(f, Got + 1) /\ Got < kind.parts
        /\ server.sent = At(Last) /\ RestIs(Last) /\ Got + 1 <= Last /\ NoRR(toClient)
        /\ client.got = << >> =>
              /\ NoRR(toServer) /\ server.sender.ns = f.ns
              /\ \A i \in 1..Len(toClient') : toClient'[i].type # "I"
        /\ client.got # << >> => server.transaction
        /\ \A i \in 1..Len(toClient') : toClient'[i].type = "I" =>
              toClient'[i].data.part \in Nat /\ Follows(f, i, toClient'[i].data.part)
    BY <1>1, <1>2, NextIn
  <1>5. PICK n \in Nat : n = Got
    BY <1>4
  <1>6. n + 1 = kind.parts /\ f.data = At(n + 1)
    BY <1>1, <1>4, <1>5 DEF IsAnswer
  <1>7. whole' = whole
    <2>1. Append(Parts(client.session, done + 1, kind, n), Part(client.session, done + 1, kind, n + 1))
              = Parts(client.session, done + 1, kind, n + 1)
      <3>1. PICK s \in 0..MaxSessions, id \in Nat, k \in Kinds :
              s = client.session /\ id = done + 1 /\ k = kind
        BY <1>4
      <3>2. Append(Parts(s, id, k, n), Part(s, id, k, n + 1)) = Parts(s, id, k, n + 1)
        BY PartsAppend
      <3> QED BY <3>1, <3>2
    <2>2. client.got = Parts(client.session, done + 1, kind, n)
      BY <1>4, <1>5 DEF Cur
    <2>3. f.data = Part(client.session, done + 1, kind, n + 1)
      BY <1>6 DEF At
    <2>4. Append(client.got, f.data) = Parts(client.session, done + 1, kind, kind.parts)
      BY <1>6, <2>1, <2>2, <2>3
    <2> QED BY <1>2, <2>4 DEF Types
  <1>8. \A i \in 1..Len(toServer) : ~New(toServer[i])
    BY <1>4 DEF Ends, Progress, Served, New
  <1>9. Sessions'
    BY <1>1, <1>2, <1>4 DEF Ends, Sessions, Open, Same
  <1>10. ToServer'
    <2>1. \A g : Sent(g) => Sent(g)'
      BY <1>1, <1>2 DEF Sent, Later, Again, New, NewPart, Fresh
    <2>2. \A g, h : SentBefore(g, h) => SentBefore(g, h)'
      BY <1>2 DEF SentBefore, Later, Again, New
    <2> QED BY <1>2, <2>1, <2>2 DEF Ends, ToServer
  <1>11. Progress'
    <2>1. \A g : New(g) <=> New(g)'
      BY <1>2 DEF New
    <2>2. Resting'
      BY <1>1, <1>2, <1>4, <1>8, <2>1 DEF Resting, Served, Handled
    <2> QED BY <1>1, <1>2, <1>8, <2>1, <2>2 DEF Progress, Working
  <1>12. NothingYet'
    <2>1. server.rest = << >> /\ Last >= kind.parts
      BY <1>4, <1>5, <1>6 DEF RestIs
    <2>2. ASSUME NEW i \in 1..Len(toClient'), toClient'[i].type = "I"
          PROVE  Nothing(toClient'[i])
      <3>1. PICK m \in Nat : m = toClient'[i].data.part
        BY <1>4, <2>2
      <3>2. /\ toClient'[i].data = At(m) /\ (toClient'[i].more <=> m < kind.parts) /\ n + 1 < m
        BY <1>4, <1>5, <2>2, <3>1 DEF Follows
      <3>3. toClient'[i].data.kind = kind /\ toClient'[i].data.part = m
        BY <3>2 DEF At, Part
      <3> QED BY <1>4, <1>6, <3>2, <3>3 DEF Nothing, NoPart
    <2>3. ~server.transaction => NoRR(toServer)'
      BY <1>2, <1>4
    <2>4. NoPart(NextPart(server.sent))
      <3>1. PICK l \in Nat : l = Last
        BY <1>4
      <3>2. server.sent = Part(client.session, done + 1, kind, l)
        BY <1>4, <3>1 DEF At
      <3>3. NextPart(server.sent).part = l + 1 /\ NextPart(server.sent).kind = kind
        BY <3>2 DEF NextPart, Part
      <3> QED BY <1>4, <2>1, <3>1, <3>3 DEF NoPart
    <2>5. NoRR(toClient)'
      BY <1>3, <1>4 DEF NoRR
    <2>6. NoPart(NextPart(server.sent))'
      <3>1. server' = server
        BY <1>2
      <3> QED BY <2>4, <3>1
    <2> QED BY <1>2, <2>1, <2>2, <2>3, <2>5, <2>6 DEF NothingYet
  <1>13. Answers'
    BY <1>1, <1>12 DEF Answers
  <1>14. Opening'
    BY <1>1, <1>3 DEF Ends, Opening
  <1> QED BY <1>7, <1>9, <1>10, <1>11, <1>13, <1>14 DEF Ends

(* The initial states satisfy the invariant *)
LEMMA EndsInit == ASSUME Init PROVE InRange /\ Ends /\ whole
  <1>1. /\ server.session = 0 /\ server.receiver = ServerStart.receiver /\ server.heard = 7
        /\ client.at = "off" /\ client.session = 0 /\ client.frame = U("SNRM", Nobody)
        /\ client.missed = 0 /\ toServer = << >> /\ toClient = << >> /\ whole = TRUE
    BY DEF Init
  <1>2. InRange
    BY <1>1 DEF InRange, ServerStart, Inc
  <1>3. ~Open /\ Same
    BY <1>1 DEF Open, Same, U, Frame
  <1>4. Len(toServer) = 0 /\ Len(toClient) = 0
    BY <1>1
  <1>5. Sessions
    BY <1>1, <1>3 DEF Sessions
  <1>6. ToServer
    BY <1>4 DEF ToServer
  <1>7. Progress /\ Answers
    BY <1>1, <1>3 DEF Progress, Answers, Working
  <1>8. Opening
    BY <1>1, <1>4 DEF Opening
  <1> QED BY <1>1, <1>2, <1>5, <1>6, <1>7, <1>8 DEF Ends

(* The steps of the server keep the invariant *)
LEMMA ServeEnds ==
    ASSUME Types, Ends, InRange, Serve
    PROVE  Ends' /\ InRange' /\ whole' = whole /\ misled' = misled
  <1>1. PICK f : HandleSnrm(f) \/ RejectFrame(f) \/ TakePart(f) \/ HandleRequest(f) \/ GetNextFrame(f)
    BY DEF Serve
  <1>2. CASE HandleSnrm(f)
    <2>1. misled' = misled
      BY <1>2 DEF HandleSnrm, Others
    <2> QED BY <1>2, <2>1, HandleSnrmEnds
  <1>3. CASE RejectFrame(f)
    <2>1. server' = server /\ AtMostReject /\ ServerKeeps
      BY <1>3, RejectFrameEffect
    <2>2. Takes(f) /\ UNCHANGED <<client, done, kind, misled, whole>>
      BY <1>3 DEF RejectFrame, Others
    <2>3. Dropped
      BY <2>1, <2>2 DEF Dropped, Takes
    <2>4. Ends'
      BY <2>3, DropEnds
    <2> QED BY <2>1, <2>2, <2>4 DEF InRange
  <1>4. CASE TakePart(f)
    <2>1. misled' = misled
      BY <1>4 DEF TakePart, Others
    <2> QED BY <1>4, <2>1, TakePartEnds
  <1>5. CASE HandleRequest(f)
    <2>1. misled' = misled
      BY <1>5 DEF HandleRequest, Others
    <2> QED BY <1>5, <2>1, HandleRequestEnds
  <1>6. CASE GetNextFrame(f)
    <2>1. misled' = misled
      BY <1>6 DEF GetNextFrame, Others
    <2> QED BY <1>6, <2>1, GetNextFrameEnds
  <1> QED BY <1>1, <1>2, <1>3, <1>4, <1>5, <1>6

(* The steps of the client at a frame keep the invariant *)
LEMMA HearEnds ==
    ASSUME Types, Ends, ~misled', Hear
    PROVE  Ends' /\ server' = server /\ whole' = whole
  <1>1. PICK f : HearUA(f) \/ HearReject(f) \/ HearReady(f) \/ HearPart(f) \/ HearAnswer(f) \/ Ignore(f)
    BY DEF Hear
  <1>2. CASE HearUA(f)
    BY <1>2, HearUAEnds DEF HearUA
  <1>3. CASE HearReject(f)
    BY <1>3, HearRejectEnds DEF HearReject
  <1>4. CASE HearReady(f)
    BY <1>4, HearReadyEnds DEF HearReady
  <1>5. CASE HearPart(f)
    BY <1>5, HearPartEnds DEF HearPart
  <1>6. CASE HearAnswer(f)
    BY <1>6, HearAnswerEnds DEF HearAnswer
  <1>7. CASE Ignore(f)
    BY <1>7, IgnoreEffect, PassEnds DEF Ignore
  <1> QED BY <1>1, <1>2, <1>3, <1>4, <1>5, <1>6, <1>7

(* A damaged frame keeps the invariant, or misleads an end *)
LEMMA DamagedEnds ==
    ASSUME Types, Ends, InRange, ~misled', NEW control \in Controls, Damaged(control)
    PROVE  Ends' /\ InRange' /\ whole' = whole
  <1>1. CASE HearDamaged(control)
    <2>1. Passes /\ UNCHANGED <<server, done, kind, toServer, whole>>
      BY <1>1, HearDamagedEffect DEF HearDamaged
    <2> QED BY <2>1, PassEnds DEF InRange
  <1>2. ASSUME NEW f, NEW cleared \in BOOLEAN, TakeDamaged(f, control, cleared)
        PROVE  Ends' /\ InRange' /\ whole' = whole
    <2>1. AtMostReject /\ ServerKeeps /\ Inc(server'.receiver.ns) # server.heard
      BY <1>2, TakeDamagedEffect
    <2>2. Takes(f) /\ UNCHANGED <<client, done, kind, whole>>
      BY <1>2 DEF TakeDamaged
    <2>3. Dropped
      BY <2>1, <2>2 DEF Dropped, Takes
    <2>4. InRange'
      BY <2>1 DEF InRange, ServerKeeps
    <2> QED BY <2>2, <2>3, <2>4, DropEnds
  <1> QED BY <1>1, <1>2 DEF Damaged

(* A lost frame keeps the invariant, or the client has missed too many *)
LEMMA LoseEnds ==
    ASSUME Types, Ends, ~misled', Lose
    PROVE  Ends' /\ server' = server /\ whole' = whole
  <1>1. UNCHANGED <<server, done, kind, whole>>
    BY DEF Lose
  <1>2. CASE Passes /\ UNCHANGED toServer
    BY <1>1, <1>2, PassEnds
  <1>3. CASE toServer # << >> /\ toServer' = Tail(toServer) /\ UNCHANGED <<toClient, client, misled>>
    <2>1. Dropped
      BY <1>1, <1>3 DEF Dropped, AtMostReject, ServerKeeps
    <2> QED BY <1>1, <2>1, DropEnds
  <1> QED BY <1>2, <1>3, LoseEffect

(* Once misled, always misled *)
LEMMA MisledStays == ASSUME misled, [Next]_vars PROVE misled'
  <1>1. CASE Begin
    BY <1>1 DEF Begin
  <1>2. CASE Serve
    BY <1>2 DEF Serve, HandleSnrm, RejectFrame, TakePart, HandleRequest, GetNextFrame, Others
  <1>3. CASE Hear
    BY <1>3 DEF Hear, HearUA, HearReject, HearReady, HearPart, HearAnswer, Ignore, Guessed
  <1>4. CASE GiveUp
    BY <1>4 DEF GiveUp
  <1>5. CASE Lose
    BY <1>5 DEF Lose
  <1>6. CASE \E k \in Kinds : Ask(k)
    BY <1>6 DEF Ask
  <1>7. CASE \E isLate \in BOOLEAN : Repeat(isLate)
    BY <1>7 DEF Repeat
  <1>8. CASE \E control \in Controls : Damaged(control)
    BY <1>8 DEF Damaged, TakeDamaged, HearDamaged
  <1>9. CASE UNCHANGED vars
    BY <1>9 DEF vars
  <1> QED BY <1>1, <1>2, <1>3, <1>4, <1>5, <1>6, <1>7, <1>8, <1>9 DEF Next

(* InRange is about the server alone *)
LEMMA InRangeStays == ASSUME InRange, server' = server PROVE InRange'
  BY DEF InRange

(* Every step keeps LinkInv *)
LEMMA LinkInvNext == ASSUME LinkInv, [Next]_vars PROVE LinkInv'
  <1>1. Types /\ Types'
    BY TypesNext DEF LinkInv
  <1>2. ASSUME ~misled' PROVE InRange' /\ Ends' /\ whole'
    <2>1. ~misled /\ InRange /\ Ends /\ whole
      BY <1>2, MisledStays DEF LinkInv
    <2>2. CASE Begin
      BY <1>1, <2>1, <2>2, BeginEnds DEF Begin, InRange
    <2>3. CASE Serve
      BY <1>1, <2>1, <2>3, ServeEnds
    <2>4. CASE Hear
      BY <1>1, <1>2, <2>1, <2>4, HearEnds DEF InRange
    <2>5. CASE GiveUp
      <3>1. UNCHANGED <<server, done, kind, toClient, faults, misled, whole>>
        BY <2>5 DEF GiveUp
      <3>2. server' = server
        BY <3>1
      <3>3. InRange'
        BY <2>1, <3>2, InRangeStays
      <3>4. whole'
        BY <2>1, <3>1
      <3>5. Ends'
        BY <1>1, <2>1, <2>5, GiveUpEnds
      <3> QED BY <3>3, <3>4, <3>5
    <2>6. CASE Lose
      BY <1>1, <1>2, <2>1, <2>6, LoseEnds DEF InRange
    <2>7. ASSUME NEW k \in Kinds, Ask(k) PROVE InRange' /\ Ends' /\ whole'
      BY <1>1, <2>1, <2>7, AskEnds, Zenon DEF Ask, InRange
    <2>8. ASSUME NEW isLate \in BOOLEAN, Repeat(isLate) PROVE InRange' /\ Ends' /\ whole'
      BY <1>1, <2>1, <2>8, RepeatEnds DEF Repeat, InRange
    <2>9. ASSUME NEW control \in Controls, Damaged(control) PROVE InRange' /\ Ends' /\ whole'
      BY <1>1, <1>2, <2>1, <2>9, DamagedEnds
    <2>10. CASE UNCHANGED vars
      <3>1. UNCHANGED <<server, client, done, kind, toServer, toClient, whole>>
        BY <2>10 DEF vars, link
      <3>2. InRange' /\ Sessions' /\ whole'
        BY <2>1, <3>1 DEF Ends, InRange, Sessions, Open, Same, Fresh
      <3>3. ToServer'
        BY <2>1, <3>1 DEF Ends, ToServer, Sent, SentBefore, Later, Again, New, NewPart, Same, Fresh
      <3>4. /\ \A g : New(g) <=> New(g)'
            /\ (Open <=> Open') /\ (Working <=> Working') /\ (Served <=> Served') /\ (Asking <=> Asking')
            /\ (Resting <=> Resting') /\ (Handled <=> Handled')
        BY <3>1 DEF New, Open, Working, Served, Asking, Handled, Acked, Asked, IsPart, Cur, At, Resting
      <3>5. Progress'
        BY <2>1, <3>1, <3>4 DEF Ends, Progress
      <3>6. Quietly /\ ServerKeeps /\ ClientStays
        BY <1>1, <3>1 DEF Types, Lines, Quietly, ServerKeeps, ClientStays, ClientKeeps
      <3>7. NoRR(toServer) => NoRR(toServer)'
        BY <3>1
      <3>8. Answers'
        BY <1>1, <2>1, <3>1, <3>6, <3>7, AnswersStay DEF Ends
      <3>9. Opening'
        BY <2>1, <3>1 DEF Ends, Opening, UAOf, Same
      <3> QED BY <3>2, <3>3, <3>5, <3>8, <3>9 DEF Ends
    <2> QED BY <2>2, <2>3, <2>4, <2>5, <2>6, <2>7, <2>8, <2>9, <2>10 DEF Next
  <1> QED BY <1>1, <1>2 DEF LinkInv

(* LinkInv is an invariant of the link *)
LEMMA LinkInvAlways == Spec => []LinkInv
  <1>1. Init => LinkInv
    BY TypesInit, EndsInit DEF LinkInv
  <1>2. LinkInv /\ [Next]_vars => LinkInv'
    BY LinkInvNext
  <1> QED BY <1>1, <1>2, PTL DEF Spec

(* Unless a damaged control octet, or numbers that went round, misled an   *)
(* end, the server handles the request the client sent, and the client     *)
(* takes the answer to its request, every part once and in order, whatever *)
(* frames are lost, damaged, repeated or answered twice: what the send and *)
(* receive numbers of dlms_checkFrame are for.                             *)
THEOREM RequestsWhole == Spec => []Whole
  <1>1. LinkInv => Whole
    BY DEF LinkInv, Whole
  <1> QED BY <1>1, LinkInvAlways, PTL

-----------------------------------------------------------------------------
(* The refinement *)

(* The initial states are initial states of HdlcSession *)
LEMMA SessionInit == ASSUME Init PROVE TheSession!Init
  BY DEF Init, TheSession!Init, Joined

(* Nothing that the session counts changes, or the session is over *)
LEMMA SessionBreaks ==
    ASSUME ~Joined' PROVE TheSession!Next
  BY DEF TheSession!Next, TheSession!Break

(* Nothing that the session counts changes *)
LEMMA SessionStays ==
    ASSUME ~misled, ~misled', server'.session = server.session, server'.count = server.count,
           client'.session = client.session, client'.count = client.count
    PROVE  UNCHANGED TheSession!sessionVars
  BY DEF TheSession!sessionVars, Joined

(* SNRM does not change the counts of a session that is open *)
LEMMA SessionSnrm ==
    ASSUME Types, Ends, ~misled, ~misled', NEW f, HandleSnrm(f)
    PROVE  [TheSession!Next]_TheSession!sessionVars
  <1>1. server'.session = f.data.session /\ server'.count = 0
    BY HandleSnrmEffect
  <1>2. Takes(f) /\ f.type = "SNRM" /\ client' = client
    BY DEF HandleSnrm, Others
  <1>3. toServer # << >> /\ Sent(f)
    BY <1>2, TakesHead DEF Ends, WasFirst
  <1>4. CASE ~Joined'
    BY <1>4, SessionBreaks
  <1>5. CASE Joined' /\ Same
    <2>1. f.data.session = server.session
      BY <1>1, <1>2, <1>5 DEF Joined, Same
    <2>2. Fresh
      BY <1>2, <1>3, <2>1 DEF Sent, Again
    <2> QED BY <1>1, <1>2, <2>1, <2>2, SessionStays DEF Fresh
  <1>6. CASE Joined' /\ ~Same
    <2>1. client.at = "snrm"
      <3>1. ~Open
        BY <1>6 DEF Ends, Sessions
      <3>2. client.at \in {"off", "snrm", "idle", "wait"}
        BY DEF Types, Clients
      <3> QED BY <1>3, <3>1, <3>2 DEF Ends, Sessions, Open
    <2>2. server'.count = 0 /\ client'.count = 0
      BY <1>1, <1>2, <2>1 DEF Ends, Sessions
    <2> QED BY <2>2 DEF TheSession!Next, TheSession!Break
  <1> QED BY <1>4, <1>5, <1>6

(* A request handled is a Handle of HdlcSession: no other is unanswered *)
LEMMA SessionHandles ==
    ASSUME Types, Ends, InRange, ~misled, ~misled', NEW f, HandleRequest(f)
    PROVE  [TheSession!Next]_TheSession!sessionVars
  <1>1. /\ f.ns = Inc(server.receiver.ns) /\ server'.session = server.session
        /\ server'.count = server.count + 1 /\ server'.heard = f.ns
    BY HandleRequestEffect
  <1>2. Takes(f) /\ f.type = "I" /\ UNCHANGED <<client, done, kind>>
    BY DEF HandleRequest, Others
  <1>3. CASE ~Joined'
    BY <1>3, SessionBreaks
  <1>4. CASE Joined'
    <2>1. Same /\ Joined
      BY <1>1, <1>2, <1>4 DEF Joined, Same
    <2>2. toServer # << >>
      BY <1>2 DEF Takes
    <2>3. client.at # "idle" /\ ~(client.at = "snrm" /\ Same) /\ (Open => Asking)
      BY <1>1, <1>2, TakesNew
    <2>4. Open
      <3>1. client.at \in {"off", "snrm", "idle", "wait"}
        BY DEF Types, Clients
      <3> QED BY <2>1, <2>2, <2>3, <3>1 DEF Ends, Sessions, Open
    <2>5. server.count = client.count
      BY <2>3, <2>4 DEF Asking
    <2> QED BY <1>1, <1>2, <1>4, <2>1, <2>5 DEF TheSession!Next, TheSession!Handle
  <1> QED BY <1>3, <1>4

(* An answer taken is a Deliver of HdlcSession: its request was handled *)
LEMMA SessionDelivers ==
    ASSUME Types, Ends, ~misled, ~misled', NEW f, HearAnswer(f)
    PROVE  [TheSession!Next]_TheSession!sessionVars
  <1>1. /\ client.at = "wait" /\ client.outbox = << >>
        /\ f.type = "I" /\ ~f.more /\ ~(NoPart(f.data) /\ client.got = << >>)
        /\ client'.session = client.session
        /\ client'.count = client.count + 1 /\ f.ns = Inc(client.receiver.ns)
    BY HearAnswerEffect
  <1>2. Hears(f) /\ server' = server
    BY DEF HearAnswer
  <1>3. Served /\ Same
    BY <1>1, <1>2, NextIn
  <1>4. Joined /\ Joined' /\ server.count = client.count + 1
    BY <1>1, <1>2, <1>3 DEF Joined, Same, Served, Handled
  <1> QED BY <1>1, <1>2, <1>4 DEF TheSession!Next, TheSession!Deliver

(* A new session is a Break of HdlcSession *)
LEMMA SessionConnects ==
    ASSUME Types, Ends, ~misled, ~misled', Connect, server' = server
    PROVE  [TheSession!Next]_TheSession!sessionVars
  <1>1. CASE client'.session = client.session /\ client'.count = client.count
    BY <1>1, SessionStays
  <1>2. CASE client'.session = client.session + 1
    <2>1. server.session <= client.session /\ client.session \in Nat /\ server.session \in Nat
      BY BoundAssumption DEF Ends, Sessions, Types, Clients, Servers
    <2>2. ~Joined'
      BY <1>2, <2>1 DEF Joined
    <2> QED BY <2>2, SessionBreaks
  <1> QED BY <1>1, <1>2, ConnectEffect

(* Every step is a step of HdlcSession or a stutter *)
LEMMA SessionSteps ==
    ASSUME LinkInv, [Next]_vars PROVE [TheSession!Next]_TheSession!sessionVars
  <1>1. CASE misled'
    BY <1>1, SessionBreaks DEF Joined
  <1>2. CASE ~misled'
    <2>1. ~misled /\ Types /\ InRange /\ Ends
      BY <1>2, MisledStays DEF LinkInv
    <2>2. CASE Begin
      BY <1>2, <2>1, <2>2, SessionConnects DEF Begin
    <2>3. CASE Serve
      <3>1. PICK f : HandleSnrm(f) \/ RejectFrame(f) \/ TakePart(f) \/ HandleRequest(f) \/ GetNextFrame(f)
        BY <2>3 DEF Serve
      <3>2. CASE HandleSnrm(f)
        BY <1>2, <2>1, <3>2, SessionSnrm
      <3>3. CASE RejectFrame(f)
        BY <1>2, <2>1, <3>3, SessionStays DEF RejectFrame, Others
      <3>4. CASE TakePart(f)
        <4>1. server'.session = server.session /\ server'.count = server.count
          BY <2>1, <3>4, TakePartEffect
        <4> QED BY <1>2, <2>1, <3>4, <4>1, SessionStays DEF TakePart, Others
      <3>5. CASE HandleRequest(f)
        BY <1>2, <2>1, <3>5, SessionHandles
      <3>6. CASE GetNextFrame(f)
        <4>1. server'.session = server.session /\ server'.count = server.count
          BY <2>1, <3>6, GetNextFrameEffect
        <4> QED BY <1>2, <2>1, <3>6, <4>1, SessionStays DEF GetNextFrame, Others
      <3> QED BY <3>1, <3>2, <3>3, <3>4, <3>5, <3>6
    <2>4. CASE Hear
      <3>1. PICK f : HearUA(f) \/ HearReject(f) \/ HearReady(f) \/ HearPart(f) \/ HearAnswer(f) \/ Ignore(f)
        BY <2>4 DEF Hear
      <3>2. CASE HearUA(f)
        <4>1. client'.session = client.session /\ client'.count = client.count
          BY <2>1, <3>2, HearUAEffect
        <4> QED BY <1>2, <2>1, <3>2, <4>1, SessionStays DEF HearUA
      <3>3. CASE HearReject(f)
        BY <1>2, <2>1, <3>3, SessionConnects DEF HearReject
      <3>4. CASE HearReady(f)
        <4>1. client'.session = client.session /\ client'.count = client.count
          BY <2>1, <3>4, HearReadyEffect
        <4> QED BY <1>2, <2>1, <3>4, <4>1, SessionStays DEF HearReady
      <3>5. CASE HearPart(f)
        <4>1. client'.session = client.session /\ client'.count = client.count
          BY <2>1, <3>5, HearPartEffect
        <4> QED BY <1>2, <2>1, <3>5, <4>1, SessionStays DEF HearPart
      <3>6. CASE HearAnswer(f)
        BY <1>2, <2>1, <3>6, SessionDelivers
      <3>7. CASE Ignore(f)
        <4>1. client'.session = client.session /\ client'.count = client.count
          BY <2>1, <3>7, IgnoreEffect DEF Passes, ClientKeeps
        <4> QED BY <1>2, <2>1, <3>7, <4>1, SessionStays DEF Ignore
      <3> QED BY <3>1, <3>2, <3>3, <3>4, <3>5, <3>6, <3>7
    <2>5. CASE GiveUp
      BY <1>2, <2>1, <2>5, SessionConnects DEF GiveUp
    <2>6. CASE Lose
      <3>1. server' = server /\ client'.session = client.session /\ client'.count = client.count
        BY <2>1, <2>6, LoseEffect DEF Lose, Passes, ClientKeeps
      <3> QED BY <1>2, <2>1, <3>1, SessionStays
    <2>7. ASSUME NEW k \in Kinds, Ask(k) PROVE UNCHANGED TheSession!sessionVars
      <3>1. server' = server
        BY <2>7 DEF Ask
      <3>2. client'.session = client.session /\ client'.count = client.count
        BY <2>1, <2>7, AskEffect
      <3> QED BY <1>2, <2>1, <3>1, <3>2, SessionStays
    <2>8. ASSUME NEW isLate \in BOOLEAN, Repeat(isLate) PROVE UNCHANGED TheSession!sessionVars
      <3>1. server' = server /\ client'.session = client.session /\ client'.count = client.count
        BY <2>1, <2>8, RepeatEffect DEF Repeat, ClientKeeps
      <3> QED BY <1>2, <2>1, <3>1, SessionStays
    <2>9. ASSUME NEW control \in Controls, Damaged(control) PROVE UNCHANGED TheSession!sessionVars
      <3>1. CASE HearDamaged(control)
        <4>1. server' = server /\ client'.session = client.session /\ client'.count = client.count
          BY <2>1, <3>1, HearDamagedEffect DEF HearDamaged, Passes, ClientKeeps
        <4> QED BY <1>2, <2>1, <4>1, SessionStays
      <3>2. ASSUME NEW f, NEW cleared \in BOOLEAN, TakeDamaged(f, control, cleared)
            PROVE  UNCHANGED TheSession!sessionVars
        <4>1. ServerKeeps
          BY <1>2, <2>1, <3>2, TakeDamagedEffect
        <4>2. client' = client
          BY <3>2 DEF TakeDamaged
        <4> QED BY <1>2, <2>1, <4>1, <4>2, SessionStays DEF ServerKeeps
      <3> QED BY <2>9, <3>1, <3>2 DEF Damaged
    <2>10. CASE UNCHANGED vars
      BY <1>2, <2>1, <2>10, SessionStays DEF vars
    <2> QED BY <2>2, <2>3, <2>4, <2>5, <2>6, <2>7, <2>8, <2>9, <2>10 DEF Next
  <1> QED BY <1>1, <1>2

(* The link implements HdlcSession, step by step: within a session the     *)
(* server handles one request at a time, each once, and the client takes   *)
(* one answer to each.                                                     *)
THEOREM SessionImplemented == Spec => ImplementsSession
  <1>1. Init => TheSession!Init
    BY SessionInit
  <1>2. LinkInv /\ [Next]_vars => [TheSession!Next]_TheSession!sessionVars
    BY SessionSteps
  <1> QED BY <1>1, <1>2, LinkInvAlways, PTL DEF Spec, ImplementsSession, TheSession!Spec
=============================================================================
