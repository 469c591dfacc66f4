-------------------------- MODULE BlockReadProofs --------------------------
(***************************************************************************)
(* ReadIsWhole for every object list, PDU size and scenario.               *)
(*                                                                         *)
(* The inductive invariant says where the server stands while a peer is in *)
(* an undisturbed read (ReadInv): if the block index is the number the     *)
(* peer will ask for, and there is a transaction, the transaction stands   *)
(* at the first object the peer has not got.  What resets the index resets *)
(* the transaction too, except srv_Load, which brings the index back when  *)
(* the restart has removed the transaction: hence the clause on boot.      *)
(***************************************************************************)
EXTENDS BlockRead, WellFoundedInduction, TLAPS

Sessions == [what : {"session"}, connected : BOOLEAN, clientAddress : Nat,
             blockIndex : Nat, maxPduSize : Nat]
Requests == {None, AARQ, Get, RLRQ} \cup [what : {"next"}, block : Nat]
Blocks   == [what : {"block"}, block : Nat, last : BOOLEAN, from : Nat, to : Nat]
Answers  == {None, Silent, AARE, RLRE, Failure, Whole} \cup Blocks

TypeOK ==
    /\ scenario \in Scenarios /\ list \in Lists /\ newMDM \in BOOLEAN
    /\ connected \in BOOLEAN /\ clientAddress \in Nat /\ blockIndex \in Nat
    /\ maxPduSize \in Nat
    /\ transaction \in [command : {"NONE", "GET"}, start : 0..Len(list),
                        end : 0..Len(list)]
    /\ svrRAW \in Sessions \cup {Empty} /\ boot \in {"started", "loading", "up"}
    /\ svrsettings \in Sessions \cup {Empty}
    /\ saving \in Sessions \cup {None, Handled}
    /\ request \in [Peers -> Requests] /\ answer \in [Peers -> Answers]
    /\ phase \in [Peers -> {"off", "associating", "reading", "done", "releasing"}]
    /\ asked \in [Peers -> Requests] /\ got \in [Peers -> Seq(Nat)]
    /\ reads \in [Peers -> Nat] /\ faults \in Nat
    /\ disturbed \in [Peers -> BOOLEAN]

(* What a peer asks for, and that one answer is the answer to it *)
Exchange(c) ==
    /\ request[c] # None => request[c] = asked[c] /\ answer[c] = None
    /\ phase[c] = "associating" <=> asked[c] = AARQ
    /\ phase[c] = "releasing" <=> asked[c] = RLRQ
    /\ phase[c] = "reading" <=> asked[c] = Get \/ asked[c].what = "next"
    /\ asked[c] = None => request[c] = None /\ answer[c] = None
    /\ answer[c] = Whole => asked[c] = Get

(* Where the server stands when it is asked for the block after n *)
Place(n, at) ==
    blockIndex = n /\ transaction.command # "NONE" =>
        transaction.start = at /\ transaction.end = Len(list)

Coming(c) ==
    answer[c].what = "block" =>
        /\ answer[c].block = Expected(c)
        /\ answer[c].from = Len(got[c])
        /\ answer[c].to \in answer[c].from..Len(list)
        /\ IF answer[c].last THEN answer[c].to = Len(list)
           ELSE Place(answer[c].block, answer[c].to)

Undisturbed(c) == phase[c] = "reading" /\ ~disturbed[c]

ReadInv(c) ==
    Undisturbed(c) =>
        /\ Len(got[c]) <= Len(list) /\ got[c] = Items(0, Len(got[c]))
        /\ asked[c] = Get => got[c] = << >>
        /\ asked[c] # Get => Place(asked[c].block, Len(got[c]))
        /\ Coming(c)
        /\ boot # "up" => /\ answer[c].what # "block"
                          /\ asked[c] = Get \/ transaction.command = "NONE"

DoneInv(c) == phase[c] = "done" /\ ~disturbed[c] => got[c] = Items(0, Len(list))

PeerInv(c) == Exchange(c) /\ ReadInv(c) /\ DoneInv(c)
BlockInv   == \A c \in Peers : PeerInv(c)

-----------------------------------------------------------------------------
(* A bounded set of naturals has a maximum *)
LEMMA MaxOfBounded ==
    ASSUME NEW n \in Nat, NEW S \in SUBSET (0..n), S # {}
    PROVE  Max(S) \in S
<1> DEFINE T == {n - x : x \in S}
           less == OpToRel(<, Nat)
<1>1. T \subseteq Nat
  OBVIOUS
<1>2. T # {}
  <2>1. PICK x \in S : TRUE
    OBVIOUS
  <2>2. n - x \in T
    BY <2>1
  <2> QED
    BY <2>2
<1>3. IsWellFoundedOn(less, Nat)
  BY NatLessThanWellFounded
<1>4. \A a, b \in Nat : <<a, b>> \in less <=> a < b
  BY DEF OpToRel
<1> HIDE DEF T, less
<1>5. PICK y \in T : \A z \in T : ~(<<z, y>> \in less)
  BY <1>1, <1>2, <1>3, WFMin
<1>6. \A z \in T : y <= z
  <2> SUFFICES ASSUME NEW z \in T PROVE y <= z
    OBVIOUS
  <2>1. y \in Nat /\ z \in Nat
    BY <1>1
  <2>2. ~(<<z, y>> \in less)
    BY <1>5
  <2>3. ~(z < y)
    BY <1>4, <2>1, <2>2, Zenon
  <2> QED
    BY <2>1, <2>3
<1>7. n - y \in S /\ \A x \in S : n - y >= x
  BY <1>6 DEF T
<1> QED
  BY <1>7 DEF Max

(* No object takes no room *)
LEMMA NoObjects == MapThenSumSet(LAMBDA i : list[i], {}) = 0
<1> DEFINE Sum(s, f) == IF s = {} THEN 0
                        ELSE LET x == CHOOSE x \in s : TRUE
                             IN  list[x] + f[s \ {x}]
           g == [s \in SUBSET {} |-> 0]
           h == CHOOSE f : f = [s \in SUBSET {} |-> Sum(s, f)]
<1>1. g = [s \in SUBSET {} |-> Sum(s, g)]
  OBVIOUS
<1>2. h = [s \in SUBSET {} |-> Sum(s, h)]
  BY <1>1
<1>3. h[{}] = 0
  BY <1>2
<1> QED
  BY <1>3 DEF MapThenSumSet, MapThenFoldSet

(* A block ends between where it starts and the end of the list *)
LEMMA FilledIn ==
    ASSUME TypeOK, NEW from \in 0..Len(list)
    PROVE  Filled(from) \in from..Len(list)
<1> DEFINE Size(to) == MapThenSumSet(LAMBDA i : list[i], (from + 1)..to)
           S == {to \in from..Len(list) : Size(to) <= maxPduSize}
<1>1. Len(list) \in Nat /\ maxPduSize \in Nat
  BY ListAssumption DEF TypeOK
<1>2. (from + 1)..from = {}
  OBVIOUS
<1>3. Size(from) = 0
  BY <1>2, NoObjects
<1> HIDE DEF Size
<1>4. from \in S
  BY <1>1, <1>3
<1>5. S \in SUBSET (0..Len(list)) /\ S \subseteq from..Len(list)
  BY <1>1
<1>6. Max(S) \in S
  BY <1>1, <1>4, <1>5, MaxOfBounded
<1> QED
  BY <1>5, <1>6 DEF Filled, Size

LEMMA SameItems ==
    ASSUME NEW n \in Nat, NEW s \in Seq(Nat), NEW t \in Seq(Nat),
           Len(s) = n, Len(t) = n, \A i \in 1..n : s[i] = t[i]
    PROVE  s = t
  OBVIOUS

LEMMA ItemsType ==
    ASSUME NEW a \in Nat, NEW b \in Nat
    PROVE  Items(a, b) \in Seq(Nat)
<1>1. CASE b - a >= 0
  BY <1>1 DEF Items
<1>2. CASE b - a < 0
  <2>1. Items(a, b) = << >>
    BY <1>2 DEF Items
  <2> QED
    BY <2>1
<1> QED
  BY <1>1, <1>2

LEMMA ItemsJoin ==
    ASSUME NEW a \in Nat, NEW b \in Nat, a <= b
    PROVE  /\ Items(0, a) \o Items(a, b) = Items(0, b)
           /\ Len(Items(0, a)) = a
           /\ Items(0, a) \in Seq(Nat) /\ Items(a, b) \in Seq(Nat)
<1>1. Items(0, a) \in Seq(Nat) /\ Len(Items(0, a)) = a
  BY DEF Items
<1>2. Items(a, b) \in Seq(Nat) /\ Len(Items(a, b)) = b - a
  BY DEF Items
<1>3. Items(0, b) \in Seq(Nat) /\ Len(Items(0, b)) = b
  BY DEF Items
<1>4. /\ Items(0, a) \o Items(a, b) \in Seq(Nat)
      /\ Len(Items(0, a) \o Items(a, b)) = b
  BY <1>1, <1>2
<1>5. ASSUME NEW i \in 1..b
      PROVE  (Items(0, a) \o Items(a, b))[i] = Items(0, b)[i]
  <2>1. CASE i <= a
    BY <1>1, <1>2, <2>1 DEF Items
  <2>2. CASE i > a
    <3>1. (Items(0, a) \o Items(a, b))[i] = Items(a, b)[i - a]
      BY <1>1, <1>2, <2>2
    <3> QED
      BY <2>2, <3>1 DEF Items
  <2>3. i <= a \/ i > a
    OBVIOUS
  <2> QED
    BY <2>1, <2>2, <2>3, Zenon
<1>6. Items(0, a) \o Items(a, b) = Items(0, b)
  BY <1>3, <1>4, <1>5, SameItems
<1> QED
  BY <1>1, <1>2, <1>6

-----------------------------------------------------------------------------
(* The variables keep to their types.                                      *)

LEMMA BlockKind ==
    ASSUME NEW n \in Nat, NEW last \in BOOLEAN, NEW from \in Nat, NEW to \in Nat
    PROVE  Block(n, last, from, to) \in Answers
  BY DEF Answers, Blocks, Block

LEMMA Kinds ==
    /\ {None, AARQ, Get, RLRQ} \subseteq Requests
    /\ \A n \in Nat : NextBlock(n) \in Requests
    /\ {None, Silent, AARE, RLRE, Failure, Whole} \subseteq Answers
  BY DEF Requests, NextBlock, Answers

LEMMA Sorts ==
    /\ \A r \in Requests : r.what = "next" => r.block \in Nat
    /\ \A a \in Answers : a.what = "block" =>
          a \in Blocks /\ a.block \in Nat /\ a.from \in Nat /\ a.to \in Nat
<1>1. \A r \in Requests : r.what = "next" => r.block \in Nat
  BY DEF Requests, None, AARQ, Get, RLRQ
<1>2. \A a \in Answers : a.what = "block" =>
          a \in Blocks /\ a.block \in Nat /\ a.from \in Nat /\ a.to \in Nat
  BY DEF Answers, Blocks, None, Silent, AARE, RLRE, Failure, Whole
<1> QED
  BY <1>1, <1>2

(* A transaction stands in the list *)
Transactions == [command : {"NONE", "GET"}, start : 0..Len(list), end : 0..Len(list)]

LEMMA Moved ==
    ASSUME TypeOK
    PROVE  /\ Len(list) \in Nat
           /\ NoTransaction \in Transactions
           /\ Filled(0) \in 0..Len(list) /\ FirstBlock \in Transactions
           /\ \A target \in Transactions, to \in 0..Len(list) :
                 After(target, to) \in Transactions
           /\ transaction.start \in 0..Len(list)
           /\ Filled(transaction.start) \in transaction.start..Len(list)
<1>1. Len(list) \in Nat
  BY ListAssumption DEF TypeOK
<1>2. NoTransaction \in Transactions
  BY <1>1 DEF NoTransaction, Transactions
<1>3. ASSUME NEW target \in Transactions, NEW to \in 0..Len(list)
      PROVE  After(target, to) \in Transactions
  <2>1. CASE to = Len(list)
    <3>1. After(target, to) = [target EXCEPT !.start = 0, !.end = 0]
      BY <2>1 DEF After
    <3>2. After(target, to) = [command |-> target.command, start |-> 0, end |-> 0]
      BY <3>1 DEF Transactions
    <3> QED
      BY <1>1, <3>2 DEF Transactions
  <2>2. CASE to # Len(list)
    <3>1. After(target, to) = [target EXCEPT !.start = to]
      BY <2>2 DEF After
    <3> QED
      BY <1>1, <3>1 DEF Transactions
  <2> QED
    BY <2>1, <2>2
<1>4. Filled(0) \in 0..Len(list)
  BY <1>1, FilledIn
<1>5. FirstBlock \in Transactions
  <2>1. [command |-> "GET", start |-> 0, end |-> Len(list)] \in Transactions
    BY <1>1 DEF Transactions
  <2> QED
    BY <1>3, <1>4, <2>1 DEF FirstBlock
<1>6. transaction.start \in 0..Len(list)
  BY DEF TypeOK
<1> QED
  BY <1>1, <1>2, <1>3, <1>4, <1>5, <1>6, FilledIn

(* What every handler does *)
LEMMA ReplyTypes ==
    ASSUME TypeOK, NEW c \in Peers, NEW a \in Answers, Reply(c, a)
    PROVE  /\ UNCHANGED <<setup, disk, peers>>
           /\ request' \in [Peers -> Requests] /\ answer' \in [Peers -> Answers]
           /\ saving' \in Sessions \cup {None, Handled}
  BY Kinds DEF Reply, TypeOK

LEMMA DisturbTypes ==
    ASSUME NEW c \in Peers, Disturb(c) \/ UNCHANGED disturbed,
           disturbed \in [Peers -> BOOLEAN]
    PROVE  disturbed' \in [Peers -> BOOLEAN]
<1>1. CASE Disturb(c)
  <2>1. \A p \in Peers :
            (disturbed[p] \/ (phase[p] = "reading" /\ (p # c \/ boot # "up"))) \in BOOLEAN
    BY Zenon
  <2> QED
    BY <1>1, <2>1, Zenon DEF Disturb
<1> QED
  BY <1>1

LEMMA ResetTypes ==
    ASSUME TypeOK, svr_reset
    PROVE  /\ connected' \in BOOLEAN /\ clientAddress' \in Nat
           /\ blockIndex' \in Nat /\ maxPduSize' \in Nat
           /\ transaction' \in Transactions
  BY Moved DEF svr_reset, svr_setInitialize, TypeOK

LEMMA ServeTypes ==
    ASSUME TypeOK, NEW c \in Peers, Serve(c) \/ HandleInactive(c)
    PROVE  TypeOK'
<1>0. /\ connected \in BOOLEAN /\ clientAddress \in Nat /\ blockIndex \in Nat
      /\ maxPduSize \in Nat /\ transaction \in Transactions /\ faults \in Nat
      /\ disturbed \in [Peers -> BOOLEAN] /\ Len(list) \in Nat
  BY Moved DEF TypeOK, Transactions
<1>1. Address(c) \in Nat
  BY ScenarioAssumption DEF TypeOK, Address
<1>2. ASSUME NEW a \in Answers, Reply(c, a),
             connected' \in BOOLEAN, clientAddress' \in Nat, blockIndex' \in Nat,
             maxPduSize' \in Nat, transaction' \in Transactions, faults' \in Nat,
             disturbed' \in [Peers -> BOOLEAN]
      PROVE  TypeOK'
  <2>1. /\ UNCHANGED <<setup, disk, peers>>
        /\ request' \in [Peers -> Requests] /\ answer' \in [Peers -> Answers]
        /\ saving' \in Sessions \cup {None, Handled}
    BY <1>2, ReplyTypes
  <2> QED
    BY <1>2, <2>1 DEF TypeOK, setup, disk, peers, Transactions
<1>3. ASSUME NEW what, Handle(c, what) PROVE disturbed' \in [Peers -> BOOLEAN]
  BY <1>0, <1>3, DisturbTypes DEF Handle
<1>4. CASE HandleOther(c)
  BY <1>0, <1>2, <1>4, Kinds DEF HandleOther, settings
<1>5. CASE HandleAARQ(c)
  <2>1. maxPduSize' \in Nat
    BY <1>5, RoomAssumption DEF HandleAARQ, TypeOK
  <2> QED
    BY <1>0, <1>1, <1>2, <1>3, <1>5, <2>1, Kinds, Moved
    DEF HandleAARQ, svr_setInitialize
<1>6. CASE HandleInactive(c)
  <2>1. faults' \in Nat
    BY <1>0, <1>6 DEF HandleInactive, Fault
  <2> QED
    BY <1>0, <1>2, <1>6, <2>1, Kinds, ResetTypes DEF HandleInactive
<1>7. CASE HandleRefused(c)
  BY <1>0, <1>1, <1>2, <1>3, <1>7, Kinds DEF HandleRefused
<1>8. CASE HandleGet(c)
  <2>1. Block(1, FALSE, 0, Filled(0)) \in Answers
    <3>1. Filled(0) \in Nat
      BY <1>0, Moved
    <3> QED
      BY <3>1, BlockKind
  <2> QED
    BY <1>0, <1>2, <1>3, <1>8, <2>1, Kinds, Moved DEF HandleGet
<1>9. CASE HandleNext(c)
  <2> DEFINE from == transaction.start
             to   == Filled(from)
             now  == After(transaction, to)
             last == ~(now.start < now.end)
  <2>1. from \in 0..Len(list) /\ to \in from..Len(list)
    BY Moved
  <2>2. to \in 0..Len(list) /\ to \in Nat /\ from \in Nat
    BY <1>0, <2>1
  <2>3. now \in Transactions
    BY <1>0, <2>2, Moved
  <2>4. Block(blockIndex + 1, last, from, to) \in Answers
    <3>1. blockIndex + 1 \in Nat
      BY <1>0
    <3>2. last \in BOOLEAN
      BY Zenon
    <3> HIDE DEF last, from, to
    <3> QED
      BY <2>2, <3>1, <3>2, BlockKind
  <2>5. blockIndex + 1 \in Nat
    BY <1>0
  <2>6. /\ Handle(c, "next") /\ UNCHANGED <<connected, clientAddress, maxPduSize, faults>>
        /\ blockIndex' \in {blockIndex, blockIndex + 1}
        /\ transaction' \in {transaction, now}
        /\ Reply(c, Failure) \/ Reply(c, Block(blockIndex + 1, last, from, to))
    BY <1>9 DEF HandleNext
  <2> HIDE DEF now, last
  <2> QED
    BY <1>0, <1>2, <1>3, <2>3, <2>4, <2>5, <2>6, Kinds
<1>10. CASE HandleRelease(c)
  BY <1>0, <1>2, <1>3, <1>10, Kinds, ResetTypes DEF HandleRelease
<1> QED
  BY <1>4, <1>5, <1>6, <1>7, <1>8, <1>9, <1>10 DEF Serve

LEMMA DiskTypes ==
    ASSUME TypeOK, OpenFile \/ WriteFile \/ ReadFile \/ Load
    PROVE  TypeOK'
<1> USE DEF TypeOK, setup, settings, disk, peers
<1>1. CASE OpenFile
  <2>1. Session \in Sessions
    BY DEF Session, Sessions
  <2> QED
    BY <1>1, <2>1 DEF OpenFile
<1>2. CASE WriteFile
  <2>1. saving \in Sessions
    BY <1>2 DEF WriteFile, None, Handled
  <2> QED
    BY <1>2, <2>1 DEF WriteFile
<1>3. CASE ReadFile
  BY <1>3 DEF ReadFile
<1>4. CASE Load
  <2>1. svrsettings # Empty => /\ svrsettings.connected \in BOOLEAN
                               /\ svrsettings.clientAddress \in Nat
                               /\ svrsettings.blockIndex \in Nat
                               /\ svrsettings.maxPduSize \in Nat
    BY DEF Sessions
  <2> QED
    BY <1>4, <2>1 DEF Load
<1> QED
  BY <1>1, <1>2, <1>3, <1>4

LEMMA NoAnswerTypes ==
    ASSUME TypeOK, NEW waiting, NoAnswer(waiting)
    PROVE  request' \in [Peers -> Requests] /\ answer' \in [Peers -> Answers]
  BY Kinds DEF NoAnswer, TypeOK

LEMMA FaultTypes ==
    ASSUME TypeOK, NEW c \in Peers, Restart \/ Disconnect(c) \/ LateReset \/ Lose(c)
    PROVE  TypeOK'
<1>1. Fault /\ faults' \in Nat
  BY DEF Restart, Disconnect, LateReset, Lose, Fault, TypeOK
<1>2. CASE Restart
  <2>1. /\ UNCHANGED <<setup, svrRAW, peers, disturbed>>
        /\ request' \in [Peers -> Requests] /\ answer' \in [Peers -> Answers]
        /\ saving' = None /\ boot' = "started" /\ svrsettings' = Empty
    BY <1>2, NoAnswerTypes DEF Restart
  <2>2. /\ connected' \in BOOLEAN /\ clientAddress' \in Nat
        /\ blockIndex' \in Nat /\ maxPduSize' \in Nat
        /\ transaction' \in Transactions
    <3>1. maxPduSize' \in Nat
      BY <1>2 DEF Restart
    <3>2. transaction' \in Transactions
      BY <1>2, Moved DEF Restart
    <3>3. connected' = FALSE /\ clientAddress' = 0 /\ blockIndex' = 1
      BY <1>2 DEF Restart
    <3> QED
      BY <3>1, <3>2, <3>3
  <2> QED
    BY <1>1, <2>1, <2>2 DEF TypeOK, setup, peers, Transactions
<1>3. svr_reset \/ UNCHANGED settings
      => /\ connected' \in BOOLEAN /\ clientAddress' \in Nat
         /\ blockIndex' \in Nat /\ maxPduSize' \in Nat
         /\ transaction' \in Transactions
  <2>1. UNCHANGED settings => /\ connected' \in BOOLEAN /\ clientAddress' \in Nat
                              /\ blockIndex' \in Nat /\ maxPduSize' \in Nat
                              /\ transaction' \in Transactions
    BY DEF settings, TypeOK, Transactions
  <2> QED
    BY <2>1, ResetTypes
<1>4. CASE Disconnect(c)
  <2>1. /\ UNCHANGED <<setup, disk, saving, peers, disturbed>>
        /\ request' \in [Peers -> Requests] /\ answer' \in [Peers -> Answers]
        /\ svr_reset \/ UNCHANGED settings
    BY <1>4, NoAnswerTypes DEF Disconnect
  <2> QED
    BY <1>1, <1>3, <2>1 DEF TypeOK, setup, peers, disk, Transactions
<1>5. CASE LateReset
  <2>1. svr_reset /\ UNCHANGED <<setup, disk, saving, request, answer, peers, disturbed>>
    BY <1>5 DEF LateReset
  <2> QED
    BY <1>1, <1>3, <2>1 DEF TypeOK, setup, peers, disk, Transactions
<1>6. CASE Lose(c)
  BY <1>1, <1>6, Kinds DEF Lose, TypeOK, setup, settings, disk, peers
<1> QED
  BY <1>2, <1>4, <1>5, <1>6

(* What a peer does *)
PeerStep(c) == Associate(c) \/ ReadAgain(c) \/ Release(c) \/ Proceed(c)

LEMMA PeerTypes ==
    ASSUME TypeOK, NEW c \in Peers, PeerStep(c)
    PROVE  TypeOK'
<1>1. ASSUME NEW r \in Requests, Ask(c, r)
      PROVE  /\ request' \in [Peers -> Requests] /\ asked' \in [Peers -> Requests]
             /\ answer' \in [Peers -> Answers]
             /\ UNCHANGED <<setup, settings, disk, saving, faults>>
  BY <1>1, Kinds DEF Ask, TypeOK
<1>2. Begin(c) => reads' \in [Peers -> Nat]
  BY DEF Begin, TypeOK
<1>3. ASSUME NEW p \in {"off", "associating", "reading", "done", "releasing"},
             Becomes(c, p)
      PROVE  phase' \in [Peers -> {"off", "associating", "reading", "done",
                                   "releasing"}]
  BY <1>3 DEF Becomes, TypeOK
<1>4. Forget(c) => got' \in [Peers -> Seq(Nat)] /\ disturbed' \in [Peers -> BOOLEAN]
  BY DEF Forget, TypeOK
<1>5. ASSUME request' \in [Peers -> Requests], asked' \in [Peers -> Requests],
             answer' \in [Peers -> Answers],
             UNCHANGED <<setup, settings, disk, saving, faults>>,
             reads' \in [Peers -> Nat],
             phase' \in [Peers -> {"off", "associating", "reading", "done",
                                   "releasing"}],
             got' \in [Peers -> Seq(Nat)], disturbed' \in [Peers -> BOOLEAN]
      PROVE  TypeOK'
  BY <1>5 DEF TypeOK, setup, settings, disk
<1>6. /\ reads \in [Peers -> Nat] /\ got \in [Peers -> Seq(Nat)]
      /\ disturbed \in [Peers -> BOOLEAN] /\ asked \in [Peers -> Requests]
      /\ request \in [Peers -> Requests] /\ answer \in [Peers -> Answers]
      /\ phase \in [Peers -> {"off", "associating", "reading", "done", "releasing"}]
  BY DEF TypeOK
<1>7. AskList(c) => /\ Ask(c, Get) /\ Forget(c) /\ Becomes(c, "reading")
  BY DEF AskList
<1>8. CASE Associate(c) \/ Release(c) \/ ReadAgain(c) \/ Associated(c)
  BY <1>1, <1>2, <1>3, <1>4, <1>5, <1>6, <1>7, <1>8, Kinds
  DEF Associate, Release, ReadAgain, Associated
<1>9. CASE Reassociate(c)
  BY <1>1, <1>3, <1>4, <1>5, <1>6, <1>9, Kinds DEF Reassociate
<1>10. CASE Retry(c)
  BY <1>1, <1>5, <1>6, <1>10 DEF Retry
<1>11. Finish(c) =>
          /\ request' \in [Peers -> Requests] /\ asked' \in [Peers -> Requests]
          /\ answer' \in [Peers -> Answers] /\ Becomes(c, "done")
          /\ UNCHANGED <<setup, settings, disk, saving, faults, request>>
  BY <1>6, Kinds DEF Finish
<1>12. CASE Released(c)
  BY <1>3, <1>5, <1>6, <1>12, Kinds DEF Released
<1>13. ASSUME NEW items \in Seq(Nat), Read(c, items)
       PROVE  /\ got' \in [Peers -> Seq(Nat)] /\ reads' \in [Peers -> Nat]
              /\ disturbed' \in [Peers -> BOOLEAN]
  <2>1. got[c] \o items \in Seq(Nat)
    BY <1>6
  <2> QED
    BY <1>6, <1>13, <2>1 DEF Read
<1>14. CASE TakeBlock(c)
  <2>1. /\ answer[c].block \in Nat /\ answer[c].from \in Nat /\ answer[c].to \in Nat
    BY <1>6, <1>14, Sorts DEF TakeBlock, Good
  <2>2. Items(answer[c].from, answer[c].to) \in Seq(Nat)
    BY <2>1, ItemsType
  <2>3. NextBlock(answer[c].block) \in Requests
    BY <2>1, Kinds
  <2> QED
    BY <1>1, <1>3, <1>5, <1>6, <1>11, <1>13, <1>14, <2>2, <2>3 DEF TakeBlock
<1>15. CASE TakeWhole(c)
  <2>1. Items(0, Len(list)) \in Seq(Nat)
    BY Moved, ItemsType
  <2> QED
    BY <1>3, <1>5, <1>6, <1>11, <1>13, <1>15, <2>1 DEF TakeWhole
<1> QED
  BY <1>8, <1>9, <1>10, <1>12, <1>14, <1>15 DEF PeerStep, Proceed

LEMMA NextSteps ==
    ASSUME [Next]_vars
    PROVE  \/ \E c \in Peers : \/ Serve(c) \/ HandleInactive(c) \/ PeerStep(c)
                               \/ Disconnect(c) \/ Lose(c)
           \/ OpenFile \/ WriteFile \/ ReadFile \/ Load
           \/ Restart \/ LateReset
           \/ UNCHANGED vars
  BY Zenon DEF Next, PeerStep

LEMMA TypeInit == Init => TypeOK
<1> SUFFICES ASSUME Init PROVE TypeOK
  OBVIOUS
<1>1. Len(list) \in Nat
  BY ListAssumption DEF Init
<1>2. transaction \in [command : {"NONE", "GET"}, start : 0..Len(list),
                       end : 0..Len(list)]
  BY <1>1 DEF Init, NoTransaction
<1>3. None \in Requests /\ None \in Answers
  BY Kinds
<1>4. maxPduSize \in Nat /\ clientAddress \in Nat /\ blockIndex \in Nat
  BY DEF Init
<1>5. /\ scenario \in Scenarios /\ list \in Lists /\ newMDM \in BOOLEAN
      /\ connected = FALSE
      /\ svrRAW = Empty /\ boot = "up" /\ svrsettings = Empty /\ saving = None
      /\ faults = 0
  BY DEF Init
<1>6. /\ request \in [Peers -> Requests] /\ answer \in [Peers -> Answers]
      /\ phase \in [Peers -> {"off", "associating", "reading", "done", "releasing"}]
      /\ asked \in [Peers -> Requests] /\ got \in [Peers -> Seq(Nat)]
      /\ reads \in [Peers -> Nat] /\ disturbed \in [Peers -> BOOLEAN]
  BY <1>3 DEF Init
<1> QED
  BY <1>2, <1>4, <1>5, <1>6 DEF TypeOK

THEOREM TypeCorrect == Spec => []TypeOK
<1>1. TypeOK /\ [Next]_vars => TypeOK'
  <2> SUFFICES ASSUME TypeOK, [Next]_vars PROVE TypeOK'
    OBVIOUS
  <2>1. CASE UNCHANGED vars
    BY <2>1 DEF vars, TypeOK, setup, settings, disk, peers
  <2>2. "client" \in Peers
    BY DEF Peers
  <2> QED
    BY <2>1, <2>2, NextSteps, ServeTypes, PeerTypes, FaultTypes, DiskTypes
<1> QED
  BY <1>1, TypeInit, PTL DEF Spec

-----------------------------------------------------------------------------
(* What the server and the faults do to a read                             *)

(* While the peer is at rest: the server stays where it is, or has no more *)
(* transaction; or srv_Load has brought an index back for which there is   *)
(* none                                                                    *)
LEMMA AtRest ==
    ASSUME TypeOK, NEW p \in Peers, ReadInv(p), DoneInv(p),
           UNCHANGED <<list, phase, asked, got, disturbed>>,
           answer'[p] = answer[p] \/ answer'[p].what # "block",
           \/ UNCHANGED <<blockIndex, transaction>>
           \/ transaction'.command = "NONE"
           \/ boot # "up" /\ UNCHANGED transaction,
           boot' # "up" =>
               boot # "up" \/ (transaction'.command = "NONE" /\ answer'[p].what # "block")
    PROVE  ReadInv(p)' /\ DoneInv(p)'
<1>1. DoneInv(p)'
  BY DEF DoneInv, Items
<1>2. SUFFICES ASSUME Undisturbed(p) PROVE ReadInv(p)'
  BY <1>1 DEF ReadInv, Undisturbed
<1>3. /\ Len(got[p]) <= Len(list) /\ got[p] = Items(0, Len(got[p]))
      /\ asked[p] = Get => got[p] = << >>
      /\ asked[p] # Get => Place(asked[p].block, Len(got[p]))
      /\ Coming(p)
      /\ boot # "up" => /\ answer[p].what # "block"
                        /\ asked[p] = Get \/ transaction.command = "NONE"
  BY <1>2 DEF ReadInv
<1>4. \A n, at :
         /\ \/ boot = "up"
            \/ transaction.command = "NONE"
         /\ Place(n, at)
         => Place(n, at)'
  BY DEF Place
<1>5. asked[p] # Get => Place(asked[p].block, Len(got[p]))'
  BY <1>3, <1>4 DEF Place
<1>6. Coming(p)'
  BY <1>3, <1>4 DEF Coming, Expected, Place
<1>7. boot' # "up" => /\ answer'[p].what # "block"
                      /\ asked[p] = Get \/ transaction'.command = "NONE"
  BY <1>3
<1> QED
  BY <1>3, <1>5, <1>6, <1>7 DEF ReadInv, Items

LEMMA ReplyKeeps ==
    ASSUME TypeOK, NEW c \in Peers, NEW a, Reply(c, a), NEW p \in Peers,
           Exchange(c), Exchange(p), request[c] # None, a # None,
           a = Whole => asked[c] = Get
    PROVE  /\ Exchange(p)'
           /\ answer'[p] = (IF p = c THEN a ELSE answer[p])
           /\ UNCHANGED <<list, phase, asked, got, boot>>
<1>1. /\ request' = [request EXCEPT ![c] = None]
      /\ answer' = [answer EXCEPT ![c] = a]
      /\ UNCHANGED <<list, phase, asked, got, boot>>
  BY DEF Reply, setup, disk, peers
<1>2. DOMAIN request = Peers /\ DOMAIN answer = Peers
  BY DEF TypeOK
<1>3. CASE p = c
  BY <1>1, <1>2, <1>3 DEF Exchange
<1>4. CASE p # c
  <2>1. request'[p] = request[p] /\ answer'[p] = answer[p]
    BY <1>1, <1>2, <1>4
  <2> QED
    BY <1>1, <1>4, <2>1 DEF Exchange
<1> QED
  BY <1>1, <1>2, <1>3, <1>4

LEMMA HandleKeeps ==
    ASSUME TypeOK, NEW c \in Peers, NEW what, NEW a, NEW p \in Peers,
           PeerInv(c), PeerInv(p), Handle(c, what), Reply(c, a), a # None,
           a = Whole => asked[c] = Get,
           Undisturbed(c) /\ boot = "up" =>
               /\ asked[c] # Get => Place(asked[c].block, Len(got[c]))'
               /\ Coming(c)'
    PROVE  PeerInv(p)'
<1>1. /\ Exchange(p)'
      /\ answer'[p] = (IF p = c THEN a ELSE answer[p])
      /\ UNCHANGED <<list, phase, asked, got, boot>>
  BY ReplyKeeps DEF PeerInv, Handle, Received
<1>2. disturbed'[p] <=> disturbed[p] \/ (phase[p] = "reading" /\ (p # c \/ boot # "up"))
  BY Zenon DEF Handle, Disturb
<1>3. DoneInv(p)'
  BY <1>1, <1>2 DEF PeerInv, DoneInv, Items
<1>4. ReadInv(p)'
  <2> SUFFICES ASSUME Undisturbed(p)' PROVE ReadInv(p)'
    BY DEF ReadInv
  <2>1. p = c /\ boot = "up" /\ Undisturbed(c)
    BY <1>1, <1>2 DEF Undisturbed
  <2>2. /\ Len(got[c]) <= Len(list) /\ got[c] = Items(0, Len(got[c]))
        /\ asked[c] = Get => got[c] = << >>
    BY <2>1 DEF PeerInv, ReadInv
  <2>3. /\ asked[c] # Get => Place(asked[c].block, Len(got[c]))'
        /\ Coming(c)'
    BY <2>1
  <2> QED
    BY <1>1, <2>1, <2>2, <2>3 DEF ReadInv, Items
<1> QED
  BY <1>1, <1>3, <1>4 DEF PeerInv

LEMMA ServeKeeps ==
    ASSUME TypeOK, NEW c \in Peers, NEW p \in Peers, PeerInv(c), PeerInv(p),
           Serve(c) \/ HandleInactive(c)
    PROVE  PeerInv(p)'
<1> USE DEF PeerInv
<1>1. request[c] # None /\ request[c] = asked[c]
  BY DEF Serve, HandleOther, HandleAARQ, HandleInactive, HandleRefused, HandleGet,
         HandleNext, HandleRelease, Handle, Received, Exchange
<1>2. ASSUME NEW a, Reply(c, a), a # None
      PROVE  answer'[c] = a
  BY <1>2 DEF Reply, TypeOK
<1>3. Silent # None /\ Silent # Whole /\ Silent.what # "block"
  BY DEF Silent, None, Whole
<1>4. Failure # None /\ Failure # Whole /\ Failure.what # "block"
  BY DEF Failure, None, Whole
(* an answer that is not about the list *)
<1>5. ASSUME Reply(c, Silent), UNCHANGED disturbed,
             \/ UNCHANGED <<blockIndex, transaction>>
             \/ transaction'.command = "NONE"
      PROVE  PeerInv(p)'
  <2>1. /\ Exchange(p)'
        /\ answer'[p] = (IF p = c THEN Silent ELSE answer[p])
        /\ UNCHANGED <<list, phase, asked, got, boot>>
    BY <1>1, <1>3, <1>5, ReplyKeeps
  <2>2. answer'[p] = answer[p] \/ answer'[p].what # "block"
    BY <1>3, <2>1
  <2>3. /\ UNCHANGED <<list, phase, asked, got, disturbed>>
        /\ boot' # "up" => boot # "up"
        /\ ReadInv(p) /\ DoneInv(p)
    BY <1>5, <2>1
  <2>4. ReadInv(p)' /\ DoneInv(p)'
    BY <1>5, <2>2, <2>3, AtRest
  <2> QED
    BY <2>1, <2>4
<1>6. CASE HandleOther(c)
  BY <1>5, <1>6 DEF HandleOther, settings
<1>7. CASE HandleInactive(c)
  BY <1>5, <1>7 DEF HandleInactive, svr_reset, svr_setInitialize, NoTransaction
<1>8. CASE HandleAARQ(c)
  <2>1. ~Undisturbed(c)
    <3>1. request[c].what = "AARQ"
      BY <1>8 DEF HandleAARQ, Handle
    <3>2. asked[c] # Get /\ asked[c].what # "next"
      BY <1>1, <3>1 DEF Get
    <3> QED
      BY <3>2 DEF Exchange, Undisturbed
  <2>2. AARE # None /\ AARE # Whole
    BY DEF AARE, None, Whole
  <2> QED
    BY <1>8, <2>1, <2>2, HandleKeeps DEF HandleAARQ
<1>9. CASE HandleRelease(c)
  <2>1. ~Undisturbed(c)
    <3>1. request[c].what = "RLRQ"
      BY <1>9 DEF HandleRelease, Handle
    <3>2. asked[c] # Get /\ asked[c].what # "next"
      BY <1>1, <3>1 DEF Get
    <3> QED
      BY <3>2 DEF Exchange, Undisturbed
  <2>2. RLRE # None /\ RLRE # Whole
    BY DEF RLRE, None, Whole
  <2> QED
    BY <1>9, <2>1, <2>2, HandleKeeps DEF HandleRelease
(* a failure moves at most the index, and then there is no transaction *)
<1>10. ASSUME NEW what, Handle(c, what), Reply(c, Failure), UNCHANGED transaction,
              UNCHANGED blockIndex \/ transaction.command = "NONE"
       PROVE  PeerInv(p)'
  <2>1. answer'[c] = Failure /\ UNCHANGED <<asked, got, list>>
    BY <1>2, <1>4, <1>10 DEF Reply, setup, peers
  <2>2. Coming(c)'
    BY <1>4, <2>1 DEF Coming
  <2>3. Undisturbed(c) /\ asked[c] # Get => Place(asked[c].block, Len(got[c]))'
    BY <1>10, <2>1 DEF ReadInv, Place
  <2> QED
    BY <1>4, <1>10, <2>2, <2>3, HandleKeeps
<1>11. CASE HandleRefused(c)
  BY <1>10, <1>11 DEF HandleRefused
<1>12. CASE HandleGet(c)
  <2>1. Handle(c, "GET")
    BY <1>12 DEF HandleGet
  <2>2. asked[c] = Get
    <3>1. request[c].what = "GET" /\ request[c] \in Requests
      BY <2>1 DEF Handle, TypeOK
    <3> QED
      BY <1>1, <3>1 DEF Requests, None, AARQ, Get, RLRQ
  <2>3. UNCHANGED <<asked, got, list>>
    BY <1>12 DEF HandleGet, Reply, setup, peers
  <2>4. CASE Reply(c, Whole)
    <3>1. Whole # None /\ Whole.what # "block"
      BY DEF Whole, None
    <3>2. Coming(c)'
      BY <1>2, <2>4, <3>1 DEF Coming
    <3> QED
      BY <2>1, <2>2, <2>4, <3>1, <3>2, HandleKeeps
  <2>5. CASE /\ Filled(0) # Len(list) /\ transaction' = FirstBlock
             /\ Reply(c, Block(1, FALSE, 0, Filled(0)))
    <3>1. PICK f \in 0..Len(list) : f = Filled(0)
      BY Moved
    <3> DEFINE a == Block(1, FALSE, 0, f)
    <3>2. a # None /\ a # Whole
      BY DEF Block, None, Whole
    <3>3. Reply(c, a)
      BY <2>5, <3>1
    <3>4. /\ answer'[c] = a /\ a.block = 1 /\ a.last = FALSE /\ a.from = 0
          /\ a.to = f
      BY <1>2, <3>2, <3>3 DEF Block
    <3>5. transaction' = [command |-> "GET", start |-> f, end |-> Len(list)]
      BY <2>5, <3>1 DEF FirstBlock, After
    <3>6. Place(1, f)'
      BY <2>3, <3>5 DEF Place
    <3>7. Undisturbed(c) => Coming(c)'
      <4> SUFFICES ASSUME Undisturbed(c) PROVE Coming(c)'
        OBVIOUS
      <4>1. got[c] = << >>
        BY <2>2 DEF ReadInv
      <4> HIDE DEF a
      <4> QED
        BY <2>2, <2>3, <3>4, <3>6, <4>1 DEF Coming, Expected, Place
    <3> QED
      BY <2>1, <2>2, <3>2, <3>3, <3>7, HandleKeeps
  <2> QED
    BY <1>12, <2>4, <2>5 DEF HandleGet
<1>13. CASE HandleNext(c)
  <2>1. Handle(c, "next")
    BY <1>13 DEF HandleNext
  <2>2. asked[c] = request[c] /\ asked[c].what = "next" /\ asked[c] # Get
    BY <1>1, <2>1 DEF Handle, Get
  <2>3. PICK from \in 0..Len(list), to \in 0..Len(list) :
            from = transaction.start /\ to = Filled(from) /\ to \in from..Len(list)
    <3>1. Filled(transaction.start) \in 0..Len(list)
      BY Moved
    <3> QED
      BY <3>1, Moved
  <2> DEFINE now  == After(transaction, to)
             last == ~(now.start < now.end)
             a    == Block(blockIndex + 1, last, from, to)
  <2>4. CASE Reply(c, Failure) /\ UNCHANGED transaction
             /\ (UNCHANGED blockIndex \/ transaction.command = "NONE")
    BY <1>10, <2>1, <2>4
  <2>5. CASE /\ BlockAsked(c) /\ transaction.command # "NONE"
             /\ blockIndex' = blockIndex + 1
             /\ transaction' = now
             /\ Reply(c, a)
    <3>1. a # None /\ a # Whole
      BY DEF Block, None, Whole
    <3>2. UNCHANGED <<asked, got, list>>
      BY <2>5 DEF Reply, setup, peers
    <3>3. blockIndex = asked[c].block /\ blockIndex \in Nat /\ Len(list) \in Nat
      BY <2>2, <2>5, Moved DEF BlockAsked, TypeOK
    <3>4. /\ answer'[c] = a /\ a.what = "block" /\ a.block = blockIndex + 1
          /\ a.last = last /\ a.from = from /\ a.to = to
      BY <1>2, <2>5, <3>1 DEF Block
    <3>5. Undisturbed(c) => from = Len(got[c]) /\ transaction.end = Len(list)
      BY <2>2, <2>3, <2>5, <3>3 DEF ReadInv, Place
    <3>6. Place(asked[c].block, Len(got[c]))'
      BY <2>5, <3>2, <3>3 DEF Place
    <3>7. CASE to = Len(list)
      <4>1. a.to = Len(list) /\ last
        <5>1. now.start = 0 /\ now.end = 0
          BY <3>7 DEF After, TypeOK
        <5> QED
          BY <3>4, <3>7, <5>1
      <4>2. Undisturbed(c) => Coming(c)'
        <5> HIDE DEF a, last
        <5> QED
          BY <2>2, <2>3, <3>2, <3>3, <3>4, <3>5, <4>1 DEF Coming, Expected
      <4> QED
        BY <2>1, <2>5, <3>1, <3>6, <4>2, HandleKeeps
    <3>8. CASE to # Len(list)
      <4>1. /\ now.start = to /\ now.end = transaction.end
        BY <3>8 DEF After, TypeOK
      <4>2. Undisturbed(c) => ~last
        BY <2>3, <3>3, <3>5, <3>8, <4>1
      <4>3. Undisturbed(c) => Place(answer[c].block, answer[c].to)'
        <5>1. Undisturbed(c) =>
                 transaction'.start = to /\ transaction'.end = Len(list)
          BY <2>5, <3>5, <4>1
        <5> QED
          BY <2>5, <3>2, <3>4, <5>1 DEF Place
      <4>4. Undisturbed(c) => Coming(c)'
        <5> HIDE DEF a, last
        <5> QED
          BY <2>2, <2>3, <3>2, <3>3, <3>4, <3>5, <4>2, <4>3
          DEF Coming, Expected
      <4> QED
        BY <2>1, <2>5, <3>1, <3>6, <4>4, HandleKeeps
    <3> QED
      BY <3>7, <3>8
  <2> QED
    BY <1>13, <2>3, <2>4, <2>5 DEF HandleNext
<1> QED
  BY <1>6, <1>7, <1>8, <1>9, <1>11, <1>12, <1>13 DEF Serve

LEMMA DiskKeeps ==
    ASSUME TypeOK, NEW p \in Peers, PeerInv(p),
           OpenFile \/ WriteFile \/ ReadFile \/ Load
    PROVE  PeerInv(p)'
<1>1. UNCHANGED <<list, phase, asked, got, disturbed, request, answer, transaction>>
  BY DEF OpenFile, WriteFile, ReadFile, Load, setup, settings, peers
<1>2. boot' # "up" => boot # "up"
  BY DEF OpenFile, WriteFile, ReadFile, Load
<1>3. UNCHANGED blockIndex \/ boot # "up"
  BY DEF OpenFile, WriteFile, ReadFile, Load, settings
<1>4. ReadInv(p)' /\ DoneInv(p)'
  BY <1>1, <1>2, <1>3, AtRest DEF PeerInv
<1> QED
  BY <1>1, <1>4 DEF PeerInv, Exchange

LEMMA FaultKeeps ==
    ASSUME TypeOK, NEW c \in Peers, NEW p \in Peers, PeerInv(p),
           Restart \/ Disconnect(c) \/ LateReset \/ Lose(c)
    PROVE  PeerInv(p)'
<1>1. UNCHANGED <<list, phase, asked, got, disturbed>>
  BY DEF Restart, Disconnect, LateReset, Lose, setup, peers
<1>2. svr_reset => transaction'.command = "NONE"
  BY DEF svr_reset, svr_setInitialize, NoTransaction
<1>3. \/ UNCHANGED <<blockIndex, transaction>>
      \/ transaction'.command = "NONE"
  <2>1. CASE Restart
    BY <2>1 DEF Restart, NoTransaction
  <2>2. CASE Disconnect(c) \/ LateReset \/ Lose(c)
    BY <1>2, <2>2 DEF Disconnect, LateReset, Lose, settings
  <2> QED
    BY <2>1, <2>2
<1>4. \/ request'[p] = request[p] /\ answer'[p] = answer[p]
      \/ request'[p] = None /\ answer'[p] = Silent
            /\ (request[p] # None \/ answer[p] # None)
  <2>1. ASSUME NEW waiting, NoAnswer(waiting)
        PROVE  \/ request'[p] = request[p] /\ answer'[p] = answer[p]
               \/ request'[p] = None /\ answer'[p] = Silent
                     /\ (request[p] # None \/ answer[p] # None)
    BY <2>1 DEF NoAnswer
  <2>2. CASE Restart \/ Disconnect(c)
    BY <2>1, <2>2 DEF Restart, Disconnect
  <2>3. CASE LateReset
    BY <2>3 DEF LateReset
  <2>4. CASE Lose(c)
    <3>1. DOMAIN answer = Peers
      BY DEF TypeOK
    <3>2. p = c => request[p] = None
      BY <2>4 DEF Lose, PeerInv, Exchange
    <3> QED
      BY <2>4, <3>1, <3>2 DEF Lose
  <2> QED
    BY <2>2, <2>3, <2>4
<1>5. Silent.what # "block" /\ Silent # Whole /\ Silent # None
  BY DEF Silent, Whole, None
<1>6. boot' # "up" =>
          boot # "up" \/ (transaction'.command = "NONE" /\ answer'[p].what # "block")
  <2>1. CASE Restart
    <3>1. transaction'.command = "NONE"
      BY <2>1 DEF Restart, NoTransaction
    <3>2. answer'[p] = None \/ answer'[p] = Silent
      BY <2>1 DEF Restart, NoAnswer
    <3>3. None.what # "block"
      BY DEF None
    <3> QED
      BY <1>5, <3>1, <3>2, <3>3
  <2>2. CASE Disconnect(c) \/ LateReset \/ Lose(c)
    BY <2>2 DEF Disconnect, LateReset, Lose, disk
  <2> QED
    BY <2>1, <2>2
<1>7. ReadInv(p)' /\ DoneInv(p)'
  <2>1. answer'[p] = answer[p] \/ answer'[p].what # "block"
    BY <1>4, <1>5
  <2>2. ReadInv(p) /\ DoneInv(p)
    BY DEF PeerInv
  <2> QED
    BY <1>1, <1>3, <1>6, <2>1, <2>2, AtRest
<1>8. Exchange(p)'
  BY <1>1, <1>4, <1>5 DEF PeerInv, Exchange
<1> QED
  BY <1>7, <1>8 DEF PeerInv

-----------------------------------------------------------------------------
(* What the peer does                                                      *)

LEMMA OtherPeer ==
    ASSUME TypeOK, NEW p \in Peers, PeerInv(p),
           UNCHANGED <<list, blockIndex, transaction, boot>>,
           request'[p] = request[p], answer'[p] = answer[p], phase'[p] = phase[p],
           asked'[p] = asked[p], got'[p] = got[p], disturbed'[p] = disturbed[p]
    PROVE  PeerInv(p)'
<1>1. Exchange(p)'
  BY DEF PeerInv, Exchange
<1>2. DoneInv(p)'
  BY DEF PeerInv, DoneInv, Items
<1>3. ReadInv(p)'
  BY DEF PeerInv, ReadInv, Undisturbed, Place, Coming, Expected, Items
<1> QED
  BY <1>1, <1>2, <1>3 DEF PeerInv

LEMMA PeerLeavesServer ==
    ASSUME NEW c \in Peers, PeerStep(c)
    PROVE  UNCHANGED <<list, blockIndex, transaction, boot>>
  BY DEF PeerStep, Proceed, Associate, ReadAgain, Release, Associated, TakeBlock,
         TakeWhole, Retry, Reassociate, Released, AskList, Ask, Finish, setup,
         settings, disk

LEMMA PeerLeavesOther ==
    ASSUME TypeOK, NEW c \in Peers, NEW p \in Peers, p # c, PeerStep(c)
    PROVE  /\ request'[p] = request[p] /\ answer'[p] = answer[p]
           /\ phase'[p] = phase[p] /\ asked'[p] = asked[p] /\ got'[p] = got[p]
           /\ disturbed'[p] = disturbed[p]
  BY DEF PeerStep, Proceed, Associate, ReadAgain, Release, Associated, TakeBlock,
         TakeWhole, Retry, Reassociate, Released, AskList, Ask, Finish, Becomes,
         Forget, Read, TypeOK

LEMMA Tags ==
    /\ AARQ # Get /\ AARQ # RLRQ /\ AARQ # None /\ AARQ.what # "next"
    /\ RLRQ # Get /\ RLRQ # None /\ RLRQ.what # "next"
    /\ Get # None /\ Get.what # "next" /\ None.what # "next" /\ None.what # "block"
    /\ None # Whole
    /\ \A n : /\ NextBlock(n).what = "next" /\ NextBlock(n).block = n
              /\ NextBlock(n) \notin {None, Get, AARQ, RLRQ}
  BY DEF AARQ, Get, RLRQ, None, Whole, NextBlock

LEMMA AskKeeps ==
    ASSUME TypeOK, NEW c \in Peers, NEW r, Ask(c, r),
           r # None,
           (phase'[c] = "associating") <=> (r = AARQ),
           (phase'[c] = "releasing") <=> (r = RLRQ),
           (phase'[c] = "reading") <=> (r = Get \/ r.what = "next")
    PROVE  Exchange(c)' /\ answer'[c] = None /\ asked'[c] = r
<1>1. request'[c] = r /\ asked'[c] = r /\ answer'[c] = None
  BY DEF Ask, TypeOK
<1> QED
  BY <1>1, Tags DEF Exchange

LEMMA ListAsked ==
    ASSUME TypeOK, NEW c \in Peers, AskList(c)
    PROVE  PeerInv(c)'
<1>1. phase'[c] = "reading" /\ got'[c] = << >>
  BY DEF AskList, Becomes, Forget, TypeOK
<1>2. Exchange(c)' /\ answer'[c] = None /\ asked'[c] = Get
  BY <1>1, AskKeeps, Tags DEF AskList
<1>3. list' = list /\ Len(list) \in Nat
  BY Moved DEF AskList, Ask, setup
<1>4. << >> = Items(0, 0) /\ Len(<< >>) = 0
  BY DEF Items
<1>5. ReadInv(c)'
  BY <1>1, <1>2, <1>3, <1>4, Tags DEF ReadInv, Coming, Items
<1>6. DoneInv(c)'
  BY <1>1 DEF DoneInv
<1> QED
  BY <1>2, <1>5, <1>6 DEF PeerInv

LEMMA FinishKeeps ==
    ASSUME TypeOK, NEW c \in Peers, PeerInv(c), phase[c] = "reading", answer[c] # None,
           Finish(c),
           ~disturbed'[c] => got'[c] = Items(0, Len(list))
    PROVE  PeerInv(c)'
<1>1. /\ phase'[c] = "done" /\ answer'[c] = None /\ asked'[c] = None
      /\ request'[c] = request[c] /\ list' = list
  BY DEF Finish, Becomes, setup, TypeOK
<1>2. request[c] = None
  BY DEF PeerInv, Exchange
<1>3. Exchange(c)'
  BY <1>1, <1>2, Tags DEF Exchange
<1>4. ReadInv(c)' /\ DoneInv(c)'
  BY <1>1 DEF ReadInv, Undisturbed, DoneInv, Items
<1> QED
  BY <1>3, <1>4 DEF PeerInv

(* The blocks fit together *)
LEMMA BlockTaken ==
    ASSUME TypeOK, NEW c \in Peers, PeerInv(c), TakeBlock(c)
    PROVE  PeerInv(c)'
<1>1. /\ phase[c] = "reading" /\ answer[c].what = "block" /\ answer[c] # None
      /\ got'[c] = got[c] \o Items(answer[c].from, answer[c].to)
      /\ disturbed' = disturbed
  BY Tags DEF TakeBlock, Good, Read, TypeOK
<1>2. Undisturbed(c) =>
         /\ boot = "up"
         /\ got'[c] = Items(0, answer[c].to) /\ Len(got'[c]) = answer[c].to
         /\ answer[c].to <= Len(list)
         /\ IF answer[c].last THEN answer[c].to = Len(list)
            ELSE Place(answer[c].block, answer[c].to)
  <2> SUFFICES ASSUME Undisturbed(c)
               PROVE  /\ boot = "up"
                      /\ got'[c] = Items(0, answer[c].to)
                      /\ Len(got'[c]) = answer[c].to
                      /\ answer[c].to <= Len(list)
                      /\ IF answer[c].last THEN answer[c].to = Len(list)
                         ELSE Place(answer[c].block, answer[c].to)
    OBVIOUS
  <2>1. /\ boot = "up" /\ got[c] = Items(0, Len(got[c])) /\ Coming(c)
    BY <1>1 DEF PeerInv, ReadInv
  <2>2. /\ answer[c].from = Len(got[c])
        /\ answer[c].to \in answer[c].from..Len(list)
        /\ IF answer[c].last THEN answer[c].to = Len(list)
           ELSE Place(answer[c].block, answer[c].to)
    BY <1>1, <2>1 DEF Coming
  <2>3. Len(got[c]) \in Nat /\ Len(list) \in Nat
    BY Moved DEF TypeOK
  <2> DEFINE a == Len(got[c])
             b == answer[c].to
  <2>4. a \in Nat /\ b \in Nat /\ a <= b /\ b <= Len(list)
    BY <2>2, <2>3
  <2>5. got'[c] = Items(0, a) \o Items(a, b)
    BY <1>1, <2>1, <2>2
  <2> HIDE DEF a, b
  <2>6. got'[c] = Items(0, b)
    BY <2>4, <2>5, ItemsJoin
  <2>7. Len(Items(0, b)) = b
    BY <2>4, ItemsJoin
  <2> QED
    BY <2>1, <2>2, <2>4, <2>6, <2>7 DEF b
<1>3. CASE answer[c].last
  <2>1. Finish(c)
    BY <1>3 DEF TakeBlock
  <2>2. ~disturbed'[c] => got'[c] = Items(0, Len(list))
    BY <1>1, <1>2, <1>3 DEF Undisturbed
  <2> QED
    BY <1>1, <2>1, <2>2, FinishKeeps
<1>4. CASE ~answer[c].last
  <2>1. Ask(c, NextBlock(answer[c].block)) /\ phase' = phase
    BY <1>4 DEF TakeBlock
  <2>2. Exchange(c)' /\ answer'[c] = None /\ asked'[c] = NextBlock(answer[c].block)
    <3>1. /\ NextBlock(answer[c].block) \notin {None, Get, AARQ, RLRQ}
          /\ NextBlock(answer[c].block).what = "next"
      BY Tags
    <3> QED
      BY <1>1, <2>1, <3>1, AskKeeps
  <2>3. UNCHANGED <<list, blockIndex, transaction, boot>>
    BY <2>1 DEF Ask, setup, settings, disk
  <2>4. asked'[c] # Get /\ asked'[c].block = answer[c].block
    BY <2>2, Tags
  <2>5. ReadInv(c)'
    <3> SUFFICES ASSUME Undisturbed(c)' PROVE ReadInv(c)'
      BY DEF ReadInv
    <3>1. Undisturbed(c)
      BY <1>1, <2>1 DEF Undisturbed
    <3>2. Place(asked[c].block, Len(got[c]))'
      BY <1>2, <1>4, <2>3, <2>4, <3>1 DEF Place
    <3>3. Coming(c)'
      BY <2>2, Tags DEF Coming
    <3> QED
      BY <1>2, <2>3, <2>4, <3>1, <3>2, <3>3 DEF ReadInv, Items
  <2>6. DoneInv(c)'
    BY <1>1, <2>1 DEF DoneInv
  <2> QED
    BY <2>2, <2>5, <2>6 DEF PeerInv
<1> QED
  BY <1>3, <1>4

LEMMA PeerKeeps ==
    ASSUME TypeOK, NEW c \in Peers, PeerInv(c), PeerStep(c)
    PROVE  PeerInv(c)'
<1>1. DOMAIN phase = Peers /\ DOMAIN answer = Peers /\ DOMAIN asked = Peers
      /\ DOMAIN request = Peers /\ DOMAIN got = Peers
  BY DEF TypeOK
(* the peer asks for something else than the list *)
<1>2. ASSUME NEW r, Ask(c, r),
             \/ r = AARQ /\ Becomes(c, "associating")
             \/ r = RLRQ /\ Becomes(c, "releasing")
      PROVE  PeerInv(c)'
  <2>1. phase'[c] = (IF r = AARQ THEN "associating" ELSE "releasing")
    BY <1>1, <1>2, Tags DEF Becomes
  <2>2. Exchange(c)'
    BY <1>2, <2>1, AskKeeps, Tags
  <2> QED
    BY <1>2, <2>1, <2>2, Tags DEF PeerInv, ReadInv, Undisturbed, DoneInv
<1>3. CASE Associate(c) \/ Reassociate(c)
  BY <1>2, <1>3 DEF Associate, Reassociate
<1>4. CASE Release(c)
  BY <1>2, <1>4 DEF Release
<1>5. CASE ReadAgain(c) \/ Associated(c)
  BY <1>5, ListAsked DEF ReadAgain, Associated
<1>6. CASE TakeBlock(c)
  BY <1>6, BlockTaken
<1>7. CASE TakeWhole(c)
  <2>1. phase[c] = "reading" /\ answer[c] = Whole /\ Finish(c) /\ disturbed' = disturbed
        /\ got'[c] = got[c] \o Items(0, Len(list))
    BY <1>1, <1>7 DEF TakeWhole, Read
  <2>2. ~disturbed[c] => got[c] = << >>
    BY <2>1 DEF PeerInv, Exchange, ReadInv, Undisturbed
  <2>3. << >> \o Items(0, Len(list)) = Items(0, Len(list))
    BY Moved, ItemsType
  <2> QED
    BY <2>1, <2>2, <2>3, FinishKeeps, Tags
<1>8. CASE Retry(c)
  <2>1. /\ phase[c] \in {"associating", "reading"} /\ Ask(c, asked[c])
        /\ UNCHANGED <<phase, got, disturbed>>
    BY <1>8 DEF Retry
  <2>2. asked[c] # None
    BY <2>1, Tags DEF PeerInv, Exchange
  <2>3. Exchange(c)' /\ answer'[c] = None /\ asked'[c] = asked[c]
    BY <2>1, <2>2, AskKeeps DEF PeerInv, Exchange
  <2>4. UNCHANGED <<list, blockIndex, transaction, boot>>
    BY <2>1 DEF Ask, setup, settings, disk
  <2>5. ReadInv(c)'
    BY <2>1, <2>3, <2>4, Tags DEF PeerInv, ReadInv, Undisturbed, Place, Coming, Items
  <2>6. DoneInv(c)'
    BY <2>1 DEF DoneInv
  <2> QED
    BY <2>3, <2>5, <2>6 DEF PeerInv
<1>9. CASE Released(c)
  <2>1. /\ phase[c] = "releasing" /\ phase'[c] = "off" /\ answer'[c] = None
        /\ asked'[c] = None /\ request'[c] = request[c] /\ answer[c] # None
    BY <1>1, <1>9 DEF Released, Becomes, Come
  <2>2. request[c] = None
    BY <2>1 DEF PeerInv, Exchange
  <2>3. Exchange(c)'
    BY <2>1, <2>2, Tags DEF Exchange
  <2> QED
    BY <2>1, <2>3 DEF PeerInv, ReadInv, Undisturbed, DoneInv
<1> QED
  BY <1>3, <1>4, <1>5, <1>6, <1>7, <1>8, <1>9 DEF PeerStep, Proceed

(* A peer puts together the object list, and all of it.                    *)
THEOREM ReadsAreWhole == Spec => []ReadIsWhole
<1>1. Init => BlockInv
  <2> SUFFICES ASSUME Init, NEW c \in Peers PROVE PeerInv(c)
    BY DEF BlockInv
  <2>1. /\ phase[c] = "off" /\ asked[c] = None /\ request[c] = None
        /\ answer[c] = None
    BY DEF Init
  <2> QED
    BY <2>1, Tags DEF PeerInv, Exchange, ReadInv, DoneInv, Undisturbed
<1>2. TypeOK /\ BlockInv /\ [Next]_vars => BlockInv'
  <2> SUFFICES ASSUME TypeOK, BlockInv, [Next]_vars, NEW p \in Peers
               PROVE  PeerInv(p)'
    BY DEF BlockInv
  <2>1. \A c \in Peers : PeerInv(c)
    BY DEF BlockInv
  <2>2. ASSUME NEW c \in Peers, PeerStep(c) PROVE PeerInv(p)'
    <3>1. CASE p = c
      BY <2>1, <2>2, <3>1, PeerKeeps
    <3>2. CASE p # c
      BY <2>1, <2>2, <3>2, PeerLeavesServer, PeerLeavesOther, OtherPeer
    <3> QED
      BY <3>1, <3>2
  <2>3. CASE UNCHANGED vars
    BY <2>1, <2>3, OtherPeer DEF vars, setup, settings, disk, peers
  <2> QED
    BY <2>1, <2>2, <2>3, NextSteps, ServeKeeps, DiskKeeps, FaultKeeps
<1>3. BlockInv => ReadIsWhole
  BY DEF BlockInv, PeerInv, ReadInv, DoneInv, Undisturbed, ReadIsWhole
<1> QED
  BY <1>1, <1>2, <1>3, TypeCorrect, PTL DEF Spec
=============================================================================
