# Verification of ZS-DMG

ZS-DMG is the firmware of a cellular gateway for electricity meters. It runs on a Linux modem and does two jobs at once:

- it is a **gateway**: a management centre (MDM) sends DLMS requests over TCP, the gateway passes them to an HDLC meter on an RS-485 line and returns the meter's answers;
- it is a **DLMS/COSEM server** of its own: it has a clock, event logs, push set-ups, an image transfer object and so on, and answers requests for them on the same TCP connections and on an optical port.

Everything runs in one process of about a dozen POSIX threads that share global structures without a single lock. This directory holds TLA+ models of the parts with that kind of control, the TLC configurations that check them, and TLAPS proofs. Paths below are relative to the repository; `DLMS_Gateway.c`, `connection.c`, `exampleserver.c` and `Tools.c` are in `src/src/` of the checkout the models refer to.

## Inventory

| component | where | state | operations | properties that make it correct | modelled in |
|---|---|---|---|---|---|
| gateway thread | `DLMS_Gateway.c` `GW_Run`, convertors | `GW_State`, `RLRQ_flag`, copies of request and answer, RRR/SSS, `timeout_start`; globals `Segment_bit`, the segment buffer | one pass of `while(1)` per state; six convertors | one answer per request, its own; meter reached only with checked addresses; disconnect only on release; always back to waiting | `Gateway`, `Exchange` |
| RS-485 threads | `connection.c` 843-947 | mailbox `rs485.buffer` | read, write | no frame lost or wiped between the threads | `MeterLink` |
| TCP client | `connection.c` 245-508 | `Connected`, `Opened`, `Socket_fd`, inactivity timer | open, connect, drop, receive, send, push | flag never set without a connection; ends connected; no session survives its connection | `TcpClient` |
| socket mailbox | `lnWrapper.buffer` | RX, TX and their counts | written by the gateway, the COSEM server of two peers and push; read by `Socket_Send_Thread` | an answer goes to who asked, whole, in order; none is overwritten | `MdmMailbox` |
| TCP server | `connection.c` 510-692 | `Socket_Listen_fd`, `Accept_fd`, `Connected` | accept, receive, close | who connects is served | `MdmMailbox` |
| optical port | `connection.c` 745-971, `server.c` `svr_handleRequest4`, `dlms.c` and `dlmsSettings.c` HDLC part | baud rate, `newBaudRate`, `connected`, `receivedData`; frame numbers, a transaction | sign-on, acknowledgement, frame, junk, inactivity; SNRM, I, RR, DISC | both ends have the same rate; the port is back at 300 baud between sessions; who signs on is served; no request handled twice | `OpticalPort`, `HdlcLink`, `HdlcSession` |
| clock arithmetic | `connection.c` 1292-1315 | - | `diff_time_ms`, `diff_time_s` | time-outs neither early nor late | `DiffTime` |
| profile buffers | `exampleserver.c` 452-719, 3170-3209, 3466-3577 | ring file of each log, `entriesInUse`, `profileEntries`, `captureObjects` in memory and in `settings.raw` | capture, clear, write of columns, restart, read | the ring holds the newest rows; the count is that of the rows | `ProfileBuffer` |
| range search | `exampleserver.c` 2724-2840 | - | one loop | exactly the rows of the range | `RingSearch` |
| settings store | `exampleserver.c` 423-449, 2200-2280, 3564-3573; `gxserializer.c` `ser_saveObjects`, `ser_loadObjects` | `settings.raw`, the objects, open descriptors | save, load, global reset, rejected write | survives a power failure; a rejected write is undone | `SettingsStore` |
| security store | `exampleserver.c` 2256-2330 | `security.raw`, keys | saved on release and inactivity | - | no |
| session, session persistence | `server.c`, `gxget.c`, `exampleserver.c` `srv_Save`, `srv_Load` | `dlmsServerSettings` of both TCP peers: `connected`, `clientAddress`, `blockIndex`, the transaction; `svr.RAW` | associate, read in blocks, release; saved after each request of one peer, loaded at start | a list read in blocks is whole; nothing an old session leaves keeps a peer from reading | `BlockRead` |
| push | `sendPush`, push set-ups | shared cipher settings | build and queue messages | - | as a writer of the mailbox |
| real-time clock, calendar | `connection.c` 1412-1478, `time_now`, `svr_postWrite`, `Tools.c` `M2Sh`, `SH2M`, `main.c` | DS1307, `DS1307_Str`, the system clock | read, write, start; conversions | a date reads back as it was written and counted on; the two clocks agree | `RealTimeClock` |
| image transfer | `svr_preAction` 3324-3443 | image file, block bitmap | initiate, block, verify, activate | only a verified image is activated | no |
| association, access rights | `svr_isTarget`, `svr_validateAuthentication`, access tables | association objects | - | - | the session only (`BlockRead`) |
| start-up, mobile network, logging | `main.c`, `connection.c`, `Tools.c` | - | vendor calls and fixed waits, `report` | - | order of the start in `SettingsStore` |
| DLMS library, modem SDK | `src/development`, `src/DMG-SDK` | third-party | - | - | HDLC, serializer, reads in blocks |

**How they interact.** Receiver threads copy octets into a mailbox and raise its count in a second step; `GW_Run` polls the count. Answers go into the TX half of a mailbox, which a sender thread polls, writes, logs and clears. `Connected`, `Opened` and `Socket_fd` are set by three threads. The COSEM server is called from whichever thread received the request, both TCP peers' in one `dlmsServerSettings`. Captures and settings are separate files, written at separate moments. Every thread that serves a client reads and sets the clock through the global `DS1307_Str`.

**What is hard.** Time-outs tested before the mailbox in the same pass; answers that come after the time-out; lost and damaged frames; frame numbers on two half-duplex lines; globals that outlive an exchange; two-step mailbox updates; a `recv` that ends on a socket already replaced; a system call that fails and whose result is not looked at; a rate changed after the reply was written; a power failure between two files or in the middle of one; a rejected write that was saved before it was rejected; a long read whose block index, transaction and association are the other peer's, or those of the session before a restart; ring indices at the wrap; leap years of two calendars. `PROJECT.json` lists each hazard at its line with the properties that would catch it.

## Modules

| module | models | remarks |
|---|---|---|
| `Exchange` | what the MDM is promised: one request served at a time, an answer only for the request being served | abstract specification |
| `Gateway` | `GW_Run`, its convertors and both mailboxes, in an environment that may read any frame and any request at any time | implements `Exchange` |
| `MeterLink` | `Gateway` composed with the two RS-485 threads, a half-duplex line with faults, a meter and an MDM with a script | `Gateway` with its environment filled in |
| `TcpClient` | manage, receive and send threads of the client connection | |
| `MdmMailbox` | the socket mailbox, its writers and its sender, the listening socket and the client connection as far as they decide who is served | |
| `SettingsStore` | `settings.raw` and the objects in memory | |
| `ProfileBuffer` | one profile object, its ring file, its attributes and `settings.raw` | |
| `RingSearch` | the loop of `getProfileGenericDataByRangeFromRingBuffer` | |
| `BlockRead` | the object list read in blocks by two peers, the session it is read in and `svr.RAW` | |
| `OpticalPort` | the optical port's rates, sign-on and sessions | |
| `HdlcSession` | what HDLC promises above its frames | abstract specification |
| `HdlcLink` | the frames of a session on the optical port, both ends | implements `HdlcSession` |
| `DiffTime` | `diff_time_ms`, `diff_time_s` under a clock that moves and is set | |
| `RealTimeClock` | the date in the DS1307, the system clock and the clients' calendar | |
| `MC*` | values of the constants for TLC | |
| `*Proofs` | theorems | those about `Gateway` are in `MeterLinkProofs`, those about `RingSearch` in `ProfileBufferProofs`, those about `DiffTime` and `RealTimeClock` in `ClockProofs`, those about `OpticalPort` and `TcpClient` in `ConnectionProofs` |

### Gateway

One action is one pass of the `while(1)` that does something; an idle pass is a stuttering step. Only `WAIT_FOR_GET_FRAME` takes three: it copies the octets of a request (`TakeOctets`), reads the count again (`TakeCount`) and clears it (`WaitForGetFrame`), and the receiver may write between any two. A memcpy is one step; so are the copy of an answer of the meter and the clearing of its count, since a count raised in between is cleared before anything is sent, whichever came first. `SnrmRequest`, `SnrmResponse`, `InformationFrame`, `Response`, `Segment`, `SetSegmentation`/`RejectFrame`/`AcceptFrame`, `DiscRequest` and `DiscResponse` are the cases of the `switch`. A request keeps the kind of its APDU, the verdict of the address tests (bad length, or a logical address over 16383) and an identity. A frame keeps what the convertor tests: start flag and format, segmentation bit, everything else up to the header check sequence, and its payload. Of a payload the convertor drops the first three octets, which it takes for an LLC header: only the first segment of an answer has one, so `Octets` says whether a piece is whole, and `cut` in `Reply` that an answer assembled from segments is short of its last three. The memcpy of `HES_Frame` in the convertor is longer than TX and overwrites the rest of the mailbox; the model clears that part too, since the code does. RRR and SSS are uninitialised stack memory until the first SNRM (`StackSeq`).

The receivers' copy and count are separate actions (`MdmCopy`/`MdmCount`, `LineCopy`/`LineCount`), so that every overlap with `GW_Run` is explored. A `read()` that fails leaves -1 in the unsigned `RX_Count` (`LineError`, `TooMany`): where only the count is tested it passes for an answer, and where the answer is copied the memcpy runs out of the memory of the process, which ends (`ResponseFaults`, state `KILLED`).

### MeterLink

`LineWrite`/`LineWritten` are `write()` and `TX_Count = 0` after the logging in between. The meter is an HDLC secondary station with a window of one frame: it answers I-frames in sequence, repeats or continues on RR, and answers anything else with a bare frame. A *scenario* is a script of requests, the segments of each answer and the faults that may happen: loss, damage, `read()` returning half a frame or an error, an answer after the time-out, an answer before `TX_Count = 0`, an MDM that does not wait. Meter, line and MDM are external.

### TcpClient

Each thread's "test `Connected`, then use `Socket_fd`" is two steps, and so is the manager's test of the inactivity timer and the flag it lowers then (`FindIdle`, `DropIdle`). A `recv` under way belongs to the socket it was called on and returns when that is shut down, before or after the manager has connected the next one. `assoc` says whether the COSEM association was made on the present connection or an earlier one. Both protocol versions (`Settings.MDM`) and both dispositions of SIGPIPE the process may inherit are initial states, as the code sets neither.

### ProfileBuffer

`settings.raw` (`saved`) and the ring file (`fileLen`, `index`, `slots`) are updated in separate steps of a handler (`step` says which is next); `Restart` may come between any two. Three kinds of log are initial states: the event log that `updateState` writes, the fraud log whose file `svr_InitObjects` makes, and the standard event log that has no file before its columns are written; only the last two have writable columns in the access table. `Restart` and `PowerUp` together are one `svr_InitObjects`; the firmware calls it twice, which is two restarts. `log`, `captures`, `before` and `clean` are history variables.

### MdmMailbox

A message is the name of the request it answers. `TX` is the message whose octets the buffer holds and `TX_Count` the one whose length it holds; they differ only when writers meet. `Socket_Send_Thread` is a program counter over its two tests, its two `send` calls and the logging after them (`sender`); the threads of the two peers, the manager with its push and the gateway each put octets and count in two steps. A scenario says which peers come, what they ask, whether they are patient (slower than the logging of their last answer) and how many connections are lost. `ListenClosed` is the listening thread that goes on with `Accept_fd` closed and `Connected` true. A `send` on a connection the peer has closed ends the process unless SIGPIPE is ignored, which a scenario says, as the code does not (`SendKills`); a `socket()` that fails leaves the client without a connection for good (`SocketFails`). The gateway's copy of an answer, or of a segment of one, overruns `TX` and zeroes `RX` and both counts (`Overruns`).

### SettingsStore

A save is `OpenToSave` (truncate), `SaveVersion` (version and size 0), one `SaveObject` for each object, `SaveSize`, `SaveClose`; a load the same in the other direction, which stops at the end of the file, and saves the objects in memory when the file was empty. `Write` is an accepted or a rejected write; `WriteColumns` one of the capture objects of a profile, which `svr_postWrite` saves before it looks at the error, and then saves or loads (`due`); `ListItemFails` an item of a list that is refused and saved, as its error goes into the answer but not to `svr_postWrite`; `BlockWriteFails` one that fails after some blocks, `GlobalMeterReset` empties the file and loads it, `SessionSaved` is `srv_Save`, which needs a descriptor. `PowerFailure` may come at any step. `excuses` records what the code does not protect against (a save cut off, a descriptor missing, a block write that failed, two threads at the file at once), and each property names those it needs absent; `kept` names the objects whose rejected value the code has saved itself.

### BlockRead

`settings` is what the two peers share of `dlmsServerSettings`; a request is handled in one step, by the function of its kind (`HandleAARQ`, `HandleGet`, `HandleNext`, `HandleRelease`) or refused (`HandleOther`: another client address; `HandleRefused`: no association; `HandleInactive`: the session has timed out). `list` gives the octets each object takes; `Filled` is the loop of `getLNObjects`, which stops at the first object that is too much for the PDU, and `After` where its target stands then. The code never clears a transaction whose last block was sent, and the block index is moved even when there is none: both are in the model. `srv_Save` is `OpenFile` and `WriteFile`, before the answer goes out, after requests of the receive thread only; `srv_Load` is `ReadFile` and `Load`, between requests of both threads. `Restart`, `Disconnect`, `LateReset` (a broken connection noticed only when the next is in use), `Lose` and `HandleInactive` are the faults. The peers read block by block, send a request again when no answer comes, and associate again after an error or a block out of order; they are external. `disturbed` records that a read met the other peer's request or `srv_Load`.

### OpticalPort

The port reads a message at the rate it has (`Port`), replies, and changes its rate in a second step (`Update`): what comes in between is `Garbled`. Messages at another rate are junk that fills `receivedData`, or spoil a frame (`Spoilt`). In mode E a session starts with a sign-on at 300 baud; with `localPortSetup` in HDLC mode there is one rate only. Two timers are tested, each when a message comes, and each may have run out or not (`stale`, `timedOut`), any number of times: `frameReceived`, set at every message, after which `receivedData` is dropped, is cut to 16 bits of milliseconds and never reaches an `inactivityTimeout` of more than 65 s (`Reaches`); `dataReceived`, set when a message is handled, after which a request resets the session without a reply (`Request`) and a DISC is answered with DM (`Disc`). Without a session a request has the wrong number and gets no reply, a DISC gets DM. The client signs on, acknowledges, asks, disconnects, repeats, gives up or is unplugged; it is external.

### HdlcLink

`checkFrame`, `getNextSend`, `getReceiverReady`, `dlms_getHdlcFrame` and the parts of `dlms_getHdlcData` and `svr_handleRequest4` that decide about a frame. Frame numbers are counted before the check sequences are looked at (`Misread`, `TakeDamaged`), the rest of an answer is returned at each RR whatever its number (`GetNextFrame`), and numbers are counted once or twice there depending on whether a transaction was set (`flagged`, `transaction`). The client numbers its frames with the same functions of the library. `misled` records that a damaged frame has changed an end's numbers in a way no checksum undoes, or that the numbers, which count to 8, have come round: seven damaged repeats of a frame lead the server round to the number of one it has taken (`heard`), and eight frames that pass a client in the middle of an answer (`missed`) could bring it the number it waits for on a later part. An empty I-frame is marked by a part after the last (`NextPart`, `NoPart`), which the line carries as no data. `heard`, `sent` and `missed` are history: no guard of the code's looks at them, but `data` of a frame, which the code sends as octets, is compared with them.

### RealTimeClock

The chip is its three date registers, in BCD. `time_now` is `GetChip`, three `FillField` and three `CopyField` (M2Sh reads the fields it is given); `svr_postWrite` is three `PutField`, three `CopyField` (the argument of `DS1307_Set_Time` is passed by value), `SetChip`, and `Set_System_Date_Time`, which reads the chip back through `DS1307_Str`. `Midnight` moves the chip, the system clock and the history variable `today`, which holds the date clients should see, by the rules of the two calendars. `Restart` is `main`. `M2Sh` and `SH2M` are the integer arithmetic of `Tools.c`; a `for` loop that subtracts month lengths is the largest index whose sum fits (`DateIn`). Clients write any date the chip holds (`Held`), which is 1378/10/11 to the end of its hundred years. The chip starts on the first day of 1379, or is set by a client; its years have two digits, so midnight comes only up to the end of `LastYear`, at most 98.

### DiffTime, RingSearch

Direct translations; a loop iteration of the search is an action. In `DiffTime`, `SetClock` is `Set_System_Date_Time`, which sets the clock to a full second; `waited` is the time that has really passed and `shift` how far the clock was moved. The differences are of type `long`, 32 bits on the modem, and wrap (`Long`); `GW_Run` compares the one in milliseconds with a `uint32_t`, as unsigned numbers (`Unsigned`), `Socket_Manage_Thread` the one in seconds with a `uint16_t`, as signed ones.

## Runs

| run | checks | states |
|---|---|---|
| `gateway` | TypeOK, BufferInStep, AddressChecked, ReleaseOnly, ImplementsExchange | 3,395,024 |
| `meterlink` | AnswerInOrder, AnswerIsOwn, InStep, FreshAssociation, Recovers, EveryRequestAnswered | 370,261 |
| `tcpclient` | ConnectedIsConnected, FreshSession, Settles | 60,989 |
| `mailbox` | InOrder, MuteOnlyLater, AllAnswered | 557,348 |
| `store` | InSync, BootIsAllOrNothing | 2,666,512 |
| `profile` | TypeOK, NewestKept, InUseIsRows, NeverOvercounts | 2,336,297 |
| `ring_search` | RangeFound | 52,009 |
| `optical` | HomeBetweenSessions, SameRateInSession, EverySignOnServed | 3,414 |
| `hdlc` | Whole, ImplementsSession, EveryRequestAnswered | 813,136 |
| `difftime` | WithinASecond, SetBackEndsWait | 313,542 |
| `clock` | RightDay, ReadsBack, SystemAgrees, AnswerIsToday | 696,978 |
| `block_read` | ReadIsWhole, EveryReadEnds | 648,818 |

What the passing properties say, and where they stop:

- **ImplementsExchange** holds against *any* environment, the overwritten mailbox and a request that comes while one is being copied included.
- **AddressChecked** is about what follows the I-frame convertor. The SNRM tests the length of the address only: for a logical address over 16383 it has gone out before the I-frame convertor refuses.
- **Recovers** names the two ways the gateway can stop: a frame without the start flag and format octet sets no state in `RESPONSE_FOR_MDM`, so it is converted again for ever (`Stuck`), and the count of a failed `read()`, copied as an answer, ends the process.
- **AnswerInOrder**, **InStep** and **EveryRequestAnswered** are about scenarios without faults; **AnswerIsOwn** and **FreshAssociation** about scenarios in which frames are lost. AnswerIsOwn is about scripts whose answers take one frame each (`OneFrameEach`), and fails with segmented ones (departure 1 below). AnswerInOrder says that every segment is there, once and in order, and which are short: each after the first of three octets at its head, the whole of three at its end (departure 3). It is about scripts whose release is answered in one frame (`OneFrameRelease`): the rest of a longer one would be cut off by the DISC, and what came of it stay in the buffer and be put before the next answer. An answer so late that the next request was already sent is taken for the answer to that request; no text of the repository claims otherwise, so it is recorded as a hazard.
- **FreshSession** needs the new protocol, which resets the server when a connection ends, and that nothing arrives at the very moment its connection is being given up or written to (`straddled`); otherwise the two threads' resets may come in either order.
- **Settles** excepts two ends of the line the code has: a `socket()` that fails once leaves `Opened` false for ever, and SIGPIPE has no handler.
- **AllAnswered** excepts the same two ends (`Over`). **InOrder** and **AllAnswered** are about a peer served alone: with both peers connected, or a push, an answer may go to the wrong one or be put together from two. An impatient peer, whose next answer may come before `TX_Count = 0`, is only sure of its first. **MuteOnlyLater** says how far the failure of a `send` on an old connection reaches.
- **InSync** stops at the excuses above, and allows the file and the memory the rejected values that the code itself saves (`kept`), until they are written over: no other rejected value stays, and no later save takes one for settled; **BootIsAllOrNothing** needs only that the two threads do not write at a time. That the file is never found half new is due to the size, which stays 0 until the last object is written.
- **InUseIsRows** and **NeverOvercounts** hold until a column is refused or a handler is cut short (`clean`): a refused column takes back an entry that was not counted when the ring is full or empty of entries (`exampleserver.c` 714), even below zero. **NewestKept** needs no such condition.
- **HomeBetweenSessions** and **SameRateInSession** hold until a client leaves in the middle of a session in mode E or a session is cut off by the inactivity timer. **EverySignOnServed** allows that, and any number of late messages: the junk that clients send at the wrong rate fills `receivedData`, and the frame reject that follows takes the port home. It fills because the 16 bits of the first timer never reach the 180 s of `addIecHdlcSetup`; with an `inactivityTimeout` of 65 s or less, which a client may set, the junk may be dropped each time before the buffer is full (departure 14).
- **ImplementsSession** and **Whole** hold under lost, damaged and repeated frames, except that after a damaged frame has moved an end's numbers (`misled`) nothing is said of that session. **EveryRequestAnswered** excepts an answer in parts that is not longer than `maximumInfoLengthTransmit`.
- **ReadIsWhole** excepts a read that the other peer's request or `srv_Load` fell into (departure 12); everything before the read is allowed: an earlier read abandoned at any block, by either peer, a session brought back without its transaction. It rests on the reset of block index and transaction at each AARQ and GET. **EveryReadEnds** is about peers that use one client address (departure 13), as each shuts out the others.
- **WithinASecond**: the borrow is not taken from the seconds, so a time-out may come up to a second early, and never late, by the clock as it was set meanwhile. It says so as long as the difference stays in its range: 2^32 ms after the start of a wait of `GW_Run`, 2^31 s on either side of it for the connection. A clock set back behind the start of a wait of `GW_Run` is outside that range, and **SetBackEndsWait** says what comes of it: the negative difference is a large unsigned number, and the wait ends at once, without an answer, whatever has passed of it.
- **RightDay**, **AnswerIsToday** and **SystemAgrees** say nothing after a write that meets another thread at `DS1307_Str`; **ReadsBack** is about every date of the hundred years.

### Known departures

Statements of the repository that the code does not keep, met while modelling. The definitions are in the modules; each is shown by TLC in seconds to minutes as the only invariant or property of the configuration named, changed as described.

| | property | configuration | what TLC shows |
|---|---|---|---|
| 1 | `MeterLink!AnswerIsOwn` without `OneFrameEach` | `MCMeterLink.cfg` with `Scenarios <- StaleScenarios` | the segments of an answer that was given up are put in front of the next answer (`Segment_bit` and the buffer are reset only by an unsegmented frame after no segment; `DLMS_Gateway.c` 479) |
| 2 | `MeterLink!DamageIsCaught` | the same with `DamageScenarios` | a payload whose FCS is wrong is passed on: the comparison is replaced by `if(1)` |
| 3 | `MeterLink!AnswerIsWhole` | `MCMeterLink.cfg` | an answer in segments reaches the MDM without three octets of each later segment, skipped as if they were an LLC header (`last_byte+4`, `DLMS_Gateway.c` 623), and without its last three (671-672); the comment above the convertor calls it "Converting HDLC frame to GW Frame" |
| 4 | `DiffTime!DiffIsElapsed` | `MCDiffTime.cfg` | `diff_time_ms` is up to a second too large, and wraps |
| 5 | `ProfileBuffer!EventsCounted` | `MCProfileBuffer.cfg` | the count of the event log goes back to that of an earlier save: `updateState` never saves |
| 6 | `ProfileBuffer!RejectedChangesNothing` | `MCProfileBuffer.cfg` | rejected capture objects stay: they were saved before `e->error` was looked at |
| 7 | `SettingsStore!RejectedNotSaved` | `MCSettingsStore.cfg` | the same in the file, with one peer, and of a rejected item of a list (`exampleserver.c` 3571: "Reject changes loading previous settings if there is an error.") |
| 8 | `SettingsStore!UndoneNotSaved` | `MCSettingsStore.cfg` | a value rejected for one peer, which would be undone, is saved by the other |
| 9 | `SettingsStore!ResetIsDefault` | `MCSettingsStore.cfg` | the global meter reset empties `settings.raw` and loads it; the load finds it empty and saves what is in memory, so nothing is reset (`exampleserver.c` 3275: "Initialize data size so default values are used on next connection") |
| 10 | `HdlcLink!RestReturned` | `MCHdlcLink.cfg` with `MaxRequests = 3` | an answer in two parts that is not longer than `maximumInfoLengthTransmit` leaves the two ends out of step at its RR (`server.c` 3862: "Return rest of frame.") |
| 11 | `RingSearch!RangeFoundInRing` | `MCRingSearch.cfg` with `Buffers <- Turned` | in a ring that has wrapped the first index is one too small and the last spans rows outside the range (`exampleserver.c` 2717: "Find start index and row count using start and end date time.") |
| 12 | `BlockRead!ReadIsWhole` without `~disturbed[c]` | `MCBlockRead.cfg` | two peers that read at once are sent blocks of each other's transaction; and with `Disturb` without `boot # "up"` instead, `srv_Load` sets the block index back during a read, and a block with the number asked for holds other objects |
| 13 | `BlockRead!EveryReadEnds` without the condition on `Address` | `MCBlockRead.cfg` | a session left open, or brought back by `srv_Load`, shuts out a peer with another client address for good |
| 14 | `OpticalPort!EverySignOnServed` without `timeout = "long"` | `MCOpticalPort.cfg` | with a short `inactivityTimeout` junk is dropped again and again, the buffer never fills, and the port stays at the rate of a session that timed out |

Also seen, and in the models as the code has them where they matter: `readProfileGeneric` gives up exactly when `fopen` succeeds (2932), so `Read` never returns a row; a frame number is counted before the checksum is known (`dlms.c` 2989), and WRONG_CRC clears a half-received request (`server.c` 3805); the number of an RR is not checked, and a late RR yields an empty I-frame; a SET in blocks loses its first block; a transaction is never cleared after its last block (`server.c` 1679: `moreData` stays 1); `time_elapsed` measures the inactivity of a session in processor time; blocks written before a block write failed are not undone (`server.c` 1307); any write of the clock object, of whatever attribute, refused or not, sets the clock from `clock1.time` (`svr_postWrite` tests only the class); a reader of the clock that meets a writer may change what is sent to the chip. Outside the models: `unixTime` is computed from a Shamsi date, and a deviation other than 0 makes `time_toUTC` do Gregorian arithmetic on one (`date.c` 1524); `security.raw` is saved only on release and inactivity, and keys are overwritten from `Settings` at start.

### Bounds

- `gateway`: one request and one frame of each kind the code tells apart, one kept segment, a count of one request in RX. MaxSeq is 0 here, which keeps the wrap at every step and the state space small; `meterlink` counts with 1, the smallest number with which the two stations can be out of step. The theorems hold for all values.
- `meterlink`: five requests make a whole session (refused, associate, long answer, short answer, release); two faults are enough to lose an answer and the frame that would repair it.
- `tcpclient`: six upsets. One ends a connection, one makes its successor late, one ends that; the properties need no more.
- `mailbox`: two or three requests of one peer, so that an answer meets the logging of the one before and the one after; one or two upsets (a connection given up, a malformed frame, an unanswered request, a socket that is not made), with SIGPIPE ignored or not; both peers with one request each.
- `store`: two threads, two objects (a file may be cut between them), three writes, two power failures; five descriptors, of which three are the process's own, so that two loads that do not close use them up.
- `profile`: rings of two to four rows and five captures, so that the ring turns; UInt16 and UInt32 are scaled to 64 and 256, with the file smaller than the first as in the code.
- `ring_search`: up to five rows with repeated times and all ranges around them. `difftime`: starts at, before and after a full second; a long is scaled to 1200 values to each side, with time-outs of 700 ms and 1 s and waits of up to 2.6 s, so that the differences wrap.
- `optical`: room for five junk messages, three repetitions, four sessions, late messages without a bound: enough to fill `receivedData` with what several clients repeat at the wrong rate.
- `hdlc`: six requests of every size, so that the numbers, modulo 8 as in the code, wrap on both sides; two faults, two repetitions. Two faults cannot lead the numbers round; the theorems, for any number of faults, say what holds until they are (`misled`).
- `block_read`: a list in two or three blocks and one that is read whole, two sizes of a PDU; one peer with two reads and two faults, so that an abandoned read, a restart and a new one meet, or both peers with a read and one fault, with one client address or two.
- `clock`: every day of the chip's hundred years; two threads on the last day of a Gregorian year, when every field changes at midnight, and two writes, of that day, of a leap day of the clients' calendar and of the end of the hundred years.

Deadlock is not checked: each of these models ends when its bound is used up or the system has nothing to do.

### Fairness

Weak fairness of each thread (each polls in an endless loop with sleeps, so an enabled step is taken), of the meter and the line for what is already under way, and of the clock: a wait that is timed runs out. `MeterLink` also assumes the MDM goes on with its script. `TcpClient` assumes that a network that is down comes up again and that the inactivity timer runs on a dead connection, but not that anybody ever sends anything. `MdmMailbox` assumes that a peer with a connection asks the next question, `OpticalPort`, `HdlcLink` and `BlockRead` that a client that wants something goes on, repeats or gives up; none assumes a strong fairness. `OpticalPort` assumes nothing of when messages come: each may find either timer run out. No failure of a system call is fair: `read()`, `socket()` and `send` may fail, and need not. In `BlockRead` a lost request or answer is a fault, of which there are finitely many. `SettingsStore`, `ProfileBuffer`, `RingSearch`, `DiffTime` and `RealTimeClock` have safety properties only.

### Mutants

Each property has one plausible defect of the code that breaks it (operators marked `mutant`): a reset left out, a wrap dropped, a state that lingers, a count that goes on. `PROJECT.json` pairs them.

## Proofs

| theorem | argument |
|---|---|
| `MeterLinkProofs!TypeCorrect` | by cases on the action; RRR and SSS leave `StackSeq` only into 0..MaxSeq |
| `AddressesChecked`, `BufferIsInStep`, `DisconnectsOnlyOnRelease` | the first two are inductive as they stand; the last needs that `RLRQ_flag` agrees with the request served and is set whenever DISC_REQUEST is entered (`ReleaseInv`) |
| `GatewayImplementsExchange` | every step maps to Take, Answer, Abandon or Wipe, or to none |
| the theorems about `MeterLink` below | what the meter and `read()` put on the line are frames of `Frames` and what the gateway puts there are generated frames (`LinkInv`), so every step of the link is one of `Gateway` or of the variables it does not have: the lemma `LinkImplementsGateway` brings the invariants of `Gateway` to the link |
| `MeterLinkProofs!AssociationIsFresh` | on a line that only loses frames there is at most one frame under way, a command or an answer, and none when the gateway waits for none (`WireInv`, `LineInv`); so in SNRM_RESPONSE a frame that comes is the answer to the SNRM, and the meter has set its numbers to 0 since the gateway has (`FreshInv`) |
| `MeterLinkProofs!NumbersInStep` | InStep says what holds between exchanges; inside one the stations' numbers differ in a way that depends on what is under way. `NumberInv` says it for each state of the gateway: equal before a request is heard (`Even`), the gateway's RRR one behind while the answer is awaited (`Behind`), with the frames the meter still holds all valid and marked as segments but for the last (`Graded`). It needs that nothing but one exchange is on the line (`LineInv`), that the meter was connected by this session's SNRM (`FreshInv`), and that without faults every wait ends in an answer (`CalmInv`) |
| `MeterLinkProofs!AnswersAreOwn` | with losses the numbers may part, so this cannot rest on them. `OwnInv`: whatever frame is under way to the gateway, or kept by the meter to be repeated, is bare or the one frame of the answer to the request being served (`Single`), and the segment buffer is empty; the SNRM of each session and the single window of the meter keep an older one away. The request is one of the script (`PostInv`) |
| `MeterLinkProofs!AnswersInOrder` | `DataInv`: what the segment buffer holds is the first `Taken` payloads of the answer, each without its first three octets, what is on its way is the next (`Coming`) and the meter holds the rest in order (`Rest`); with `NumberInv`, by which no frame is repeated or refused, each segment is appended once |
| `ClockProofs!TimeoutsWithinASecond`, `SettingBackEndsWaits` | a time is split at the second and put together again; the borrow adds at most one second; `now - start = waited + shift` (`WaitInv`) takes care of a clock that is set. A number between two bounds `2 * LongLimit` apart is its own remainder, so inside the range the property names neither `Long` nor `Unsigned` changes the difference, and for a clock set back `Unsigned` adds `2 * LongLimit` to it |
| `ClockProofs!DayIsRight`, `WriteReadsBack` | every day of 2000/1/1 to 2099/12/31 is a number `e` with a date in each calendar, `AsGregorian(e)` and `AsShamsi(e)`. `M2Sh` and `SH2M` go from the one to the other (`OnTheDay`, `HeldDay`), and each calendar goes on by one day from `e` to `e + 1` (`GStep`, `SStep`, `TheNextDay`): the arithmetic of `Tools.c` is brought to cycles of 33 and 4 years, and the recursion in `Days` is used only through its equations (`DaysEquations`). `WriteReadsBack` follows from that alone; `DayIsRight` is not inductive, and needs what a writer is about to put into the chip: `ClockInv` |
| `ClockProofs!SystemFollows`, `AnswersToday` | `ClockInv` again: chip and clients are on the same day (`ChipOnDay`); the date a thread has read is today, or yesterday if midnight came meanwhile (`Reads`); a writer that has met nobody is alone, and readers that have met no writer have read the same date (`Apart`), so what `DS1307_Str` holds, field by field, is what such a thread wants there (`Strs`) and it copies no date of which half is another's |
| `ConnectionProofs!FlagIsRight` | inductive as it stands: only `Connect` raises the flag, and only `Reopen`, which lowers it, replaces the descriptor |
| `ConnectionProofs!SessionIsFresh` | FreshSession is not inductive: `SessionInv` adds that an association of an earlier connection exists only while the receive thread has still to end it, and that a request is handled only over a connection that still stands |
| `ProfileBufferProofs!RingKeepsNewest` | NewestKept is not inductive: `RingInv` adds that the `profileEntries` a restart would bring back are those in memory, or the ring is empty and its handler still under way |
| `ProfileBufferProofs!OnlyRowsCounted` | `CountInv` says the same of `entriesInUse` in `settings.raw` |
| `ProfileBufferProofs!CountIsRows` | the converse bound, that no row is missed: the file never grows beyond what the columns allow (`SizeStep`), and a capture that is counted is one row more or, when the ring is full, none (`CaptureOne`) |
| `SettingsStoreProofs!Synchronized` | the thread at the file is alone there (`TurnInv`) until two have met; what it has written so far is what is in memory (`SaverInv`, `FileInv`); what was rejected is in memory only while its load is still to come, or is among what the code saves itself (`SyncInv`) |
| `SettingsStoreProofs!AllOrNothing` | the size is in the file only when all objects are (`FileInv`), and the start reads what is there object by object (`BootInv`) |
| `ConnectionProofs!HomeRate`, `SessionRate` | the port alone is at the fast rate exactly when it is connected (`PortInv`); the message or answer under way belongs to what the client waits for (`ClientInv`), so a client that hears an answer knows the state of the port (`SignedOnInv`) |
| `MdmMailboxProofs!AnswersAreInOrder` | `OrderInv`, of a peer served alone: its request, and then the answer to it, is in one place at a time and is the one it waits for (`Places`, `One`); what is counted in TX is that answer, except while the last is being logged, when nothing reads the count (`Counted`); a new connection is made only when nothing is under way (`NewOnlyIdle`); what was received has serials that grow up to the last (`Received`) |
| `MdmMailboxProofs!FirstIsNeverMute` | a `send` that fails on the server's first connection has found it gone, and only a later one can come after it (`FirstHeard`) |
| `BlockReadProofs!ReadsAreWhole` | `BlockInv`, of a peer in an undisturbed read: if the block index is the one it will ask for and there is a transaction, that stands at the first object the peer has not got (`ReadInv`), and so does a block under way (`Coming`). What resets the index resets the transaction, but for `srv_Load`, which brings back an index when the restart has removed the transaction. The loop of `getLNObjects` is characterised by its result (`FilledIn`: between the start and the end of the list), from the maximum of a bounded set (`MaxOfBounded`, by well-founded induction over a fixed set) |
| `HdlcLinkProofs!RequestsWhole`, `SessionImplemented` | the two ends agree only through the frames under way, so `LinkInv` says what these are, as long as no end is misled. To the server: an I-frame is one it has taken, with the number `heard`, or carries the part it waits for (`ToServer`); the client is between requests, has sent a part the server has or awaits, or its request was handled, once (`Progress`). To the client: nothing of the answer, its first part, or the parts after those it has, the n-th with the number n ahead and each in order (`Answers`: `InTurn` while there is a transaction, by which the server sends a part for every RR; `OutOfTurn` without one, where its number jumps by two and nothing is taken again). That a number is not that of a part eight ahead is what the count of missed frames bounds. `Sessions` and `Opening`: an open session is one the server is in. `RequestsWhole` needs of this what is in info.data, `SessionImplemented` that a request is handled only when the client waits for it |
| `TypeCorrect` of `HdlcLinkProofs`, `ProfileBufferProofs` (also `SearchTypeCorrect`), `SettingsStoreProofs`, `MdmMailboxProofs`, `BlockReadProofs`; `ClientTypeCorrect` and `PortTypeCorrect` of `ConnectionProofs` | by cases |
| `ProfileBufferProofs!SearchIsRight` | the loop invariant: the indices delimit the rows of the range among those looked at |

The theorems assume only the `ASSUME`s of the modules (ranges of the constants, and in `MeterLink` that `Frames` holds what the meter may send), which TLC evaluates in every run.

**Only model-checked:** the liveness properties, because fairness and ENABLED are beyond the prover: `Recovers` and `EveryRequestAnswered` of the gateway's line, `Settles`, `AllAnswered`, `EverySignOnServed`, `EveryReadEnds`, and `EveryRequestAnswered` of the HDLC link. Every safety and action property and both refinements that a run checks are theorems.

What the HDLC theorems do not promise, they say by `misled`. Frame numbers count modulo 8 and are counted before the check sequence is known. Without the last line of `misled'` in `TakeDamaged`, one kind of request, `MaxRequests = 2`, `MaxSessions = 1`, `MaxTries = 8` and `MaxFaults = 8`, TLC finds that seven damaged repeats lead the server round, and that the next repeat of a request it has handled is taken for a new one; with fewer faults it finds no violation.

## Not modelled

- Octets, check-sum arithmetic and addresses of HDLC (verdicts only), ciphering, the encodings of attributes, SN referencing, SET in blocks and PLC in the DLMS library: third-party, and pure functions of their input. They are most of the lines of the repository, which is why the models, which follow its control, stand for a small share of them.
- Image transfer: the activation reads `imageActivateInfo` of the object, an array nothing in the firmware fills, and the verification compares with `IMAGE_ACTIVATE_INFO[0].size`, which nothing sets.
- Authentication, and the keys, challenges, titles and frame counters that `srv_Save` writes beside the fields of `BlockRead`.
- Two threads inside `svr_handleRequest2` at once, and two captures at once: both race in the code, and no statement of the repository about them holds or could be refuted.
- `security.raw`, the mobile network start-up and logging (vendor calls, fixed waits), object tables (filled from constants), times of day.
- `mainHajian.c` (not built); `Check_GW_Frame_Valid`, `PushSetup_OnConnectivity`, `getProfileGenericBufferEntriesInUse`, `DS1307_Time_Date_Correcting` (never called).

## Plan

1. `Exchange`, `Gateway`, `MeterLink`: the gateway, the program's main purpose. Done.
2. `DiffTime`, `TcpClient`: time-outs and the client connection. Done; a clock that is set, too.
3. `ProfileBuffer`, `RingSearch`: the logs. Done.
4. `MdmMailbox`: the socket mailbox with the listening thread. Done.
5. `SettingsStore`: `settings.raw`. Done; `security.raw` and the session file have no property that rests on this repository's code.
6. `OpticalPort`, `HdlcLink`: the optical port and its HDLC sessions. Done.
7. `RealTimeClock`: the date. Done.
8. `BlockRead`: the shared session. Done, with whole requests as steps.
9. Proofs: the gateway and its refinement, the client connection, the logs, the store, the optical port, the mailbox, the reads in blocks, the clocks and the HDLC link with its refinement. Done as listed above.
