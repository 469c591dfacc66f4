--------------------------- MODULE ProfileBuffer ---------------------------
(***************************************************************************)
(* One profile generic object of exampleserver.c: a ring of rows in a file *)
(* (the ring index in its first two octets), the attributes entriesInUse   *)
(* and profileEntries in memory, and their copy in settings.raw, which     *)
(* saveSettings writes and loadSettings reads at each start and after a    *)
(* rejected write.  A handler that changes the file and then the settings  *)
(* does so in separate steps: the power may fail between them.             *)
(*                                                                         *)
(* A row is the number of its capture, and whether all its columns were    *)
(* written.  The entry count captureProfileGeneric puts behind the index   *)
(* is never read and left out.                                             *)
(***************************************************************************)
EXTENDS Integers, Sequences, FiniteSetsExt

CONSTANTS
    Columns,          \* the lists of capture objects: their octets in a
                      \* row, and whether cosem_getValue may refuse one
    DefaultColumns,   \* those the object starts with
    FileSize,         \* octets of a new file (1024)
    UInt16, UInt32,   \* where a uint16_t and a uint32_t wrap (2^16, 2^32)
    MaxCaptures       \* bound: rows captured in a behaviour

ASSUME ColumnAssumption ==
    /\ \A c \in Columns : c.size \in Nat /\ c.refused \in BOOLEAN
    /\ DefaultColumns \in Columns /\ ~DefaultColumns.refused
ASSUME SizeAssumption ==
    /\ FileSize \in Nat \ 0..3 /\ MaxCaptures \in Nat
    /\ UInt16 \in Nat /\ FileSize < UInt16
    /\ UInt32 \in Nat /\ UInt16 < UInt32

VARIABLES
    object,    \* which object this is
    captureObjects, entriesInUse, profileEntries,   \* in memory
    saved,     \* settings.raw: those three
    fileLen,   \* octets of the ring file, 0: there is none
    index,     \* its ring index
    slots,     \* the rows written in it, by position
    step,      \* what the handler under way does next, "idle" if there is none
    reply,     \* the last answer to a read of the buffer
    log,       \* history: the rows captured since the last clear
    captures,  \* history: their number since the first start
    before,    \* history: the settings when the last write came
    clean      \* history: no column was refused, no handler cut short

memory == <<captureObjects, entriesInUse, profileEntries>>
file   == <<fileLen, index, slots>>
vars   == <<object, memory, saved, file, step, reply, log, captures, before,
            clean>>

(* updateState captures into the event log; svr_InitObjects counts the     *)
(* rows of the files of that and of the fraud log, which makes them        *)
Objects         == {"eventLog", "frauddetectionlog", "standardeventlog"}
IsEventLog      == object = "eventLog"
AllocatedAtInit == object # "standardeventlog"

Settings == [columns |-> captureObjects, inUse |-> entriesInUse,
             entries |-> profileEntries]

Steps == {"start", "idle", "save", "clear", "clearRejected", "reload"}

-----------------------------------------------------------------------------
(* getProfileGenericBufferMaxRowCount: a file that is not there is made *)
Allocated(len) == IF len = 0 THEN FileSize ELSE len

MaxRowCount(len, columns) ==
    IF columns.size = 0 THEN 0
    ELSE (((len % UInt16) - 4) % UInt16) \div columns.size

SkipSave     == UNCHANGED saved   \* mutant: no saveSettings
saveSettings == saved' = Settings

loadSettings ==
    /\ captureObjects' = saved.columns
    /\ entriesInUse'   = saved.inUse
    /\ profileEntries' = saved.entries

(* the ring index after a capture that left n entries in use; without any  *)
(* profileEntries the two octets of the count end up in its place          *)
StopsWhenFull(n) ==   \* mutant: the last slot is written again and again
    IF profileEntries = 0 THEN n % UInt16
    ELSE IF index + 1 = profileEntries THEN index ELSE index + 1
IndexAfter(n) ==
    IF profileEntries = 0 THEN n % UInt16 ELSE (1 + index) % profileEntries

CountsOn == (entriesInUse + 1) % UInt32   \* mutant: also when it is full
Counted ==
    IF entriesInUse = profileEntries THEN entriesInUse
    ELSE (entriesInUse + 1) % UInt32

TakenBelowZero(n) == n - 1   \* mutant: a signed count
Taken(n) == (n - 1) % UInt32

Slot == IF profileEntries = 0 THEN 0 ELSE index % profileEntries

(* captureProfileGeneric.  When a column is refused the row stays as it is *)
(* and the index moves on, but entriesInUse is taken back.                 *)
captureProfileGeneric ==
    IF fileLen = 0 THEN UNCHANGED <<memory, file, log, captures, clean>>
    ELSE \E whole \in {TRUE, ~captureObjects.refused} :
         LET row == [id |-> captures + 1, whole |-> whole]
         IN  /\ captures < MaxCaptures
             /\ captures' = captures + 1
             /\ entriesInUse' = IF whole THEN Counted ELSE Taken(Counted)
             /\ index' = IndexAfter(Counted)
             /\ slots' = [slot \in DOMAIN slots \cup {Slot} |->
                              IF slot = Slot THEN row ELSE slots[slot]]
             /\ fileLen' = Max({fileLen, 4 + (Slot + 1) * captureObjects.size})
             /\ log' = Append(log, row)
             /\ clean' = (clean /\ whole)
             /\ UNCHANGED <<captureObjects, profileEntries>>

-----------------------------------------------------------------------------
Init ==
    /\ object \in Objects
    /\ captureObjects = DefaultColumns
    /\ entriesInUse = 0
    /\ fileLen = IF AllocatedAtInit THEN FileSize ELSE 0
    /\ profileEntries = IF AllocatedAtInit THEN MaxRowCount(FileSize, DefaultColumns)
                        ELSE 0
    /\ saved = Settings
    /\ index = 0 /\ slots = [slot \in {} |-> 0]
    /\ step = "start"
    /\ reply = "none"
    /\ log = <<>> /\ captures = 0
    /\ before = Settings
    /\ clean = TRUE

(* the end of svr_InitObjects: the event log alone records the power-up *)
PowerUp ==
    /\ step = "start"
    /\ step' = "idle"
    /\ IF IsEventLog THEN captureProfileGeneric
       ELSE UNCHANGED <<memory, file, log, captures, clean>>
    /\ UNCHANGED <<object, saved, reply, before>>

(* the process ends; the next one has loaded settings.raw *)
Restart ==
    /\ loadSettings
    /\ step' = "start"
    /\ reply' = "none"
    /\ clean' = (clean /\ step \in {"idle", "start"})
    /\ UNCHANGED <<object, saved, file, log, captures, before>>

(* updateState for a push, a relay or a new time; settings are not saved *)
updateState ==
    /\ step = "idle" /\ IsEventLog
    /\ captureProfileGeneric
    /\ UNCHANGED <<object, saved, step, reply, before>>

(* handleProfileGenericActions, method 1 and method 2 *)
ClearFile ==
    /\ index' = IF fileLen = 0 THEN index ELSE 0
    /\ log' = <<>>

Clear ==
    /\ step = "idle"
    /\ entriesInUse' = 0
    /\ ClearFile
    /\ step' = "save"
    /\ UNCHANGED <<object, captureObjects, profileEntries, saved, fileLen, slots,
                   reply, captures, before, clean>>

Capture ==
    /\ step = "idle"
    /\ captureProfileGeneric
    /\ step' = "save"
    /\ UNCHANGED <<object, saved, reply, before>>

Save ==
    /\ step = "save"
    /\ saveSettings
    /\ step' = "idle"
    /\ UNCHANGED <<object, memory, file, reply, log, captures, before, clean>>

-----------------------------------------------------------------------------
(* svr_postWrite of the capture objects.  The value is set before, and of  *)
(* one that is rejected the columns in front of the error; both are saved. *)
Set(columns, next) ==
    /\ step = "idle" /\ ~IsEventLog
    /\ before' = Settings
    /\ captureObjects' = columns
    /\ entriesInUse' = 0
    /\ saved' = [columns |-> columns, inUse |-> 0, entries |-> profileEntries]
    /\ log' = <<>>
    /\ step' = next
    /\ UNCHANGED <<object, profileEntries, file, reply, captures, clean>>

SetColumns(columns)    == Set(columns, "clear")
RejectColumns(columns) == Set(columns, "clearRejected")

(* ... then the buffer is cleared, the settings are saved again, and the   *)
(* rows that fit are counted                                               *)
ClearAndCount ==
    /\ step \in {"clear", "clearRejected"}
    /\ ClearFile
    /\ saveSettings
    /\ fileLen' = Allocated(fileLen)
    /\ profileEntries' = MaxRowCount(Allocated(fileLen), captureObjects)
    /\ step' = IF step = "clear" THEN "save" ELSE "reload"
    /\ UNCHANGED <<object, captureObjects, entriesInUse, slots, reply, captures,
                   before, clean>>

Reload ==
    /\ step = "reload"
    /\ loadSettings
    /\ step' = "idle"
    /\ UNCHANGED <<object, saved, file, reply, log, captures, before, clean>>

(* svr_postWrite of another object *)
WriteOther ==
    /\ step = "idle"
    /\ saveSettings
    /\ UNCHANGED <<object, memory, file, step, reply, log, captures, before,
                   clean>>

RejectOther ==
    /\ step = "idle"
    /\ loadSettings
    /\ UNCHANGED <<object, saved, file, step, reply, log, captures, before,
                   clean>>

(* scriptTableGlobalMeterReset: settings.raw is emptied, and loadSettings  *)
(* saves what is in memory when it finds it empty                          *)
GlobalMeterReset ==
    /\ step = "idle"
    /\ saveSettings
    /\ IF IsEventLog THEN captureProfileGeneric
       ELSE UNCHANGED <<memory, file, log, captures, clean>>
    /\ UNCHANGED <<object, step, reply, before>>

(* readProfileGeneric of all rows.  It gives up when fopen returns a file; *)
(* without one it would know no row size and give up as well.              *)
Read ==
    /\ step = "idle"
    /\ \/ entriesInUse = 0 /\ reply' = "empty"
       \/ entriesInUse # 0 /\ reply' = "failed"
    /\ UNCHANGED <<object, memory, saved, file, step, log, captures, before,
                   clean>>

Next ==
    \/ PowerUp \/ Restart \/ updateState
    \/ Clear \/ Capture \/ Save
    \/ \E columns \in Columns : SetColumns(columns) \/ RejectColumns(columns)
    \/ ClearAndCount \/ Reload
    \/ WriteOther \/ RejectOther \/ GlobalMeterReset \/ Read

Spec == Init /\ [][Next]_vars

-----------------------------------------------------------------------------
(* Properties *)

Rows        == [id : Nat, whole : BOOLEAN]
AllSettings == [columns : Columns, inUse : Nat, entries : Nat]

(* The values of the variables; step names the rest of a handler.          *)
TypeOK ==
    /\ object \in Objects /\ clean \in BOOLEAN
    /\ captureObjects \in Columns
    /\ entriesInUse \in Nat /\ profileEntries \in Nat
    /\ saved \in AllSettings
    /\ fileLen \in Nat /\ index \in Nat
    /\ \A slot \in DOMAIN slots : slot \in Nat /\ slots[slot] \in Rows
    /\ step \in Steps
    /\ reply \in {"none", "empty", "failed"}
    /\ before \in AllSettings
    /\ log \in Seq(Rows) /\ captures \in Nat

(* The ring holds the newest rows: going back from the index, as many as   *)
(* it has room for, each in its place, through restarts in the middle of a *)
(* handler, refused columns, clears and rejected writes.                   *)
NewestKept ==
    \A k \in 1..Len(log) : k <= profileEntries =>
        LET slot == (index - k) % profileEntries
        IN  slot \in DOMAIN slots /\ slots[slot] = log[Len(log) + 1 - k]

(* entriesInUse counts the rows captured since the last clear "until       *)
(* buffer is full" (captureProfileGeneric), although the rows are kept in  *)
(* one file and the count in memory and in another.  Once a column was     *)
(* refused or a handler cut short the code makes no such promise.          *)
RowsCounted ==
    step = "idle" /\ clean => entriesInUse = Min({Len(log), profileEntries})

InUseIsRows == ~IsEventLog => RowsCounted

(* The same for the event log (the comment of captureProfileGeneric makes  *)
(* no exception for it).                                                   *)
EventsCounted == IsEventLog => RowsCounted

(* entriesInUse never counts a row that was not captured since the last    *)
(* clear, whichever older settings.raw a restart or a rejected write has   *)
(* brought back, in any of the logs.                                       *)
NeverOvercounts ==
    clean => entriesInUse <= Len(log) /\ entriesInUse <= profileEntries

(* A write that is rejected leaves the settings as they were               *)
(* (svr_postWrite: "Reject changes loading previous settings if there is   *)
(* an error").                                                             *)
RejectedChangesNothing == [][Reload => Settings' = before]_vars
=============================================================================
