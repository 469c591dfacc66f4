-------------------------- MODULE SettingsStore --------------------------
(***************************************************************************)
(* The attributes of the COSEM objects and settings.raw, where they        *)
(* survive a restart (exampleserver.c, with the serializer of the DLMS     *)
(* library).  The threads of the two TCP peers write attributes in memory  *)
(* and then save all objects, or load them again when the write was        *)
(* rejected; nothing keeps one thread out while the other is at the file.  *)
(* Two kinds of rejected value are saved all the same: the capture objects *)
(* of a profile, which svr_postWrite saves before it looks at the error,   *)
(* and an item of a list, whose error it is not given.                     *)
(*                                                                         *)
(* The file is a version octet, a size and the objects one after the       *)
(* other.  A save truncates it, writes the version with size 0, the        *)
(* objects as they are in memory at that moment, and the size at last.     *)
(* Each of these is a step, so that a power failure or the other thread    *)
(* may come between any two.  Zero octets left by a truncation under a     *)
(* writer are a hole.                                                      *)
(***************************************************************************)
EXTENDS Naturals, FiniteSets

CONSTANTS
    Threads,        \* TCP peers that write: {"client"}, {"server"} or both
    LastObject,     \* ALL_OBJECTS is 1..LastObject, in this order
    Values,         \* of an attribute, as a client may set it
    Default,        \* as svr_InitObjects does
    Files,          \* descriptors the process may have open
    MaxWrites,      \* bound: requests that write
    MaxCrashes      \* bound: power failures

Objects  == 1..LastObject
Bad      == "bad"       \* what a rejected write leaves in memory
Hole     == "hole"
Contents == Values \cup {Default, Bad, Hole}

ASSUME ThreadAssumption == Threads \subseteq {"client", "server"} /\ IsFiniteSet(Threads)
ASSUME BoundAssumption ==
    LastObject \in Nat \ {0} /\ Files \in Nat /\ Files > 2 /\ MaxWrites \in Nat /\ MaxCrashes \in Nat
ASSUME ValueAssumption == Bad \notin Values \cup {Default} /\ Hole \notin Values \cup {Default}

VARIABLES
    memory,     \* the attribute of each object
    file,       \* settings.raw: version written, size written, objects
    at,         \* what each thread does next: "main" is Servers_Start
    pos,        \* the object it has reached in its loop
    due,        \* what svr_postWrite does after the save a thread is at:
                \* "save", "load" or "none"
    free,       \* descriptors left
    boots,      \* svr_InitObjects called since the start: 0, 1 or 2
    last,       \* history: the memory of the save begun last
    excuses,    \* history: what has happened that spoils the file: "cut", the
                \* process stopped in a save; "refused", fopen failed for lack
                \* of descriptors; "block", a write in blocks failed; "met",
                \* two threads wrote at a time
    kept,       \* history: the objects whose rejected value has been saved
    reset,      \* history: a global meter reset, and no write since
    writes, crashes

history == <<last, excuses, kept, reset>>
bounds  == <<writes, crashes>>
vars    == <<memory, file, at, pos, due, free, boots, history, bounds>>

Actors == Threads \cup {"main"}
Steps  == {"idle", "init", "load", "read", "save", "version", "objects", "size",
           "close", "end"}

Blank   == [o \in Objects |-> Hole]
Empty   == [version |-> FALSE, size |-> FALSE, data |-> Blank]
Initial == [o \in Objects |-> Default]

Init ==
    /\ memory = Initial
    /\ file = Empty
    /\ at = [a \in Actors |-> IF a = "main" THEN "init" ELSE "idle"]
    /\ pos = [a \in Actors |-> 1]
    /\ due = [t \in Threads |-> "none"]
    /\ free = Files
    /\ boots = 0
    /\ last = Initial /\ excuses = {} /\ kept = {} /\ reset = FALSE
    /\ writes = 0 /\ crashes = 0

Go(a, step) == at' = [at EXCEPT ![a] = step]

(* After saveSettings or loadSettings: what is due; the second             *)
(* svr_InitObjects; or the request is done, and the client's thread saves  *)
(* the session                                                             *)
Return(a) ==
    CASE a \in Threads /\ due[a] # "none" -> due[a]
      [] a = "client" /\ due[a] = "none"   -> "end"
      [] a = "main" /\ boots < 2           -> "init"
      [] OTHER                             -> "idle"

NothingDue(a) == due' = [t \in Threads |-> IF t = a THEN "none" ELSE due[t]]

Excuse(e) == excuses' = excuses \cup {e}

(* Servers_Start has started the threads *)
Ready == boots = 2 /\ at["main"] = "idle"

-----------------------------------------------------------------------------
(* saveSettings *)

(* fopen "wb"; without a descriptor the save is given up with ret = 0 *)
OpenToSave(a) ==
    /\ at[a] = "save"
    /\ IF free = 0
       THEN /\ Go(a, Return(a)) /\ NothingDue(a) /\ Excuse("refused")
            /\ UNCHANGED <<file, free, last, kept>>
       ELSE /\ file' = Empty
            /\ free' = free - 1
            /\ last' = memory /\ kept' = {o \in kept : memory[o] = Bad}
            /\ Go(a, "version") /\ UNCHANGED <<due, excuses>>
    /\ UNCHANGED <<memory, pos, boots, reset, bounds>>

SizeFirst(f) == [f EXCEPT !.version = TRUE, !.size = TRUE]  \* mutant: size not left for the end
Unsized(f)   == [f EXCEPT !.version = TRUE, !.size = FALSE]

(* ser_saveObjects: version, size 0 *)
SaveVersion(a) ==
    /\ at[a] = "version"
    /\ file' = Unsized(file)
    /\ pos' = [pos EXCEPT ![a] = 1]
    /\ Go(a, "objects")
    /\ UNCHANGED <<memory, due, free, boots, history, bounds>>

SaveObject(a) ==
    /\ at[a] = "objects" /\ pos[a] \in Objects
    /\ file' = [file EXCEPT !.data[pos[a]] = memory[pos[a]]]
    /\ pos' = [pos EXCEPT ![a] = @ + 1]
    /\ Go(a, IF pos[a] = LastObject THEN "size" ELSE "objects")
    /\ UNCHANGED <<memory, due, free, boots, history, bounds>>

SaveSize(a) ==
    /\ at[a] = "size"
    /\ file' = [file EXCEPT !.size = TRUE]
    /\ Go(a, "close")
    /\ UNCHANGED <<memory, pos, due, free, boots, history, bounds>>

SaveClose(a) ==
    /\ at[a] = "close"
    /\ free' = free + 1
    /\ Go(a, Return(a)) /\ NothingDue(a)
    /\ UNCHANGED <<memory, file, pos, boots, history, bounds>>

Save(a) == OpenToSave(a) \/ SaveVersion(a) \/ SaveObject(a) \/ SaveSize(a) \/ SaveClose(a)

-----------------------------------------------------------------------------
(* loadSettings *)

(* fopen "rb".  No file or an empty one: what is in memory is saved.       *)
(* Otherwise ser_loadObjects; the stream is never closed.                  *)
OpenToLoad(a) ==
    /\ at[a] = "load"
    /\ IF free = 0 \/ file = Empty
       THEN Go(a, "save") /\ UNCHANGED <<pos, free>>
       ELSE /\ free' = free - 1
            /\ pos' = [pos EXCEPT ![a] = 1]
            /\ Go(a, IF file.version /\ file.size THEN "read" ELSE Return(a))
    /\ excuses' = IF free = 0 THEN excuses \cup {"refused"} ELSE excuses
    /\ UNCHANGED <<memory, file, due, boots, last, kept, reset, bounds>>

AtEnd(a) == \A o \in pos[a]..LastObject : file.data[o] = Hole

(* A hole reads as zero octets *)
LoadObject(a) ==
    /\ at[a] = "read" /\ pos[a] \in Objects /\ ~AtEnd(a)
    /\ memory' = [memory EXCEPT ![pos[a]] = file.data[pos[a]]]
    /\ pos' = [pos EXCEPT ![a] = @ + 1]
    /\ Go(a, IF pos[a] = LastObject THEN Return(a) ELSE "read")
    /\ UNCHANGED <<file, due, free, boots, history, bounds>>

(* The end of the file, or an object that zero octets do not make *)
LoadStops(a) ==
    /\ at[a] = "read" /\ pos[a] \in Objects /\ file.data[pos[a]] = Hole
    /\ Go(a, Return(a))
    /\ UNCHANGED <<memory, file, pos, due, free, boots, history, bounds>>

Load(a) == OpenToLoad(a) \/ LoadObject(a) \/ LoadStops(a)

-----------------------------------------------------------------------------
(* svr_InitObjects, called twice by Servers_Start before the threads start *)
InitObjects ==
    /\ at["main"] = "init" /\ boots < 2
    /\ memory' = Initial
    /\ boots' = boots + 1
    /\ Go("main", "load")
    /\ UNCHANGED <<file, pos, due, free, history, bounds>>

SaveAlways(ok)  == "save"   \* mutant: the error is not looked at
SaveOrUndo(ok)  == IF ok THEN "save" ELSE "load"

Handle(a) == Ready /\ at[a] = "idle" /\ writes < MaxWrites /\ writes' = writes + 1

Met(a) == IF \E t \in Threads \ {a} : at[t] # "idle" THEN {"met"} ELSE {}

(* A request sets an attribute; a rejected one may have changed it too.    *)
(* svr_postWrite, svr_postAction: save, or load to undo it                 *)
Write(a, o, v, ok) ==
    /\ Handle(a)
    /\ memory' = [memory EXCEPT ![o] = IF ok THEN v ELSE Bad]
    /\ Go(a, SaveOrUndo(ok))
    /\ excuses' = excuses \cup Met(a)
    /\ reset' = FALSE
    /\ UNCHANGED <<file, pos, due, free, boots, last, kept, crashes>>

(* The capture objects of a profile are saved first - twice, here once -   *)
(* and then, by whether they were rejected, saved or loaded                *)
WriteColumns(a, o, v, ok) ==
    /\ Handle(a)
    /\ memory' = [memory EXCEPT ![o] = IF ok THEN v ELSE Bad]
    /\ Go(a, "save")
    /\ due' = [due EXCEPT ![a] = SaveOrUndo(ok)]
    /\ kept' = IF ok THEN kept ELSE kept \cup {o}
    /\ excuses' = excuses \cup Met(a)
    /\ reset' = FALSE
    /\ UNCHANGED <<file, pos, free, boots, last, crashes>>

(* An item of a list that cosem_setValue refuses: the error goes into the  *)
(* answer but not to svr_postWrite, which saves                            *)
ListItemFails(a, o) ==
    /\ Handle(a)
    /\ memory' = [memory EXCEPT ![o] = Bad]
    /\ Go(a, "save")
    /\ kept' = kept \cup {o}
    /\ excuses' = excuses \cup Met(a)
    /\ reset' = FALSE
    /\ UNCHANGED <<file, pos, due, free, boots, last, crashes>>

(* The last block of a value that came in several: an error of             *)
(* cosem_setValue is returned without a call of svr_postWrite              *)
BlockWriteFails(a, o) ==
    /\ Handle(a)
    /\ memory' = [memory EXCEPT ![o] = Bad]
    /\ excuses' = excuses \cup {"block"} \cup Met(a)
    /\ Go(a, Return(a))
    /\ reset' = FALSE
    /\ UNCHANGED <<file, pos, due, free, boots, last, kept, crashes>>

(* svr_preAction: a script that changes the test mode, or the push of a    *)
(* profile, saves without a change of what is modelled here                *)
SaveAgain(a) ==
    /\ Handle(a)
    /\ Go(a, "save")
    /\ excuses' = excuses \cup Met(a)
    /\ UNCHANGED <<memory, file, pos, due, free, boots, last, kept, reset, crashes>>

(* svr_preAction, global meter reset: settings.raw is emptied "so default  *)
(* values are used", and loaded                                            *)
GlobalMeterReset(a) ==
    /\ Handle(a)
    /\ file' = IF free = 0 THEN file ELSE Empty
    /\ last' = IF free = 0 THEN last ELSE Initial
    /\ excuses' = excuses \cup Met(a) \cup IF free = 0 THEN {"refused"} ELSE {}
    /\ Go(a, "load")
    /\ reset' = TRUE
    /\ UNCHANGED <<memory, pos, due, free, boots, kept, crashes>>

(* The client's thread ends a request with srv_Save, which writes to a     *)
(* stream it has not tested                                                *)
SessionSaved ==
    /\ "client" \in Threads
    /\ at["client"] = "end" /\ free > 0
    /\ Go("client", "idle")
    /\ UNCHANGED <<memory, file, pos, due, free, boots, history, bounds>>

Saving == \E a \in Actors : at[a] \in {"version", "objects", "size", "close"}

(* The process starts again, with what the disk has *)
Restart ==
    /\ memory' = Initial
    /\ at' = [a \in Actors |-> IF a = "main" THEN "init" ELSE "idle"]
    /\ pos' = [a \in Actors |-> 1]
    /\ due' = [t \in Threads |-> "none"]
    /\ free' = Files
    /\ boots' = 0
    /\ excuses' = IF Saving THEN excuses \cup {"cut"} ELSE excuses

SessionCrash ==
    /\ "client" \in Threads
    /\ at["client"] = "end" /\ free = 0
    /\ Restart
    /\ UNCHANGED <<file, last, kept, reset, bounds>>

PowerFailure ==
    /\ crashes < MaxCrashes /\ crashes' = crashes + 1
    /\ Restart
    /\ UNCHANGED <<file, last, kept, reset, writes>>

Request(a) ==
    \/ \E o \in Objects, v \in Values : Write(a, o, v, TRUE)
    \/ \E o \in Objects : Write(a, o, Default, FALSE)
    \/ \E o \in Objects, v \in Values : WriteColumns(a, o, v, TRUE)
    \/ \E o \in Objects : WriteColumns(a, o, Default, FALSE)
    \/ \E o \in Objects : ListItemFails(a, o) \/ BlockWriteFails(a, o)
    \/ SaveAgain(a) \/ GlobalMeterReset(a)

Next ==
    \/ InitObjects \/ SessionSaved \/ SessionCrash \/ PowerFailure
    \/ \E a \in Actors : Save(a) \/ Load(a)
    \/ \E a \in Threads : Request(a)

Spec == Init /\ [][Next]_vars

-----------------------------------------------------------------------------
(* Properties *)

TypeOK ==
    /\ memory \in [Objects -> Contents]
    /\ file \in [version : BOOLEAN, size : BOOLEAN, data : [Objects -> Contents]]
    /\ at \in [Actors -> Steps]
    /\ pos \in [Actors -> Nat]
    /\ due \in [Threads -> {"none", "save", "load"}]
    /\ free \in Nat /\ boots \in 0..2
    /\ last \in [Objects -> Contents]
    /\ excuses \subseteq {"cut", "refused", "block", "met"}
    /\ kept \subseteq Objects /\ reset \in BOOLEAN
    /\ writes \in Nat /\ crashes \in Nat

Quiet == Ready /\ \A t \in Threads : at[t] = "idle"

(* Between two requests, as long as no save was cut off, no descriptor was *)
(* missing and no write in blocks failed, settings.raw is complete and     *)
(* holds exactly what is in memory, and of what was rejected only what the *)
(* code saves before it knows, or without being told: the capture objects  *)
(* of a profile and items of a list, until they are written over.  Every   *)
(* other rejected value is undone, and never taken for settled by a later  *)
(* save.  The two peers may take turns, but not write at a time.           *)
InSync ==
    Quiet /\ excuses = {} =>
        /\ file.version /\ file.size /\ file.data = memory
        /\ \A o \in Objects : memory[o] # Hole /\ (memory[o] = Bad => o \in kept)

(* However many times and wherever the process stopped, the threads start  *)
(* with all that the last save begun was to write, or, when that save had  *)
(* not got to the size, with the default of every object: never with some  *)
(* objects of one save and some of another (ser_saveObjects leaves the     *)
(* size 0 until it has written the last object).                           *)
BootIsAllOrNothing ==
    [][~Ready /\ Ready' /\ "met" \notin excuses => memory' = IF file'.size THEN last' ELSE Initial]_vars

(* "Initialize data size so default values are used on next connection":   *)
(* after a global meter reset, and before the next write, every object has *)
(* its default.                                                            *)
ResetIsDefault == Quiet /\ reset /\ excuses = {} => memory = Initial

(* "Reject changes loading previous settings if there is an error": a      *)
(* rejected value is not in settings.raw.                                  *)
RejectedNotSaved == excuses = {} => \A o \in Objects : file.data[o] # Bad

(* The same of the values the code undoes, when two peers write at a time. *)
UndoneNotSaved ==
    excuses \subseteq {"met"} => \A o \in Objects : file.data[o] = Bad => o \in kept
=============================================================================
