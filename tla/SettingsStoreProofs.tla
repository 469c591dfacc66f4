------------------------ MODULE SettingsStoreProofs ------------------------
(***************************************************************************)
(* settings.raw, for every number of objects, values, descriptors,         *)
(* requests and power failures.                                            *)
(*                                                                         *)
(* As long as the two peers have not met at the file ("met"), at most one  *)
(* actor is at it, and the file says by itself how far the save begun last *)
(* has come: with its size it is that save, whole (FileInv).  The start    *)
(* has descriptors enough to read or write it (BootInv).  As long as       *)
(* nothing else went wrong either, a value that was rejected, and is not   *)
(* one of those the code keeps, is in memory only until the load that      *)
(* undoes it, which has a whole file to load (SyncInv).                    *)
(***************************************************************************)
EXTENDS SettingsStore, TLAPS

Busy(a) == at[a] # "idle"

(* Who is at work *)
TurnInv ==
    /\ boots = 2 \/ Busy("main")
    /\ Busy("main") => \A t \in Threads : ~Busy(t)
    /\ at["main"] # "end"
    /\ \A t \in Threads : at[t] # "init"
    /\ \A t \in Threads : due[t] # "none" =>
           at[t] \in {"save", "version", "objects", "size", "close"}
    /\ "met" \notin excuses => \A t, u \in Threads : Busy(t) /\ Busy(u) => t = u

(* Descriptors of the start: each loadSettings keeps one *)
BootInv ==
    /\ at["main"] = "init" => boots < 2 /\ free >= Files - boots
    /\ at["main"] \in {"load", "save"} => boots > 0 /\ free >= Files - boots + 1
    /\ at["main"] \in {"read", "version", "objects", "size", "close"} =>
           boots > 0 /\ free >= Files - boots
    /\ at["main"] = "load" => memory = Initial

SaverInv(a) ==
    /\ at[a] = "version" => file = Empty /\ last = memory
    /\ at[a] = "objects" =>
           /\ file.version /\ ~file.size /\ last = memory /\ pos[a] \in Objects
           /\ \A o \in Objects : o < pos[a] => file.data[o] = memory[o]
    /\ at[a] = "size" => file.version /\ ~file.size /\ last = memory /\ file.data = memory
    /\ at[a] = "close" => file.size /\ last = memory
    /\ at[a] = "read" =>
           /\ file.size /\ pos[a] \in Objects
           /\ \A o \in Objects : o < pos[a] => memory[o] = file.data[o]

FileInv ==
    "met" \notin excuses =>
        /\ \A o \in Objects : memory[o] # Hole /\ last[o] # Hole
        /\ file.size => file.version /\ file.data = last
        /\ \A a \in Actors : SaverInv(a)

SyncInv ==
    excuses = {} =>
        /\ \A o \in Objects : last[o] = Bad => o \in kept
        /\ \/ \A o \in Objects : memory[o] = Bad => o \in kept
           \/ file.size /\ \E t \in Threads : at[t] \in {"load", "read"}
        /\ \/ file.size
           \/ /\ file = Empty
              /\ \/ \E a \in Actors : at[a] \in {"load", "save", "version"}
                 \/ at["main"] = "init" /\ boots = 0
           \/ \E a \in Actors : at[a] \in {"objects", "size"}
        /\ Ready /\ (\A t \in Threads : at[t] \in {"idle", "end"}) => memory = last

Inv == TypeOK /\ TurnInv /\ BootInv /\ FileInv /\ SyncInv

-----------------------------------------------------------------------------
(* Facts about the constants and about the steps of an actor *)

LEMMA Constants ==
    /\ "main" \in Actors /\ "main" \notin Threads
    /\ \A t \in Threads : t \in Actors /\ t # "main"
    /\ 1 \in Objects /\ LastObject \in Objects /\ LastObject \in Nat
    /\ Files \in Nat /\ Files > 2
    /\ Default \in Contents /\ Hole \in Contents /\ Bad \in Contents
    /\ Default # Hole /\ Default # Bad /\ Bad # Hole
  <1>1. /\ "main" \in Actors /\ "main" \notin Threads
        /\ \A t \in Threads : t \in Actors /\ t # "main"
    BY ThreadAssumption DEF Actors
  <1>2. /\ 1 \in Objects /\ LastObject \in Objects /\ LastObject \in Nat
        /\ Files \in Nat /\ Files > 2
    BY BoundAssumption DEF Objects
  <1>3. /\ Default \in Contents /\ Hole \in Contents /\ Bad \in Contents
        /\ Default # Hole /\ Default # Bad /\ Bad # Hole
    BY ValueAssumption DEF Contents, Bad, Hole
  <1> QED BY <1>1, <1>2, <1>3

LEMMA Values0 == \A v \in Values : v \in Contents /\ v # Hole /\ v # Bad
  BY ValueAssumption DEF Contents

LEMMA InitialTyped ==
    Initial \in [Objects -> Contents] /\ \A o \in Objects : Initial[o] = Default
  BY Constants DEF Initial

LEMMA EmptyTyped ==
    /\ Empty \in [version : BOOLEAN, size : BOOLEAN, data : [Objects -> Contents]]
    /\ ~Empty.version /\ ~Empty.size
  BY Constants DEF Empty, Blank

LEMMA Goes ==
    ASSUME TypeOK, NEW a \in Actors, NEW s \in Steps, Go(a, s)
    PROVE  /\ at' \in [Actors -> Steps] /\ at'[a] = s
           /\ \A b \in Actors : b # a => at'[b] = at[b]
  BY DEF TypeOK, Go

LEMMA Returns ==
    ASSUME TypeOK, NEW a \in Actors
    PROVE  /\ Return(a) \in Steps
           /\ Return(a) \in {"init", "idle", "end", "save", "load"}
           /\ a \in Threads =>
                 /\ Return(a) \in {"end", "idle", "save", "load"}
                 /\ due[a] = "none" => Return(a) \in {"end", "idle"}
           /\ a = "main" => Return(a) = IF boots < 2 THEN "init" ELSE "idle"
  BY Constants DEF Return, Steps, Actors, TypeOK

USE DEF history, bounds

(* A step of saveSettings or loadSettings; what is due to its thread is    *)
(* settled when it returns *)
LEMMA AtWork ==
    ASSUME TypeOK, NEW a \in Actors, Save(a) \/ Load(a)
    PROVE  /\ at[a] \in {"load", "read", "save", "version", "objects", "size", "close"}
           /\ UNCHANGED <<boots, reset, bounds>>
           /\ excuses' \in {excuses, excuses \cup {"refused"}}
           /\ \E s \in {"read", "save", "version", "objects", "size", "close", Return(a)} :
                 s \in Steps /\ Go(a, s)
           /\ \/ UNCHANGED due
              \/ NothingDue(a) /\ Go(a, Return(a))
  <1> USE DEF Steps
  <1>0. Return(a) \in Steps
    BY Returns
  <1>1. CASE OpenToSave(a)   BY <1>0, <1>1 DEF OpenToSave, Excuse
  <1>2. CASE SaveVersion(a)  BY <1>2 DEF SaveVersion
  <1>3. CASE SaveObject(a)   BY <1>3 DEF SaveObject
  <1>4. CASE SaveSize(a)     BY <1>4 DEF SaveSize
  <1>5. CASE SaveClose(a)    BY <1>0, <1>5 DEF SaveClose
  <1>6. CASE OpenToLoad(a)   BY <1>0, <1>6 DEF OpenToLoad
  <1>7. CASE LoadObject(a)   BY <1>0, <1>7 DEF LoadObject
  <1>8. CASE LoadStops(a)    BY <1>0, <1>8 DEF LoadStops
  <1> QED BY <1>1, <1>2, <1>3, <1>4, <1>5, <1>6, <1>7, <1>8 DEF Save, Load

LEMMA Dues ==
    ASSUME TypeOK, NEW a \in Actors, Save(a) \/ Load(a)
    PROVE  due' \in [Threads -> {"none", "save", "load"}]
  BY AtWork DEF TypeOK, NothingDue

(* The start of a request *)
Started(a) ==
    /\ Ready /\ at[a] = "idle" /\ UNCHANGED <<boots, free, pos, crashes>>
    /\ writes' = writes + 1 /\ reset' \in BOOLEAN
    /\ Met(a) \subseteq excuses' /\ excuses \subseteq excuses'
    /\ excuses' \subseteq excuses \cup Met(a) \cup {"block", "refused"}
    /\ due' \in [Threads -> {"none", "save", "load"}]
    /\ \A t \in Threads : t # a => due'[t] = due[t]
    /\ kept \subseteq kept' /\ kept' \subseteq Objects
    /\ \E s \in {"save", "load", Return(a)} :
          s \in Steps /\ Go(a, s) /\ (UNCHANGED due \/ s = "save")

LEMMA Requested ==
    ASSUME TypeOK, NEW a \in Threads, Request(a)
    PROVE  Started(a)
  <1> USE DEF Steps, Handle, Started
  <1>0. Return(a) \in Steps
    BY Returns, Constants
  <1>1. ASSUME NEW o \in Objects, NEW v, NEW ok \in BOOLEAN, Write(a, o, v, ok)
        PROVE  Started(a)
    BY <1>1 DEF Write, SaveOrUndo, TypeOK
  <1>2. ASSUME NEW o \in Objects, BlockWriteFails(a, o)
        PROVE  Started(a)
    BY <1>0, <1>2 DEF BlockWriteFails, TypeOK
  <1>3. CASE SaveAgain(a)
    BY <1>3 DEF SaveAgain, TypeOK
  <1>4. CASE GlobalMeterReset(a)
    BY <1>4 DEF GlobalMeterReset, TypeOK
  <1>a. ASSUME NEW o \in Objects, NEW v, NEW ok \in BOOLEAN, WriteColumns(a, o, v, ok)
        PROVE  Started(a)
    BY <1>a DEF WriteColumns, SaveOrUndo, TypeOK
  <1>b. ASSUME NEW o \in Objects, ListItemFails(a, o)
        PROVE  Started(a)
    BY <1>b DEF ListItemFails, TypeOK
  <1>c. \A o \in Objects, v \in Values, ok \in BOOLEAN : WriteColumns(a, o, v, ok) => Started(a)
    BY <1>a
  <1>d. \A o \in Objects : WriteColumns(a, o, Default, FALSE) => Started(a)
    BY <1>a
  <1>e. \A o \in Objects : ListItemFails(a, o) => Started(a)
    BY <1>b
  <1>5. \A o \in Objects, v \in Values, ok \in BOOLEAN : Write(a, o, v, ok) => Started(a)
    BY <1>1
  <1>6. \A o \in Objects : Write(a, o, Default, FALSE) => Started(a)
    BY <1>1
  <1>7. \A o \in Objects : BlockWriteFails(a, o) => Started(a)
    BY <1>2
  <1> HIDE DEF Started
  <1> QED BY <1>3, <1>4, <1>5, <1>6, <1>7, <1>c, <1>d, <1>e DEF Request

-----------------------------------------------------------------------------
(* Types *)

Record == [version : BOOLEAN, size : BOOLEAN, data : [Objects -> Contents]]

LEMMA Stored ==
    ASSUME TypeOK, NEW o \in Objects, NEW v \in Contents,
           NEW b \in BOOLEAN, NEW c \in BOOLEAN
    PROVE  /\ [file EXCEPT !.data[o] = v] \in Record
           /\ [file EXCEPT !.data[o] = v].version = file.version
           /\ [file EXCEPT !.data[o] = v].size = file.size
           /\ [file EXCEPT !.data[o] = v].data = [file.data EXCEPT ![o] = v]
           /\ [file EXCEPT !.version = b, !.size = c] \in Record
           /\ [file EXCEPT !.version = b, !.size = c].version = b
           /\ [file EXCEPT !.version = b, !.size = c].size = c
           /\ [file EXCEPT !.version = b, !.size = c].data = file.data
           /\ [file EXCEPT !.size = c] \in Record
           /\ [file EXCEPT !.size = c].version = file.version
           /\ [file EXCEPT !.size = c].size = c
           /\ [file EXCEPT !.size = c].data = file.data
  BY DEF TypeOK, Record

DataTyped ==
    /\ memory \in [Objects -> Contents] /\ file \in Record
    /\ pos \in [Actors -> Nat] /\ free \in Nat /\ last \in [Objects -> Contents]
    /\ kept \subseteq Objects

LEMMA WorkData ==
    ASSUME TypeOK, NEW a \in Actors, Save(a) \/ Load(a)
    PROVE  DataTyped'
  <1> USE Constants DEF TypeOK, DataTyped
  <1>0. DataTyped
    BY DEF Record
  <1>1. CASE OpenToSave(a)
    <2>1. kept' \subseteq Objects
      BY <1>1 DEF OpenToSave
    <2>2. file' \in Record /\ free' \in Nat /\ last' \in [Objects -> Contents]
      BY <1>0, <1>1, EmptyTyped DEF OpenToSave, Record
    <2> QED BY <1>0, <1>1, <2>1, <2>2 DEF OpenToSave
  <1>2. CASE SaveVersion(a)
    <2>1. file' \in Record
      BY <1>2, Stored, Zenon DEF SaveVersion, Unsized
    <2>2. pos' \in [Actors -> Nat]
      BY <1>2 DEF SaveVersion
    <2> QED BY <1>0, <1>2, <2>1, <2>2 DEF SaveVersion
  <1>3. CASE SaveObject(a)
    <2>1. memory[pos[a]] \in Contents
      BY <1>3 DEF SaveObject
    <2>2. file' \in Record
      BY <1>3, <2>1, Stored, Zenon DEF SaveObject
    <2>3. pos' \in [Actors -> Nat]
      BY <1>3 DEF SaveObject
    <2> QED BY <1>0, <1>3, <2>2, <2>3 DEF SaveObject
  <1>4. CASE SaveSize(a)
    <2>1. file' \in Record
      BY <1>4, Stored, Zenon DEF SaveSize
    <2> QED BY <1>0, <1>4, <2>1 DEF SaveSize
  <1>5. CASE SaveClose(a)
    BY <1>0, <1>5 DEF SaveClose
  <1>6. CASE OpenToLoad(a)
    <2>1. pos' \in [Actors -> Nat]
      BY <1>6 DEF OpenToLoad
    <2>2. free' \in Nat
      BY <1>6 DEF OpenToLoad
    <2> QED BY <1>0, <1>6, <2>1, <2>2 DEF OpenToLoad
  <1>7. CASE LoadObject(a)
    <2>1. file.data[pos[a]] \in Contents
      BY <1>7 DEF LoadObject
    <2>2. memory' \in [Objects -> Contents]
      BY <1>7, <2>1 DEF LoadObject
    <2>3. pos' \in [Actors -> Nat]
      BY <1>7 DEF LoadObject
    <2> QED BY <1>0, <1>7, <2>2, <2>3 DEF LoadObject
  <1>8. CASE LoadStops(a)
    BY <1>0, <1>8 DEF LoadStops
  <1> QED BY <1>1, <1>2, <1>3, <1>4, <1>5, <1>6, <1>7, <1>8 DEF Save, Load

LEMMA RequestData ==
    ASSUME TypeOK, NEW a \in Threads, Request(a)
    PROVE  DataTyped'
  <1> USE DEF TypeOK, DataTyped, Handle
  <1>0. DataTyped
    BY DEF Record
  <1>1. ASSUME NEW o \in Objects, NEW v \in Contents, NEW ok \in BOOLEAN, Write(a, o, v, ok)
        PROVE  DataTyped'
    <2>1. memory' \in [Objects -> Contents]
      BY <1>1, Constants DEF Write
    <2> QED BY <1>0, <1>1, <2>1 DEF Write
  <1>2. ASSUME NEW o \in Objects, BlockWriteFails(a, o)
        PROVE  DataTyped'
    <2>1. memory' \in [Objects -> Contents]
      BY <1>2, Constants DEF BlockWriteFails
    <2> QED BY <1>0, <1>2, <2>1 DEF BlockWriteFails
  <1>a. ASSUME NEW o \in Objects, NEW v \in Contents, NEW ok \in BOOLEAN, WriteColumns(a, o, v, ok)
        PROVE  DataTyped'
    <2>1. memory' \in [Objects -> Contents]
      BY <1>a, Constants DEF WriteColumns
    <2> QED BY <1>0, <1>a, <2>1 DEF WriteColumns
  <1>b. ASSUME NEW o \in Objects, ListItemFails(a, o)
        PROVE  DataTyped'
    <2>1. memory' \in [Objects -> Contents]
      BY <1>b, Constants DEF ListItemFails
    <2> QED BY <1>0, <1>b, <2>1 DEF ListItemFails
  <1>3. CASE SaveAgain(a)
    BY <1>0, <1>3 DEF SaveAgain
  <1>4. CASE GlobalMeterReset(a)
    <2>1. file' \in Record /\ last' \in [Objects -> Contents]
      BY <1>0, <1>4, EmptyTyped, InitialTyped DEF GlobalMeterReset, Record
    <2> QED BY <1>0, <1>4, <2>1 DEF GlobalMeterReset
  <1>5. \A o \in Objects, v \in Values, ok \in BOOLEAN : Write(a, o, v, ok) => DataTyped'
    BY <1>1, Values0
  <1>6. \A o \in Objects : Write(a, o, Default, FALSE) => DataTyped'
    BY <1>1, Constants
  <1>7. \A o \in Objects : BlockWriteFails(a, o) => DataTyped'
    BY <1>2
  <1>c. \A o \in Objects, v \in Values, ok \in BOOLEAN : WriteColumns(a, o, v, ok) => DataTyped'
    BY <1>a, Values0
  <1>d. \A o \in Objects : WriteColumns(a, o, Default, FALSE) => DataTyped'
    BY <1>a, Constants
  <1>e. \A o \in Objects : ListItemFails(a, o) => DataTyped'
    BY <1>b
  <1> HIDE DEF DataTyped
  <1> QED BY <1>3, <1>4, <1>5, <1>6, <1>7, <1>c, <1>d, <1>e DEF Request

Excuses == {"cut", "refused", "block", "met"}

LEMMA TypeStep == TypeOK /\ [Next]_vars => TypeOK'
  <1> SUFFICES ASSUME TypeOK, [Next]_vars PROVE TypeOK'
    OBVIOUS
  <1>0. /\ memory \in [Objects -> Contents] /\ file \in Record /\ at \in [Actors -> Steps]
        /\ pos \in [Actors -> Nat] /\ free \in Nat /\ boots \in 0..2
        /\ last \in [Objects -> Contents] /\ excuses \subseteq Excuses /\ reset \in BOOLEAN
        /\ writes \in Nat /\ crashes \in Nat /\ kept \subseteq Objects
        /\ due \in [Threads -> {"none", "save", "load"}]
    BY DEF TypeOK, Record, Excuses
  <1>1. ASSUME NEW a \in Actors, Save(a) \/ Load(a) PROVE TypeOK'
    <2>1. at' \in [Actors -> Steps]
      BY <1>1, AtWork, Goes
    <2>2. excuses' \subseteq Excuses /\ UNCHANGED <<boots, reset, writes, crashes>>
      BY <1>0, <1>1, AtWork DEF Excuses
    <2>3. DataTyped' /\ due' \in [Threads -> {"none", "save", "load"}]
      BY <1>1, WorkData, Dues
    <2> QED BY <1>0, <2>1, <2>2, <2>3 DEF TypeOK, DataTyped, Record, Excuses
  <1>2. ASSUME NEW a \in Threads, Request(a) PROVE TypeOK'
    <2>0. Started(a) /\ a \in Actors
      BY <1>2, Requested, Constants
    <2>1. at' \in [Actors -> Steps]
      BY <2>0, Goes DEF Started
    <2>2. excuses' \subseteq Excuses
      BY <1>0, <2>0 DEF Started, Excuses, Met
    <2>3. /\ UNCHANGED <<boots, crashes>> /\ writes' \in Nat /\ reset' \in BOOLEAN
          /\ due' \in [Threads -> {"none", "save", "load"}]
      BY <1>0, <2>0 DEF Started
    <2>4. DataTyped'
      BY <1>2, RequestData
    <2> QED BY <1>0, <2>1, <2>2, <2>3, <2>4 DEF TypeOK, DataTyped, Record, Excuses
  <1>3. CASE InitObjects
    <2>1. "load" \in Steps
      BY DEF Steps
    <2>2. at' \in [Actors -> Steps]
      BY <1>3, <2>1, Goes, Constants DEF InitObjects
    <2>3. boots' \in 0..2
      BY <1>0, <1>3 DEF InitObjects
    <2> QED BY <1>0, <1>3, <2>2, <2>3, InitialTyped DEF InitObjects, TypeOK, Record, Excuses
  <1>4. CASE SessionSaved
    <2>1. "idle" \in Steps
      BY DEF Steps
    <2>2. at' \in [Actors -> Steps]
      BY <1>4, <2>1, Goes, Constants DEF SessionSaved
    <2> QED BY <1>0, <1>4, <2>2 DEF SessionSaved, TypeOK, Record, Excuses
  <1>5. CASE SessionCrash \/ PowerFailure
    <2>1. Restart /\ UNCHANGED <<file, last, kept, reset, writes>> /\ crashes' \in Nat
      BY <1>0, <1>5 DEF SessionCrash, PowerFailure
    <2>2. /\ at' \in [Actors -> Steps] /\ pos' \in [Actors -> Nat]
          /\ due' \in [Threads -> {"none", "save", "load"}]
      BY <2>1 DEF Restart, Steps
    <2>3. free' \in Nat /\ boots' \in 0..2
      BY <2>1, Constants DEF Restart
    <2>4. excuses' \subseteq Excuses
      BY <1>0, <2>1 DEF Restart, Excuses
    <2>5. memory' \in [Objects -> Contents]
      BY <2>1, InitialTyped DEF Restart
    <2> QED BY <1>0, <2>1, <2>2, <2>3, <2>4, <2>5 DEF TypeOK, Record, Excuses
  <1>6. CASE UNCHANGED vars
    BY <1>0, <1>6 DEF vars, TypeOK, Record, Excuses
  <1> QED BY <1>1, <1>2, <1>3, <1>4, <1>5, <1>6 DEF Next

-----------------------------------------------------------------------------
(* Whose turn it is, and the descriptors of the start *)

LEMMA Restarted ==
    ASSUME Restart
    PROVE  /\ at'["main"] = "init" /\ \A t \in Threads : at'[t] = "idle"
           /\ \A t \in Threads : due'[t] = "none"
           /\ memory' = Initial /\ free' = Files /\ boots' = 0
           /\ excuses \subseteq excuses' /\ (excuses' = {} => excuses = {} /\ ~Saving)
  BY Constants DEF Restart

LEMMA StillSaving ==
    ASSUME TypeOK, NEW a \in Threads, Save(a) \/ Load(a), due' = due, due[a] # "none",
           at[a] \in {"save", "version", "objects", "size", "close"}
    PROVE  at'[a] \in {"save", "version", "objects", "size", "close"}
  <1> USE Constants DEF Steps
  <1>1. CASE OpenToSave(a)
    BY <1>1, Goes DEF OpenToSave, NothingDue, TypeOK
  <1>2. CASE SaveVersion(a)  BY <1>2, Goes DEF SaveVersion
  <1>3. CASE SaveObject(a)   BY <1>3, Goes DEF SaveObject
  <1>4. CASE SaveSize(a)     BY <1>4, Goes DEF SaveSize
  <1>5. CASE SaveClose(a)    BY <1>5 DEF SaveClose, NothingDue, TypeOK
  <1>6. CASE Load(a)         BY <1>6 DEF Load, OpenToLoad, LoadObject, LoadStops
  <1> QED BY <1>1, <1>2, <1>3, <1>4, <1>5, <1>6 DEF Save

LEMMA TurnStep == TypeOK /\ TurnInv /\ [Next]_vars => TurnInv'
  <1> SUFFICES ASSUME TypeOK, TurnInv, [Next]_vars PROVE TurnInv'
    OBVIOUS
  <1> USE Constants DEF TurnInv, Busy
  <1>1. ASSUME NEW a \in Actors, Save(a) \/ Load(a) PROVE TurnInv'
    <2>1. PICK s \in {"read", "save", "version", "objects", "size", "close", Return(a)} :
            s \in Steps /\ Go(a, s)
      BY <1>1, AtWork
    <2>2. /\ at[a] \notin {"idle", "init", "end"} /\ boots' = boots
          /\ "met" \in excuses => "met" \in excuses'
      BY <1>1, AtWork
    <2>3. at'[a] = s /\ \A b \in Actors : b # a => at'[b] = at[b]
      BY <2>1, Goes
    <2>4. a = "main" => s # "end" /\ (s = "idle" => boots = 2)
      BY <2>1, Returns DEF TypeOK
    <2>5. a \in Threads => s # "init"
      BY <2>1, Returns
    <2>6. a = "main" \/ a \in Threads
      BY DEF Actors
    <2>7. \A t \in Threads : due'[t] # "none" =>
             at'[t] \in {"save", "version", "objects", "size", "close"}
      <3>1. CASE NothingDue(a)
        BY <2>3, <3>1 DEF NothingDue
      <3>2. CASE due' = due /\ a \in Threads /\ due[a] # "none"
        <4>1. at[a] \in {"save", "version", "objects", "size", "close"}
          BY <3>2
        <4>2. at'[a] \in {"save", "version", "objects", "size", "close"}
          BY <1>1, <3>2, <4>1, StillSaving
        <4> QED BY <2>3, <3>2, <4>2
      <3>3. CASE due' = due /\ (a = "main" \/ due[a] = "none")
        BY <2>3, <3>3
      <3> QED BY <1>1, <2>6, <3>1, <3>2, <3>3, AtWork
    <2> QED BY <2>2, <2>3, <2>4, <2>5, <2>6, <2>7
  <1>2. ASSUME NEW a \in Threads, Request(a) PROVE TurnInv'
    <2>0. Started(a) /\ a \in Actors
      BY <1>2, Requested
    <2>1. PICK s \in {"save", "load", Return(a)} :
            s \in Steps /\ Go(a, s) /\ (UNCHANGED due \/ s = "save")
      BY <2>0 DEF Started
    <2>2. at'[a] = s /\ \A b \in Actors : b # a => at'[b] = at[b]
      BY <2>0, <2>1, Goes
    <2>3. s # "init"
      BY <2>0, <2>1, Returns
    <2>5. \A t \in Threads : due'[t] # "none" =>
             at'[t] \in {"save", "version", "objects", "size", "close"}
      BY <2>0, <2>1, <2>2 DEF Started
    <2>4. /\ boots = 2 /\ boots' = boots /\ at["main"] = "idle"
          /\ "met" \notin excuses' => \A t \in Threads \ {a} : at[t] = "idle"
      BY <2>0 DEF Started, Ready, Met
    <2> QED BY <2>2, <2>3, <2>4, <2>5
  <1>3. CASE InitObjects
    <2>1. at'["main"] = "load" /\ \A b \in Actors : b # "main" => at'[b] = at[b]
      BY <1>3, Goes DEF InitObjects, Steps
    <2> QED BY <1>3, <2>1 DEF InitObjects
  <1>4. CASE SessionSaved
    <2>1. at'["client"] = "idle" /\ \A b \in Actors : b # "client" => at'[b] = at[b]
      BY <1>4, Goes DEF SessionSaved, Steps
    <2> QED BY <1>4, <2>1 DEF SessionSaved
  <1>5. CASE SessionCrash \/ PowerFailure
    BY <1>5, Restarted DEF SessionCrash, PowerFailure
  <1>6. CASE UNCHANGED vars
    BY <1>6 DEF vars
  <1> QED BY <1>1, <1>2, <1>3, <1>4, <1>5, <1>6 DEF Next

LEMMA BootStep == TypeOK /\ TurnInv /\ BootInv /\ [Next]_vars => BootInv'
  <1> SUFFICES ASSUME TypeOK, TurnInv, BootInv, [Next]_vars PROVE BootInv'
    OBVIOUS
  <1> USE Constants
  <1>0. boots \in 0..2 /\ free \in Nat
    BY DEF TypeOK
  <1>1. CASE Save("main") \/ Load("main")
    <2> USE <1>0 DEF BootInv, Steps
    <2>0. Return("main") = IF boots < 2 THEN "init" ELSE "idle"
      BY Returns
    <2>1. CASE OpenToSave("main")
      <3>1. free > 0
        BY <2>1 DEF OpenToSave
      <3>2. at'["main"] = "version"
        BY <2>1, <3>1, Goes DEF OpenToSave
      <3> QED BY <2>1, <3>1, <3>2 DEF OpenToSave
    <2>2. CASE SaveVersion("main")
      <3>1. at'["main"] = "objects"
        BY <2>2, Goes DEF SaveVersion
      <3> QED BY <2>2, <3>1 DEF SaveVersion
    <2>3. CASE SaveObject("main")
      <3>1. at'["main"] \in {"size", "objects"}
        BY <2>3, Goes DEF SaveObject
      <3> QED BY <2>3, <3>1 DEF SaveObject
    <2>4. CASE SaveSize("main")
      <3>1. at'["main"] = "close"
        BY <2>4, Goes DEF SaveSize
      <3> QED BY <2>4, <3>1 DEF SaveSize
    <2>5. CASE SaveClose("main")
      <3>1. at'["main"] = Return("main")
        BY <2>5, Goes, Returns DEF SaveClose
      <3> QED BY <2>0, <2>5, <3>1 DEF SaveClose
    <2>6. CASE OpenToLoad("main")
      <3>1. free > 0
        BY <2>6 DEF OpenToLoad
      <3>2. CASE file = Empty
        <4>1. at'["main"] = "save"
          BY <2>6, <3>2, Goes DEF OpenToLoad
        <4> QED BY <2>6, <3>2, <4>1 DEF OpenToLoad
      <3>3. CASE file # Empty
        <4>1. at'["main"] \in {"read", Return("main")}
          BY <2>6, <3>1, <3>3, Goes, Returns DEF OpenToLoad
        <4> QED BY <2>0, <2>6, <3>1, <3>3, <4>1 DEF OpenToLoad
      <3> QED BY <3>2, <3>3
    <2>7. CASE LoadObject("main")
      <3>1. at'["main"] \in {"read", Return("main")}
        BY <2>7, Goes, Returns DEF LoadObject
      <3> QED BY <2>0, <2>7, <3>1 DEF LoadObject
    <2>8. CASE LoadStops("main")
      <3>1. at'["main"] = Return("main")
        BY <2>8, Goes, Returns DEF LoadStops
      <3> QED BY <2>0, <2>8, <3>1 DEF LoadStops
    <2> QED BY <1>1, <2>1, <2>2, <2>3, <2>4, <2>5, <2>6, <2>7, <2>8 DEF Save, Load
  <1>2. ASSUME NEW a \in Threads, Save(a) \/ Load(a) \/ Request(a) PROVE BootInv'
    <2>1. at'["main"] = at["main"]
      BY <1>2, AtWork, Requested, Goes DEF Started
    <2>2. at["main"] = "idle"
      BY <1>2, AtWork, Requested DEF Started, Ready, TurnInv, Busy
    <2> QED BY <2>1, <2>2 DEF BootInv
  <1>3. CASE InitObjects
    <2>1. at'["main"] = "load"
      BY <1>3, Goes DEF InitObjects, Steps
    <2> QED BY <1>0, <1>3, <2>1 DEF InitObjects, BootInv
  <1>4. CASE SessionSaved
    <2>1. at'["main"] = at["main"]
      BY <1>4, Goes DEF SessionSaved, Steps
    <2>2. at["main"] = "idle"
      BY <1>4 DEF SessionSaved, TurnInv, Busy
    <2> QED BY <2>1, <2>2 DEF BootInv
  <1>5. CASE SessionCrash \/ PowerFailure
    BY <1>5, Restarted DEF SessionCrash, PowerFailure, BootInv
  <1>6. CASE UNCHANGED vars
    BY <1>6 DEF vars, BootInv
  <1> QED BY <1>1, <1>2, <1>3, <1>4, <1>5, <1>6 DEF Next, Actors

-----------------------------------------------------------------------------
(* What the file says of itself *)

LEMMA Alone ==
    ASSUME TypeOK, TurnInv, "met" \notin excuses, NEW a \in Actors, Busy(a)
    PROVE  \A b \in Actors : b # a => at[b] = "idle"
  BY Constants DEF TurnInv, Busy, Actors

LEMMA Monotone == TypeOK /\ [Next]_vars => excuses \subseteq excuses'
  <1> SUFFICES ASSUME TypeOK, [Next]_vars PROVE excuses \subseteq excuses'
    OBVIOUS
  <1>1. ASSUME NEW a \in Actors, Save(a) \/ Load(a) PROVE excuses \subseteq excuses'
    BY <1>1, AtWork
  <1>2. ASSUME NEW a \in Threads, Request(a) PROVE excuses \subseteq excuses'
    BY <1>2, Requested DEF Started
  <1>3. CASE InitObjects \/ SessionSaved \/ UNCHANGED vars
    BY <1>3 DEF InitObjects, SessionSaved, vars
  <1>4. CASE SessionCrash \/ PowerFailure
    BY <1>4, Restarted DEF SessionCrash, PowerFailure
  <1> QED BY <1>1, <1>2, <1>3, <1>4 DEF Next

FileOK ==
    /\ \A o \in Objects : memory[o] # Hole /\ last[o] # Hole
    /\ file.size => file.version /\ file.data = last

LEMMA WorkFile ==
    ASSUME TypeOK, FileOK, NEW a \in Actors, SaverInv(a), Save(a) \/ Load(a)
    PROVE  FileOK' /\ SaverInv(a)'
  <1> USE DEF Steps
  <1>0. /\ memory \in [Objects -> Contents] /\ file \in Record /\ last \in [Objects -> Contents]
        /\ file.data \in [Objects -> Contents] /\ pos \in [Actors -> Nat]
    BY DEF TypeOK, Record
  <1>1. CASE OpenToSave(a)
    <2>0. CASE free = 0
      <3>1. at'[a] = Return(a)
        BY <1>1, <2>0, Goes, Returns DEF OpenToSave
      <3> QED BY <1>1, <2>0, <3>1, Returns DEF OpenToSave, SaverInv, FileOK
    <2>1. CASE free # 0
      <3>1. at'[a] = "version"
        BY <1>1, <2>1, Goes DEF OpenToSave
      <3> QED BY <1>1, <2>1, <3>1, EmptyTyped DEF OpenToSave, SaverInv, FileOK
    <2> QED BY <2>0, <2>1
  <1>2. CASE SaveVersion(a)
    <2>1. at'[a] = "objects" /\ pos'[a] = 1
      BY <1>0, <1>2, Goes DEF SaveVersion
    <2>2. file' = [version |-> TRUE, size |-> FALSE, data |-> file.data]
      BY <1>0, <1>2 DEF SaveVersion, Unsized, Record
    <2>3. file'.version /\ ~file'.size /\ last = memory
      BY <1>2, <2>2 DEF SaveVersion, SaverInv
    <2> QED BY <1>2, <2>1, <2>3, Constants DEF SaveVersion, SaverInv, FileOK, Objects
  <1>3. CASE SaveObject(a)
    <2> DEFINE o == pos[a]
    <2>1. /\ o \in Objects /\ o \in Nat /\ memory[o] \in Contents
          /\ file' = [file EXCEPT !.data[o] = memory[o]] /\ pos'[a] = o + 1
      BY <1>0, <1>3 DEF SaveObject, Objects
    <2>2. at'[a] = IF o = LastObject THEN "size" ELSE "objects"
      BY <1>3, Goes DEF SaveObject
    <2>3. file.version /\ ~file.size /\ last = memory /\ UNCHANGED <<memory, last>>
      BY <1>3 DEF SaveObject, SaverInv
    <2>4. file'.version /\ ~file'.size /\ file'.data = [file.data EXCEPT ![o] = memory[o]]
      BY <2>1, <2>3, Stored, Zenon
    <2>5. \A p \in Objects : p < o + 1 => file'.data[p] = memory[p]
      <3> SUFFICES ASSUME NEW p \in Objects, p < o + 1 PROVE file'.data[p] = memory[p]
        OBVIOUS
      <3>1. CASE p = o
        BY <1>0, <2>1, <2>4, <3>1
      <3>2. CASE p # o
        <4>1. p < o
          BY <2>1, <3>2 DEF Objects
        <4>2. file.data[p] = memory[p]
          BY <1>3, <4>1 DEF SaveObject, SaverInv
        <4> QED BY <1>0, <2>4, <3>2, <4>2
      <3> QED BY <3>1, <3>2
    <2>6. CASE o = LastObject
      <3>1. \A p \in Objects : file'.data[p] = memory[p]
        BY <2>1, <2>5, <2>6 DEF Objects
      <3>2. DOMAIN memory = Objects /\ DOMAIN file'.data = Objects
        BY <1>0, <2>4
      <3>3. memory = [p \in Objects |-> memory[p]] /\ file'.data = [p \in Objects |-> file'.data[p]]
        BY <1>0, <2>1, <2>4, <3>2
      <3>4. file'.data = memory
        BY <3>1, <3>3
      <3> QED BY <2>2, <2>3, <2>4, <2>6, <3>4 DEF SaverInv, FileOK
    <2>7. CASE o # LastObject
      <3>1. o + 1 \in Objects
        BY <2>1, <2>7, Constants DEF Objects
      <3> QED BY <2>1, <2>2, <2>3, <2>4, <2>5, <2>7, <3>1 DEF SaverInv, FileOK
    <2> QED BY <2>6, <2>7
  <1>4. CASE SaveSize(a)
    <2>1. at'[a] = "close"
      BY <1>4, Goes DEF SaveSize
    <2>2. file' = [version |-> file.version, size |-> TRUE, data |-> file.data]
      BY <1>0, <1>4 DEF SaveSize, Record
    <2>3. file'.version /\ file'.size /\ file'.data = memory /\ last = memory
      BY <1>4, <2>2 DEF SaveSize, SaverInv
    <2> QED BY <1>4, <2>1, <2>3 DEF SaveSize, SaverInv, FileOK
  <1>5. CASE SaveClose(a)
    <2>1. at'[a] = Return(a)
      BY <1>5, Goes, Returns DEF SaveClose
    <2> QED BY <1>5, <2>1, Returns DEF SaveClose, SaverInv, FileOK
  <1>6. CASE OpenToLoad(a)
    <2>1. /\ at'[a] \in {"save", "read", Return(a)}
          /\ at'[a] = "read" => file.size /\ pos'[a] = 1
      BY <1>0, <1>6, Goes, Returns DEF OpenToLoad
    <2> QED BY <1>6, <2>1, Returns, Constants DEF OpenToLoad, SaverInv, FileOK, Objects
  <1>7. CASE LoadObject(a)
    <2> DEFINE o == pos[a]
    <2>1. /\ o \in Objects /\ o \in Nat /\ file.data[o] \in Contents
          /\ memory' = [memory EXCEPT ![o] = file.data[o]] /\ pos'[a] = o + 1
          /\ UNCHANGED <<file, last>>
      BY <1>0, <1>7 DEF LoadObject, Objects
    <2>2. at'[a] = IF o = LastObject THEN Return(a) ELSE "read"
      BY <1>7, Goes, Returns DEF LoadObject
    <2>3. file.size /\ file.version /\ file.data = last
      BY <1>7 DEF LoadObject, SaverInv, FileOK
    <2>4. FileOK'
      BY <1>0, <2>1, <2>3 DEF FileOK
    <2>5. \A p \in Objects : p < o + 1 => memory'[p] = file.data[p]
      BY <1>0, <1>7, <2>1 DEF LoadObject, SaverInv, Objects
    <2>6. o # LastObject => o + 1 \in Objects
      BY <2>1, Constants DEF Objects
    <2> QED BY <2>1, <2>2, <2>3, <2>4, <2>5, <2>6, Returns DEF SaverInv
  <1>8. CASE LoadStops(a)
    <2>1. at'[a] = Return(a)
      BY <1>8, Goes, Returns DEF LoadStops
    <2> QED BY <1>8, <2>1, Returns DEF LoadStops, SaverInv, FileOK
  <1> QED BY <1>1, <1>2, <1>3, <1>4, <1>5, <1>6, <1>7, <1>8 DEF Save, Load

LEMMA RequestFile ==
    ASSUME TypeOK, FileOK, NEW a \in Threads, Request(a)
    PROVE  FileOK'
  <1>0. /\ memory \in [Objects -> Contents] /\ last \in [Objects -> Contents]
    BY DEF TypeOK
  <1>1. ASSUME NEW o \in Objects, NEW v, v # Hole, NEW ok \in BOOLEAN, Write(a, o, v, ok)
        PROVE  FileOK'
    <2>1. (IF ok THEN v ELSE Bad) # Hole
      BY <1>1, Constants
    <2>2. \A p \in Objects : memory'[p] # Hole
      BY <1>0, <1>1, <2>1 DEF Write, FileOK
    <2> QED BY <1>1, <2>2 DEF Write, FileOK
  <1>2. ASSUME NEW o \in Objects, BlockWriteFails(a, o)
        PROVE  FileOK'
    BY <1>0, <1>2, Constants DEF BlockWriteFails, FileOK
  <1>a. ASSUME NEW o \in Objects, NEW v, v # Hole, NEW ok \in BOOLEAN, WriteColumns(a, o, v, ok)
        PROVE  FileOK'
    <2>1. (IF ok THEN v ELSE Bad) # Hole
      BY <1>a, Constants
    <2>2. \A p \in Objects : memory'[p] # Hole
      BY <1>0, <1>a, <2>1 DEF WriteColumns, FileOK
    <2> QED BY <1>a, <2>2 DEF WriteColumns, FileOK
  <1>b. ASSUME NEW o \in Objects, ListItemFails(a, o)
        PROVE  FileOK'
    BY <1>0, <1>b, Constants DEF ListItemFails, FileOK
  <1>3. CASE SaveAgain(a)
    BY <1>3 DEF SaveAgain, FileOK
  <1>4. CASE GlobalMeterReset(a)
    BY <1>4, InitialTyped, EmptyTyped, Constants DEF GlobalMeterReset, FileOK
  <1>5. \A o \in Objects, v \in Values, ok \in BOOLEAN : Write(a, o, v, ok) => FileOK'
    BY <1>1, Values0
  <1>6. \A o \in Objects : Write(a, o, Default, FALSE) => FileOK'
    BY <1>1, Constants
  <1>7. \A o \in Objects : BlockWriteFails(a, o) => FileOK'
    BY <1>2
  <1>c. \A o \in Objects, v \in Values, ok \in BOOLEAN : WriteColumns(a, o, v, ok) => FileOK'
    BY <1>a, Values0
  <1>d. \A o \in Objects : WriteColumns(a, o, Default, FALSE) => FileOK'
    BY <1>a, Constants
  <1>e. \A o \in Objects : ListItemFails(a, o) => FileOK'
    BY <1>b
  <1> HIDE DEF FileOK
  <1> QED BY <1>3, <1>4, <1>5, <1>6, <1>7, <1>c, <1>d, <1>e DEF Request

LEMMA FileStep == TypeOK /\ TurnInv /\ FileInv /\ [Next]_vars => FileInv'
  <1> SUFFICES ASSUME TypeOK, TurnInv, FileInv, [Next]_vars, "met" \notin excuses'
               PROVE  FileOK' /\ \A b \in Actors : SaverInv(b)'
    BY DEF FileInv, FileOK
  <1>0. "met" \notin excuses /\ FileOK /\ \A b \in Actors : SaverInv(b)
    BY Monotone DEF FileInv, FileOK
  <1>1. ASSUME NEW a \in Actors, Save(a) \/ Load(a)
        PROVE  FileOK' /\ \A b \in Actors : SaverInv(b)'
    <2>1. FileOK' /\ SaverInv(a)'
      BY <1>0, <1>1, WorkFile
    <2>2. Busy(a) /\ \A b \in Actors : b # a => at'[b] = at[b]
      BY <1>1, AtWork, Goes DEF Busy
    <2>3. \A b \in Actors : b # a => at'[b] = "idle"
      BY <1>0, <2>2, Alone
    <2>4. \A b \in Actors : b # a => SaverInv(b)'
      BY <2>3 DEF SaverInv
    <2> QED BY <2>1, <2>4
  <1>2. ASSUME NEW a \in Threads, Request(a)
        PROVE  FileOK' /\ \A b \in Actors : SaverInv(b)'
    <2>1. Started(a) /\ a \in Actors
      BY <1>2, Requested, Constants
    <2>2. PICK s \in {"save", "load", Return(a)} : s \in Steps /\ Go(a, s)
      BY <2>1 DEF Started
    <2>3. s \in {"save", "load", "idle", "end"}
      BY <1>2, <2>1, <2>2, Returns
    <2>4. at["main"] = "idle" /\ \A t \in Threads \ {a} : at[t] = "idle"
      BY <2>1 DEF Started, Ready, Met
    <2>5. at'[a] = s /\ \A b \in Actors : b # a => at'[b] = "idle"
      BY <2>1, <2>2, <2>4, Goes DEF Actors
    <2>6. \A b \in Actors : SaverInv(b)'
      BY <2>3, <2>5 DEF SaverInv
    <2> QED BY <1>0, <1>2, <2>6, RequestFile
  <1>3. CASE InitObjects
    <2>1. Busy("main") /\ at'["main"] = "load" /\ \A b \in Actors : b # "main" => at'[b] = at[b]
      BY <1>3, Goes, Constants DEF InitObjects, Steps, Busy
    <2>2. \A b \in Actors : b # "main" => at'[b] = "idle"
      BY <1>0, <2>1, Alone, Constants
    <2>3. \A b \in Actors : SaverInv(b)'
      BY <2>1, <2>2 DEF SaverInv
    <2>4. FileOK'
      BY <1>0, <1>3, InitialTyped, Constants DEF InitObjects, FileOK
    <2> QED BY <2>3, <2>4
  <1>4. CASE SessionSaved
    <2>1. at'["client"] = "idle" /\ \A b \in Actors : b # "client" => at'[b] = at[b]
      BY <1>4, Goes, Constants DEF SessionSaved, Steps
    <2>2. UNCHANGED <<memory, file, pos, last>>
      BY <1>4 DEF SessionSaved
    <2> QED BY <1>0, <2>1, <2>2 DEF SaverInv, FileOK
  <1>5. CASE SessionCrash \/ PowerFailure
    <2>1. Restart /\ UNCHANGED <<file, last>>
      BY <1>5 DEF SessionCrash, PowerFailure
    <2>2. \A b \in Actors : SaverInv(b)'
      BY <2>1, Restarted DEF SaverInv, Actors
    <2>3. FileOK'
      BY <1>0, <2>1, Restarted, InitialTyped, Constants DEF FileOK
    <2> QED BY <2>2, <2>3
  <1>6. CASE UNCHANGED vars
    BY <1>0, <1>6 DEF vars, FileOK, SaverInv
  <1> QED BY <1>1, <1>2, <1>3, <1>4, <1>5, <1>6 DEF Next

-----------------------------------------------------------------------------
(* Memory and file, when nothing has gone wrong *)

MemGood == \A o \in Objects : memory[o] = Bad => o \in kept
Undone  == file.size /\ \E t \in Threads : at[t] \in {"load", "read"}
Emptied ==
    /\ file = Empty
    /\ \/ \E a \in Actors : at[a] \in {"load", "save", "version"}
       \/ at["main"] = "init" /\ boots = 0
Begun   == \E a \in Actors : at[a] \in {"objects", "size"}
Rest    == Ready /\ \A t \in Threads : at[t] \in {"idle", "end"}

SyncOK ==
    /\ \A o \in Objects : last[o] = Bad => o \in kept
    /\ MemGood \/ Undone
    /\ file.size \/ Emptied \/ Begun
    /\ Rest => memory = last

LEMMA SyncIs == SyncInv <=> (excuses = {} => SyncOK)
  BY DEF SyncInv, SyncOK, MemGood, Undone, Emptied, Begun, Rest

(* The actor at work alone, before and after its step *)
LEMMA AloneAtWork ==
    ASSUME TypeOK, TurnInv, "met" \notin excuses, NEW a \in Actors, Save(a) \/ Load(a)
    PROVE  /\ \A b \in Actors : b # a => at[b] = "idle" /\ at'[b] = "idle"
           /\ a = "main" \/ a \in Threads
           /\ Begun => at[a] \in {"objects", "size"}
           /\ Undone => at[a] \in {"load", "read"} /\ a \in Threads
           /\ Emptied => at[a] \in {"load", "save", "version"}
           /\ Rest' => at'[a] \in {"idle", "end"}
  <1>1. Busy(a) /\ \A b \in Actors : b # a => at'[b] = at[b]
    BY AtWork, Goes DEF Busy
  <1>2. \A b \in Actors : b # a => at[b] = "idle"
    BY <1>1, Alone
  <1>3. at[a] # "init"
    BY AtWork
  <1>4. a = "main" \/ a \in Threads
    BY DEF Actors
  <1>5. Rest' => at'[a] \in {"idle", "end"}
    BY <1>4 DEF Rest, Ready
  <1> QED BY <1>1, <1>2, <1>3, <1>4, <1>5, Constants DEF Begun, Undone, Emptied

(* The last object read: memory is what was saved last *)
LEMMA LoadEnds ==
    ASSUME TypeOK, FileOK, NEW a \in Actors, SaverInv(a), LoadObject(a), pos[a] = LastObject
    PROVE  memory' = last /\ file.size
  <1>0. memory \in [Objects -> Contents] /\ last \in [Objects -> Contents]
    BY DEF TypeOK
  <1>1. /\ memory' = [memory EXCEPT ![LastObject] = last[LastObject]]
        /\ file.size /\ file.data = last
    BY DEF LoadObject, SaverInv, FileOK
  <1>2. \A p \in Objects : p < LastObject => memory[p] = last[p]
    BY <1>1 DEF LoadObject, SaverInv
  <1>3. \A p \in Objects : memory'[p] = last[p]
    BY <1>0, <1>1, <1>2, Constants DEF Objects
  <1>4. memory' \in [Objects -> Contents]
    BY WorkData DEF DataTyped, Load
  <1> QED BY <1>0, <1>1, <1>3, <1>4

LEMMA WorkSync ==
    ASSUME TypeOK, TurnInv, FileOK, SyncOK, excuses' = {}, excuses = {},
           NEW a \in Actors, SaverInv(a), Save(a) \/ Load(a)
    PROVE  SyncOK'
  <1>0. /\ memory \in [Objects -> Contents] /\ last \in [Objects -> Contents]
        /\ pos \in [Actors -> Nat] /\ free \in Nat
    BY DEF TypeOK
  <1>a. /\ a = "main" \/ a \in Threads
        /\ Begun => at[a] \in {"objects", "size"}
        /\ Undone => at[a] \in {"load", "read"} /\ a \in Threads
        /\ Emptied => at[a] \in {"load", "save", "version"}
        /\ Rest' => at'[a] \in {"idle", "end"}
    BY AloneAtWork
  <1>1. CASE OpenToSave(a)
    <2>1. free # 0
      BY <1>1 DEF OpenToSave, Excuse
    <2>2. /\ at'[a] = "version" /\ file' = Empty /\ last' = memory /\ memory' = memory
          /\ kept' = {o \in kept : memory[o] = Bad}
      BY <1>1, <2>1, Goes DEF OpenToSave, Steps
    <2>3. MemGood
      BY <1>1, <1>a DEF OpenToSave, SyncOK
    <2>4. Emptied' /\ ~Rest'
      BY <1>a, <2>2 DEF Emptied
    <2> QED BY <2>2, <2>3, <2>4 DEF SyncOK, MemGood
  <1>2. CASE SaveVersion(a)
    <2>1. at'[a] = "objects" /\ UNCHANGED <<memory, last, kept>>
      BY <1>2, Goes DEF SaveVersion, Steps
    <2>2. MemGood
      BY <1>2, <1>a DEF SaveVersion, SyncOK
    <2>3. Begun' /\ ~Rest'
      BY <1>a, <2>1 DEF Begun
    <2> QED BY <2>1, <2>2, <2>3 DEF SyncOK, MemGood
  <1>3. CASE SaveObject(a)
    <2>1. at'[a] \in {"objects", "size"} /\ UNCHANGED <<memory, last, kept>>
      BY <1>3, Goes DEF SaveObject, Steps
    <2>2. MemGood
      BY <1>3, <1>a DEF SaveObject, SyncOK
    <2>3. Begun' /\ ~Rest'
      BY <1>a, <2>1 DEF Begun
    <2> QED BY <2>1, <2>2, <2>3 DEF SyncOK, MemGood
  <1>4. CASE SaveSize(a)
    <2>1. at'[a] = "close" /\ UNCHANGED <<memory, last, kept>>
      BY <1>4, Goes DEF SaveSize, Steps
    <2>2. MemGood
      BY <1>4, <1>a DEF SaveSize, SyncOK
    <2>3. file'.size
      BY <1>4 DEF SaveSize, TypeOK
    <2> QED BY <1>a, <2>1, <2>2, <2>3 DEF SyncOK, MemGood
  <1>5. CASE SaveClose(a)
    <2>1. UNCHANGED <<memory, last, file, kept>> /\ file.size /\ memory = last
      BY <1>5 DEF SaveClose, SaverInv
    <2>2. MemGood
      BY <1>5, <1>a DEF SaveClose, SyncOK
    <2> QED BY <2>1, <2>2 DEF SyncOK, MemGood
  <1>6. CASE OpenToLoad(a)
    <2>1. free # 0 /\ UNCHANGED <<memory, last, file, kept>>
      BY <1>6 DEF OpenToLoad
    <2>2. CASE file = Empty
      <3>1. at'[a] = "save"
        BY <1>6, <2>2, Goes DEF OpenToLoad, Steps
      <3>2. MemGood
        BY <2>2, EmptyTyped DEF SyncOK, Undone
      <3>3. Emptied' /\ ~Rest'
        BY <1>a, <2>1, <2>2, <3>1 DEF Emptied
      <3> QED BY <2>1, <3>2, <3>3 DEF SyncOK, MemGood
    <2>3. CASE file # Empty
      <3>1. file.size /\ file.version
        BY <1>6, <1>a, <2>3 DEF OpenToLoad, SyncOK, Emptied, FileOK
      <3>2. at'[a] = "read"
        BY <1>6, <2>1, <2>3, <3>1, Goes DEF OpenToLoad, Steps
      <3>3. MemGood' \/ Undone'
        BY <1>a, <2>1, <3>1, <3>2 DEF SyncOK, Undone, MemGood
      <3> QED BY <1>a, <2>1, <3>1, <3>2, <3>3 DEF SyncOK
    <2> QED BY <2>2, <2>3
  <1>7. CASE LoadObject(a)
    <2> DEFINE o == pos[a]
    <2>1. /\ o \in Objects /\ o \in Nat /\ at[a] = "read"
          /\ memory' = [memory EXCEPT ![o] = file.data[o]]
          /\ UNCHANGED <<file, last, kept>>
      BY <1>0, <1>7 DEF LoadObject, Objects
    <2>2. at'[a] = IF o = LastObject THEN Return(a) ELSE "read"
      BY <1>7, Goes, Returns DEF LoadObject, Steps
    <2>3. file.size /\ file.data = last
      BY <2>1 DEF SaverInv, FileOK
    <2>4. \A p \in Objects : last[p] = Bad => p \in kept
      BY DEF SyncOK
    <2>5. CASE o = LastObject
      <3>1. memory' = last
        BY <1>7, <2>5, LoadEnds
      <3> QED BY <2>1, <2>3, <2>4, <3>1 DEF SyncOK, MemGood
    <2>6. CASE o # LastObject
      <3>1. at'[a] = "read"
        BY <2>2, <2>6
      <3>2. a \in Threads => Undone'
        BY <2>1, <2>3, <3>1 DEF Undone
      <3>3. a = "main" => MemGood
        BY <1>a, Constants DEF SyncOK
      <3>4. a = "main" => MemGood'
        BY <1>0, <2>1, <2>3, <2>4, <3>3 DEF MemGood
      <3> QED BY <1>a, <2>1, <2>3, <2>4, <3>1, <3>2, <3>4 DEF SyncOK
    <2> QED BY <2>5, <2>6
  <1>8. CASE LoadStops(a)
    BY <1>8 DEF LoadStops, SaverInv, FileOK
  <1> QED BY <1>1, <1>2, <1>3, <1>4, <1>5, <1>6, <1>7, <1>8 DEF Save, Load

LEMMA RequestSync ==
    ASSUME TypeOK, TurnInv, FileOK, SyncOK, excuses' = {}, excuses = {},
           NEW a \in Threads, Request(a)
    PROVE  SyncOK'
  <1>0. /\ memory \in [Objects -> Contents] /\ free \in Nat /\ a \in Actors
        /\ a # "main"
    BY Constants DEF TypeOK
  <1>1. Ready /\ at["main"] = "idle" /\ \A t \in Threads : at[t] = "idle"
    BY Requested DEF Started, Ready, Met
  <1>2. /\ file.size /\ memory = last /\ MemGood /\ \A o \in Objects : last[o] = Bad => o \in kept
        /\ ~Undone
    BY <1>1 DEF SyncOK, Emptied, Begun, Undone, Rest, Actors
  <1>3. at'[a] \notin {"idle", "end"} => ~Rest'
    BY DEF Rest
  <1>4. ASSUME NEW o \in Objects, NEW v, v # Bad, Write(a, o, v, TRUE)
        PROVE  SyncOK'
    <2>1. /\ memory' = [memory EXCEPT ![o] = v] /\ at'[a] = "save"
          /\ UNCHANGED <<file, last, kept>>
      BY <1>0, <1>4, Goes DEF Write, SaveOrUndo, Steps
    <2>2. MemGood'
      BY <1>0, <1>2, <1>4, <2>1 DEF MemGood
    <2> QED BY <1>2, <1>3, <2>1, <2>2 DEF SyncOK
  <1>5. ASSUME NEW o \in Objects, Write(a, o, Default, FALSE)
        PROVE  SyncOK'
    <2>1. at'[a] = "load" /\ UNCHANGED <<file, last, kept>>
      BY <1>0, <1>5, Goes DEF Write, SaveOrUndo, Steps
    <2> QED BY <1>2, <1>3, <2>1 DEF SyncOK, Undone
  <1>a. ASSUME NEW o \in Objects, NEW v, v # Bad, NEW ok \in BOOLEAN, WriteColumns(a, o, v, ok)
        PROVE  SyncOK'
    <2>1. /\ memory' = [memory EXCEPT ![o] = IF ok THEN v ELSE Bad] /\ at'[a] = "save"
          /\ UNCHANGED <<file, last>>
      BY <1>0, <1>a, Goes DEF WriteColumns, Steps
    <2>2. kept \subseteq kept' /\ (~ok => o \in kept')
      BY <1>a DEF WriteColumns
    <2>3. MemGood'
      BY <1>0, <1>2, <1>a, <2>1, <2>2 DEF MemGood
    <2> QED BY <1>2, <1>3, <2>1, <2>2, <2>3 DEF SyncOK
  <1>b. ASSUME NEW o \in Objects, ListItemFails(a, o)
        PROVE  SyncOK'
    <2>1. /\ memory' = [memory EXCEPT ![o] = Bad] /\ at'[a] = "save"
          /\ UNCHANGED <<file, last>> /\ kept' = kept \cup {o}
      BY <1>0, <1>b, Goes DEF ListItemFails, Steps
    <2>2. MemGood'
      BY <1>0, <1>2, <2>1 DEF MemGood
    <2> QED BY <1>2, <1>3, <2>1, <2>2 DEF SyncOK
  <1>6. ASSUME NEW o \in Objects, BlockWriteFails(a, o)
        PROVE  FALSE
    BY <1>6 DEF BlockWriteFails
  <1>7. CASE SaveAgain(a)
    <2>1. at'[a] = "save" /\ UNCHANGED <<memory, file, last, kept>>
      BY <1>0, <1>7, Goes DEF SaveAgain, Steps
    <2> QED BY <1>2, <1>3, <2>1 DEF SyncOK, MemGood
  <1>8. CASE GlobalMeterReset(a)
    <2>1. free # 0
      BY <1>8 DEF GlobalMeterReset
    <2>2. /\ at'[a] = "load" /\ file' = Empty /\ last' = Initial
          /\ UNCHANGED <<memory, kept>>
      BY <1>0, <1>8, <2>1, Goes DEF GlobalMeterReset, Steps
    <2>3. \A o \in Objects : last'[o] # Bad
      BY <2>2, InitialTyped, Constants
    <2>4. Emptied'
      BY <1>0, <2>2 DEF Emptied
    <2> QED BY <1>2, <1>3, <2>2, <2>3, <2>4 DEF SyncOK, MemGood
  <1>9. \A o \in Objects, v \in Values : Write(a, o, v, TRUE) => SyncOK'
    BY <1>4, Values0
  <1>c. \A o \in Objects, v \in Values : WriteColumns(a, o, v, TRUE) => SyncOK'
    BY <1>a, Values0
  <1>d. \A o \in Objects : WriteColumns(a, o, Default, FALSE) => SyncOK'
    BY <1>a, Constants
  <1>e. \A o \in Objects : ListItemFails(a, o) => SyncOK'
    BY <1>b
  <1> HIDE DEF SyncOK
  <1> QED BY <1>5, <1>6, <1>7, <1>8, <1>9, <1>c, <1>d, <1>e DEF Request

LEMMA SyncStep == TypeOK /\ TurnInv /\ FileInv /\ SyncInv /\ [Next]_vars => SyncInv'
  <1> SUFFICES ASSUME TypeOK, TurnInv, FileInv, SyncInv, [Next]_vars, excuses' = {}
               PROVE  SyncOK'
    BY DEF SyncInv, SyncOK, MemGood, Undone, Emptied, Begun, Rest
  <1>0. excuses = {} /\ SyncOK /\ FileOK /\ \A b \in Actors : SaverInv(b)
    BY Monotone, SyncIs DEF FileInv, FileOK
  <1>1. ASSUME NEW a \in Actors, Save(a) \/ Load(a) PROVE SyncOK'
    BY <1>0, <1>1, WorkSync
  <1>2. ASSUME NEW a \in Threads, Request(a) PROVE SyncOK'
    BY <1>0, <1>2, RequestSync
  <1>3. CASE InitObjects
    <2>1. Busy("main") /\ at["main"] = "init"
      BY <1>3 DEF InitObjects, Busy
    <2>2. \A b \in Actors : b # "main" => at[b] = "idle"
      BY <1>0, <2>1, Alone, Constants
    <2>3. ~Begun
      BY <2>1, <2>2 DEF Begun
    <2>4. /\ at'["main"] = "load" /\ UNCHANGED <<file, last, kept>> /\ memory' = Initial
      BY <1>3, Goes, Constants DEF InitObjects, Steps
    <2>5. MemGood'
      BY <2>4, InitialTyped, Constants DEF MemGood
    <2>6. file'.size \/ Emptied'
      BY <1>0, <2>3, <2>4, Constants DEF SyncOK, Emptied
    <2>7. ~Rest'
      BY <2>4 DEF Rest, Ready
    <2> QED BY <1>0, <2>4, <2>5, <2>6, <2>7 DEF SyncOK
  <1>4. CASE SessionSaved
    <2>1. Busy("client") /\ at["client"] = "end" /\ "client" \in Actors /\ "client" \in Threads
      BY <1>4, Constants DEF SessionSaved, Busy
    <2>2. \A b \in Actors : b # "client" => at[b] = "idle"
      BY <1>0, <2>1, Alone
    <2>3. Rest /\ file.size /\ MemGood
      BY <1>0, <2>1, <2>2, Constants
      DEF SyncOK, Emptied, Begun, Undone, Rest, Ready, TurnInv, Busy
    <2>4. UNCHANGED <<memory, file, last, kept>>
      BY <1>4 DEF SessionSaved
    <2> QED BY <1>0, <2>3, <2>4 DEF SyncOK, MemGood
  <1>5. CASE SessionCrash \/ PowerFailure
    <2>1. Restart /\ UNCHANGED <<file, last, kept>>
      BY <1>5 DEF SessionCrash, PowerFailure
    <2>2. ~Begun
      BY <2>1, Restarted DEF Begun, Saving
    <2>3. MemGood'
      BY <2>1, Restarted, InitialTyped, Constants DEF MemGood
    <2>4. file'.size \/ Emptied'
      BY <1>0, <2>1, <2>2, Restarted DEF SyncOK, Emptied
    <2>5. ~Rest'
      BY <2>1, Restarted DEF Rest, Ready
    <2> QED BY <1>0, <2>1, <2>3, <2>4, <2>5 DEF SyncOK
  <1>6. CASE UNCHANGED vars
    BY <1>0, <1>6 DEF vars, SyncOK, MemGood, Undone, Emptied, Begun, Rest, Ready
  <1> QED BY <1>1, <1>2, <1>3, <1>4, <1>5, <1>6 DEF Next

-----------------------------------------------------------------------------

LEMMA Initially == Init => Inv
  <1> SUFFICES ASSUME Init PROVE Inv
    OBVIOUS
  <1> USE Constants DEF Init
  <1>1. at["main"] = "init" /\ \A t \in Threads : at[t] = "idle"
    BY DEF Actors
  <1>2. at \in [Actors -> Steps] /\ pos \in [Actors -> Nat]
    BY DEF Steps
  <1>3. TypeOK
    <2>1. memory \in [Objects -> Contents] /\ last \in [Objects -> Contents] /\ file \in Record
      BY InitialTyped, EmptyTyped DEF Record
    <2>2. free \in Nat /\ boots \in 0..2 /\ writes \in Nat /\ crashes \in Nat
      OBVIOUS
    <2>3. reset \in BOOLEAN /\ excuses = {}
      BY Zenon
    <2> QED BY <1>2, <2>1, <2>2, <2>3 DEF TypeOK, Record
  <1>4. TurnInv /\ BootInv
    BY <1>1 DEF TurnInv, BootInv, Busy
  <1>5. FileInv
    BY <1>1, InitialTyped, EmptyTyped DEF FileInv, SaverInv, Actors
  <1>6. SyncInv
    BY <1>1, InitialTyped, EmptyTyped DEF SyncInv, Ready
  <1> QED BY <1>3, <1>4, <1>5, <1>6 DEF Inv

LEMMA Invariance == Spec => []Inv
  <1>1. Inv /\ [Next]_vars => Inv'
    BY TypeStep, TurnStep, BootStep, FileStep, SyncStep DEF Inv
  <1> QED BY <1>1, Initially, PTL DEF Spec

(* The variables keep their types.                                         *)
THEOREM TypeCorrect == Spec => []TypeOK
  <1>1. Inv => TypeOK
    BY DEF Inv
  <1> QED BY <1>1, Invariance, PTL

(* Between two requests settings.raw holds what is in memory, whatever     *)
(* requests came before, and of what was rejected only the values the code *)
(* itself saves: the capture objects of a profile, items of a list         *)
(* (svr_postWrite, svr_postAction, svr_handleSetRequestWithList,           *)
(* saveSettings, loadSettings).                                            *)
THEOREM Synchronized == Spec => []InSync
  <1>1. Inv => InSync
    <2> SUFFICES ASSUME Inv, Quiet, excuses = {}
                 PROVE  /\ file.version /\ file.size /\ file.data = memory
                        /\ \A o \in Objects : memory[o] # Hole /\ (memory[o] = Bad => o \in kept)
      BY DEF InSync
    <2>1. SyncOK /\ FileOK /\ at["main"] = "idle"
      BY SyncIs DEF Inv, FileInv, FileOK, Quiet, Ready
    <2>2. Rest /\ ~Emptied /\ ~Begun /\ ~Undone
      BY <2>1, Constants DEF Quiet, Rest, Emptied, Begun, Undone, Actors
    <2> QED BY <2>1, <2>2 DEF SyncOK, FileOK, MemGood
  <1> QED BY <1>1, Invariance, PTL

(* The threads start with all of the last save begun, or with the default  *)
(* of every object (ser_saveObjects, ser_loadObjects, Servers_Start).      *)
THEOREM AllOrNothing == Spec => BootIsAllOrNothing
  <1> DEFINE Step == ~Ready /\ Ready' /\ "met" \notin excuses =>
                         memory' = IF file'.size THEN last' ELSE Initial
  <1>1. Inv /\ [Next]_vars => Step \/ UNCHANGED vars
    <2> SUFFICES ASSUME Inv, Next, ~Ready, Ready', "met" \notin excuses
                 PROVE  memory' = IF file'.size THEN last' ELSE Initial
      OBVIOUS
    <2>0. TypeOK /\ TurnInv /\ BootInv /\ FileOK /\ SaverInv("main")
      BY Constants DEF Inv, FileInv, FileOK
    <2>1. Busy("main") /\ \A t \in Threads : at[t] = "idle"
      BY <2>0 DEF TurnInv, Ready, Busy
    <2>2. ~SessionSaved /\ ~SessionCrash /\ ~PowerFailure /\ ~InitObjects
      BY <2>1, Restarted, Goes, <2>0, Constants
      DEF SessionSaved, SessionCrash, PowerFailure, InitObjects, Ready, Steps
    <2>3. \A a \in Threads : ~Request(a)
      BY <2>0, Requested DEF Started
    <2>4. \A a \in Threads : ~(Save(a) \/ Load(a))
      BY <2>0, <2>1, AtWork, Constants
    <2>5. Save("main") \/ Load("main")
      BY <2>2, <2>3, <2>4 DEF Next, Actors
    <2>6. at'["main"] = "idle" /\ boots = 2
      BY <2>0, <2>5, AtWork, Constants DEF Ready
    <2>7. free > 0 \/ at["main"] \notin {"load", "save"}
      BY <2>0, Constants DEF BootInv, TypeOK
    <2> USE <2>0 DEF Steps
    <2>8. CASE OpenToSave("main")
      <3>1. at'["main"] = "version"
        BY <2>7, <2>8, Goes, Constants DEF OpenToSave
      <3> QED BY <2>6, <3>1
    <2>9. CASE SaveVersion("main") \/ SaveObject("main") \/ SaveSize("main")
      <3>1. at'["main"] \in {"objects", "size", "close"}
        BY <2>9, Goes, Constants DEF SaveVersion, SaveObject, SaveSize
      <3> QED BY <2>6, <3>1
    <2>10. CASE SaveClose("main")
      BY <2>10 DEF SaveClose, SaverInv
    <2>11. CASE OpenToLoad("main")
      <3>1. free # 0 /\ memory = Initial /\ UNCHANGED <<memory, file, last>>
        BY <2>7, <2>11 DEF OpenToLoad, BootInv, TypeOK
      <3>2. CASE file = Empty \/ (file.version /\ file.size)
        <4>1. at'["main"] \in {"save", "read"}
          BY <2>11, <3>1, <3>2, Goes, Constants DEF OpenToLoad
        <4> QED BY <2>6, <4>1
      <3>3. CASE ~file.size
        BY <3>1, <3>3
      <3> QED BY <3>2, <3>3 DEF FileOK
    <2>12. CASE LoadObject("main")
      <3>1. CASE pos["main"] = LastObject
        BY <2>12, <3>1, LoadEnds, Constants DEF LoadObject
      <3>2. CASE pos["main"] # LastObject
        <4>1. at'["main"] = "read"
          BY <2>12, <3>2, Goes, Constants DEF LoadObject
        <4> QED BY <2>6, <4>1
      <3> QED BY <3>1, <3>2
    <2>13. CASE LoadStops("main")
      BY <2>13 DEF LoadStops, SaverInv, FileOK
    <2> QED BY <2>5, <2>8, <2>9, <2>10, <2>11, <2>12, <2>13 DEF Save, Load
  <1>2. Spec => [][Step]_vars
    BY <1>1, Invariance, PTL DEF Spec
  <1> QED BY <1>2 DEF BootIsAllOrNothing
=============================================================================
