------------------------ MODULE ProfileBufferProofs ------------------------
(***************************************************************************)
(* Theorems about ProfileBuffer, for every list of capture objects, every  *)
(* file size and every number of captures.                                 *)
(*                                                                         *)
(* NewestKept alone is not inductive: a restart or a rejected write puts   *)
(* back the profileEntries of settings.raw, which are those in memory, but *)
(* for a handler that has just cleared the ring and counted the rows anew  *)
(* (RingInv).  NeverOvercounts needs to know that of the entries in use in *)
(* settings.raw too (CountInv), InUseIsRows that between two handlers what *)
(* is saved is what is in memory (RowsInv).                                *)
(***************************************************************************)
EXTENDS ProfileBuffer, RingSearch, TLAPS

LEMMA ModRange ==
    ASSUME NEW x \in Int, NEW n \in Nat \ {0}
    PROVE  x % n \in 0..(n - 1)
  BY SMT

LEMMA ModLess ==
    ASSUME NEW x \in Nat, NEW n \in Nat \ {0}
    PROVE  x % n <= x
  BY SMT

LEMMA ModNext ==
    ASSUME NEW x \in Nat, NEW n \in Nat \ {0}
    PROVE  (x + 1) % n <= x + 1 /\ (x + 1) % n \in Nat
<1>1. x + 1 \in Nat
  OBVIOUS
<1>2. \A y \in Nat : y % n <= y /\ y % n \in Nat
  BY SMT
<1> QED
  BY <1>1, <1>2, Zenon

LEMMA ModSmall ==
    ASSUME NEW n \in Nat \ {0}, NEW x \in 0..(n - 1)
    PROVE  x % n = x
  BY SMT

LEMMA ModBack ==
    ASSUME NEW n \in Nat \ {0}, NEW x \in (0 - n)..(0 - 1)
    PROVE  x % n = x + n
  BY SMT

LEMMA DivRange ==
    ASSUME NEW x \in Nat, NEW n \in Nat \ {0}
    PROVE  x \div n \in Nat
  BY SMT

LEMMA MaxOfTwo ==
    ASSUME NEW a \in Nat, NEW b \in Nat
    PROVE  Max({a, b}) \in Nat /\ Max({a, b}) >= a
<1>1. \E x \in {a, b} : \A y \in {a, b} : x >= y
  OBVIOUS
<1>2. Max({a, b}) \in {a, b} /\ \A y \in {a, b} : Max({a, b}) >= y
  BY <1>1 DEF Max
<1> QED
  BY <1>2

LEMMA MaxRowCountType ==
    ASSUME NEW len \in Nat, NEW c \in Columns
    PROVE  MaxRowCount(len, c) \in Nat
<1>1. c.size \in Nat
  BY ColumnAssumption
<1>2. len % UInt16 \in Int
  BY SizeAssumption, ModRange
<1>3. ((len % UInt16) - 4) % UInt16 \in Nat
  BY <1>2, SizeAssumption, ModRange
<1>4. CASE c.size = 0
  BY <1>4 DEF MaxRowCount
<1>5. CASE c.size # 0
  BY <1>1, <1>3, <1>5, DivRange DEF MaxRowCount
<1> QED
  BY <1>4, <1>5

-----------------------------------------------------------------------------
(* what a capture computes *)

LEMMA CountedType ==
    ASSUME TypeOK
    PROVE  /\ Counted \in Nat /\ Taken(Counted) \in Nat
           /\ IndexAfter(Counted) \in Nat /\ Slot \in Nat
           /\ profileEntries # 0 =>
                  IndexAfter(Counted) < profileEntries /\ Slot < profileEntries
<1>0. /\ entriesInUse \in Nat /\ profileEntries \in Nat /\ index \in Nat
      /\ UInt32 \in Nat \ {0} /\ UInt16 \in Nat \ {0}
  BY SizeAssumption DEF TypeOK
<1>1. Counted \in Nat
  <2>1. (entriesInUse + 1) % UInt32 \in Nat
    BY <1>0, ModRange
  <2> QED
    BY <1>0, <2>1 DEF Counted
<1>2. Taken(Counted) \in Nat
  BY <1>0, <1>1, ModRange DEF Taken
<1>3. CASE profileEntries = 0
  BY <1>0, <1>1, <1>2, <1>3, ModRange DEF IndexAfter, Slot
<1>4. CASE profileEntries # 0
  <2>1. /\ (1 + index) % profileEntries \in 0..(profileEntries - 1)
        /\ index % profileEntries \in 0..(profileEntries - 1)
    BY <1>0, <1>4, ModRange
  <2> QED
    BY <1>0, <1>1, <1>2, <1>4, <2>1 DEF IndexAfter, Slot
<1> QED
  BY <1>3, <1>4

LEMMA CaptureType ==
    ASSUME TypeOK, captureProfileGeneric
    PROVE  /\ captureObjects' \in Columns
           /\ entriesInUse' \in Nat /\ profileEntries' = profileEntries
           /\ fileLen' \in Nat /\ index' \in Nat
           /\ (\A slot \in DOMAIN slots : slot \in Nat /\ slots[slot] \in Rows)'
           /\ log' \in Seq(Rows) /\ captures' \in Nat
           /\ clean' \in BOOLEAN
<1>1. CASE fileLen = 0
  BY <1>1 DEF captureProfileGeneric, TypeOK, memory, file
<1>2. CASE fileLen # 0
  <2>1. PICK whole \in {TRUE, ~captureObjects.refused} :
            LET row == [id |-> captures + 1, whole |-> whole]
            IN  /\ captures' = captures + 1
                /\ entriesInUse' = IF whole THEN Counted ELSE Taken(Counted)
                /\ index' = IndexAfter(Counted)
                /\ slots' = [slot \in DOMAIN slots \cup {Slot} |->
                                 IF slot = Slot THEN row ELSE slots[slot]]
                /\ fileLen' = Max({fileLen, 4 + (Slot + 1) * captureObjects.size})
                /\ log' = Append(log, row)
                /\ clean' = (clean /\ whole)
                /\ UNCHANGED <<captureObjects, profileEntries>>
    BY <1>2 DEF captureProfileGeneric
  <2> DEFINE row == [id |-> captures + 1, whole |-> whole]
  <2>2. captureObjects.size \in Nat /\ captureObjects.refused \in BOOLEAN
    BY ColumnAssumption DEF TypeOK
  <2>3. row \in Rows
    <3>1. whole \in BOOLEAN
      BY <2>2
    <3> QED
      BY <3>1 DEF TypeOK, Rows
  <2>4. fileLen' \in Nat
    <3>1. 4 + (Slot + 1) * captureObjects.size \in Nat
      BY <2>2, CountedType
    <3> QED
      BY <2>1, <3>1, MaxOfTwo DEF TypeOK
  <2>5. (\A slot \in DOMAIN slots : slot \in Nat /\ slots[slot] \in Rows)'
    <3> HIDE DEF row
    <3>1. slots' = [slot \in DOMAIN slots \cup {Slot} |->
                        IF slot = Slot THEN row ELSE slots[slot]]
      BY <2>1 DEF row
    <3> QED
      BY <2>3, <3>1, CountedType DEF TypeOK
  <2>6. log' \in Seq(Rows)
    <3> HIDE DEF row
    <3>1. log' = Append(log, row)
      BY <2>1 DEF row
    <3> QED
      BY <2>3, <3>1 DEF TypeOK
  <2>7. entriesInUse' \in Nat
    BY <2>1, CountedType
  <2>8. index' \in Nat /\ captures' \in Nat
    BY <2>1, CountedType DEF TypeOK
  <2>9. captureObjects' \in Columns /\ profileEntries' = profileEntries
    BY <2>1 DEF TypeOK
  <2>10. clean' \in BOOLEAN
    BY <2>1
  <2> QED
    BY <2>4, <2>5, <2>6, <2>7, <2>8, <2>9, <2>10
<1> QED
  BY <1>1, <1>2

-----------------------------------------------------------------------------
LEMMA InitType == Init => TypeOK
<1> SUFFICES ASSUME Init PROVE TypeOK
  OBVIOUS
<1>1. profileEntries \in Nat /\ fileLen \in Nat /\ captureObjects \in Columns
  BY ColumnAssumption, SizeAssumption, MaxRowCountType DEF Init
<1>2. Settings \in AllSettings
  BY <1>1 DEF Init, Settings, AllSettings
<1> QED
  BY <1>1, <1>2 DEF Init, TypeOK, Steps

LEMMA SettingsType == TypeOK => Settings \in AllSettings
  BY DEF TypeOK, Settings, AllSettings

LEMMA StepType == TypeOK /\ [Next]_vars => TypeOK'
<1> SUFFICES ASSUME TypeOK, [Next]_vars PROVE TypeOK'
  OBVIOUS
<1>0. Settings \in AllSettings
  BY SettingsType
<1>1. CASE PowerUp
  <2>1. CASE IsEventLog
    BY <1>1, <2>1, CaptureType DEF PowerUp, TypeOK, Steps
  <2>2. CASE ~IsEventLog
    BY <1>1, <2>2 DEF PowerUp, TypeOK, Steps, memory, file
  <2> QED
    BY <2>1, <2>2
<1>2. CASE Restart
  BY <1>2 DEF Restart, loadSettings, TypeOK, Steps, AllSettings, file
<1>3. CASE updateState
  BY <1>3, CaptureType DEF updateState, TypeOK
<1>4. CASE Clear
  BY <1>4 DEF Clear, ClearFile, TypeOK, Steps
<1>5. CASE Capture
  BY <1>5, CaptureType DEF Capture, TypeOK, Steps
<1>6. CASE Save
  BY <1>0, <1>6 DEF Save, saveSettings, TypeOK, Steps, memory, file
<1>7. ASSUME NEW columns \in Columns, SetColumns(columns) \/ RejectColumns(columns)
      PROVE  TypeOK'
  <2>1. PICK next \in {"clear", "clearRejected"} : Set(columns, next)
    BY <1>7 DEF SetColumns, RejectColumns
  <2>2. saved' \in AllSettings
    BY <2>1 DEF Set, TypeOK, AllSettings
  <2> QED
    BY <1>0, <2>1, <2>2 DEF Set, TypeOK, Steps, file
<1>8. CASE ClearAndCount
  <2>1. Allocated(fileLen) \in Nat
    BY SizeAssumption DEF Allocated, TypeOK
  <2>2. MaxRowCount(Allocated(fileLen), captureObjects) \in Nat
    BY <2>1, MaxRowCountType DEF TypeOK
  <2> QED
    BY <1>0, <1>8, <2>1, <2>2
    DEF ClearAndCount, ClearFile, saveSettings, TypeOK, Steps
<1>9. CASE Reload
  BY <1>9 DEF Reload, loadSettings, TypeOK, Steps, AllSettings, file
<1>10. CASE WriteOther
  BY <1>0, <1>10 DEF WriteOther, saveSettings, TypeOK, memory, file
<1>11. CASE RejectOther
  BY <1>11 DEF RejectOther, loadSettings, TypeOK, AllSettings, file
<1>12. CASE GlobalMeterReset
  <2>1. CASE IsEventLog
    BY <1>0, <1>12, <2>1, CaptureType DEF GlobalMeterReset, saveSettings, TypeOK
  <2>2. CASE ~IsEventLog
    BY <1>0, <1>12, <2>2 DEF GlobalMeterReset, saveSettings, TypeOK, memory, file
  <2> QED
    BY <2>1, <2>2
<1>13. CASE Read
  BY <1>13 DEF Read, TypeOK, memory, file
<1>14. CASE UNCHANGED vars
  BY <1>14 DEF vars, memory, file, TypeOK
<1> QED
  BY <1>1, <1>2, <1>3, <1>4, <1>5, <1>6, <1>7, <1>8, <1>9, <1>10, <1>11, <1>12,
     <1>13, <1>14 DEF Next

(* The variables keep to their types.                                      *)
THEOREM TypeCorrect == Spec => []TypeOK
  BY InitType, StepType, PTL DEF Spec

-----------------------------------------------------------------------------
(* The ring *)

RingInv ==
    /\ fileLen = 0 => index = 0 /\ log = <<>>
    /\ profileEntries # 0 => index < profileEntries
    /\ \/ saved.entries = profileEntries
       \/ log = <<>> /\ index = 0 /\ step \in {"save", "reload"}

(* A capture puts its row where the ring ends, and its other rows stay.    *)
LEMMA CaptureKeeps ==
    ASSUME TypeOK, RingInv, NewestKept, captureProfileGeneric
    PROVE  /\ NewestKept'
           /\ (fileLen = 0 => index = 0 /\ log = <<>>)'
           /\ (profileEntries # 0 => index < profileEntries)'
<1>1. CASE fileLen = 0
  BY <1>1 DEF captureProfileGeneric, memory, file, NewestKept, RingInv
<1>2. CASE fileLen # 0
  <2>1. PICK row :
            /\ index' = IndexAfter(Counted)
            /\ slots' = [slot \in DOMAIN slots \cup {Slot} |->
                             IF slot = Slot THEN row ELSE slots[slot]]
            /\ fileLen' = Max({fileLen, 4 + (Slot + 1) * captureObjects.size})
            /\ log' = Append(log, row)
            /\ profileEntries' = profileEntries
    BY <1>2 DEF captureProfileGeneric
  <2>2. profileEntries \in Nat /\ index \in Nat /\ log \in Seq(Rows)
    BY DEF TypeOK
  <2>3. fileLen' # 0
    <3>1. captureObjects.size \in Nat /\ fileLen \in Nat
      BY ColumnAssumption DEF TypeOK
    <3>2. 4 + (Slot + 1) * captureObjects.size \in Nat
      BY <3>1, CountedType
    <3> QED
      BY <1>2, <2>1, <3>1, <3>2, MaxOfTwo
  <2>4. (profileEntries # 0 => index < profileEntries)'
    BY <2>1, CountedType
  <2>5. NewestKept'
    <3> SUFFICES ASSUME NEW k \in 1..Len(log'), k <= profileEntries
                 PROVE  LET slot == (index' - k) % profileEntries
                        IN  /\ slot \in DOMAIN slots'
                            /\ slots'[slot] = log'[Len(log') + 1 - k]
      BY <2>1 DEF NewestKept
    <3>1. /\ Len(log) \in Nat /\ Len(log') = Len(log) + 1
          /\ log'[Len(log) + 1] = row
          /\ \A i \in 1..Len(log) : log'[i] = log[i]
          /\ k \in Nat /\ k # 0
      <4>1. log' = Append(log, row)
        BY <2>1
      <4>2. Len(log) \in Nat /\ Len(log') = Len(log) + 1
        BY <2>2, <4>1
      <4> QED
        BY <2>2, <4>1, <4>2
    <3>2. profileEntries # 0 /\ index \in 0..(profileEntries - 1)
      BY <2>2, <3>1 DEF RingInv
    <3>3. Slot = index
      BY <2>2, <3>2, ModSmall DEF Slot
    <3>4. index' = (1 + index) % profileEntries
      BY <2>1, <3>2 DEF IndexAfter
    <3>5. index' = IF index = profileEntries - 1 THEN 0 ELSE index + 1
      <4>1. CASE index = profileEntries - 1
        <5>1. profileEntries % profileEntries = 0
          BY <2>2, <3>2, SMT
        <5> QED
          BY <2>2, <3>4, <4>1, <5>1
      <4>2. CASE index # profileEntries - 1
        <5>1. 1 + index \in 0..(profileEntries - 1)
          BY <2>2, <3>2, <4>2
        <5>2. (1 + index) % profileEntries = 1 + index
          BY <2>2, <3>2, <5>1, ModSmall
        <5> QED
          BY <2>2, <3>2, <3>4, <4>2, <5>2
      <4> QED
        BY <4>1, <4>2
    <3>6. CASE k = 1
      <4>1. (index' - 1) % profileEntries = index
        <5>1. CASE index = profileEntries - 1
          <6>1. 0 - 1 \in (0 - profileEntries)..(0 - 1)
            BY <2>2, <3>2
          <6>2. (0 - 1) % profileEntries = profileEntries - 1
            BY <2>2, <3>2, <6>1, ModBack
          <6> QED
            BY <3>5, <5>1, <6>2
        <5>2. CASE index # profileEntries - 1
          <6>1. index' - 1 = index
            BY <2>2, <3>5, <5>2
          <6> QED
            BY <2>2, <3>2, <6>1, ModSmall
        <5> QED
          BY <5>1, <5>2
      <4> QED
        BY <2>1, <3>1, <3>3, <3>6, <4>1
    <3>7. CASE k # 1
      <4> DEFINE j == k - 1
                 p == (index - j) % profileEntries
      <4>1. j \in 1..Len(log) /\ j <= profileEntries /\ j < profileEntries
        BY <2>2, <3>1, <3>7
      <4>2. p \in DOMAIN slots /\ slots[p] = log[Len(log) + 1 - j]
        BY <4>1 DEF NewestKept
      <4>3. p = IF j <= index THEN index - j ELSE index - j + profileEntries
        <5>1. CASE j <= index
          <6>1. index - j \in 0..(profileEntries - 1)
            BY <2>2, <3>2, <4>1, <5>1
          <6> QED
            BY <2>2, <3>2, <5>1, <6>1, ModSmall
        <5>2. CASE ~(j <= index)
          <6>1. index - j \in (0 - profileEntries)..(0 - 1)
            BY <2>2, <3>2, <4>1, <5>2
          <6> QED
            BY <2>2, <3>2, <5>2, <6>1, ModBack
        <5> QED
          BY <5>1, <5>2
      <4>4. (index' - k) % profileEntries = p
        <5>1. CASE index = profileEntries - 1
          <6>1. index' - k \in (0 - profileEntries)..(0 - 1)
            BY <2>2, <3>1, <3>2, <3>5, <5>1
          <6>2. (index' - k) % profileEntries = index' - k + profileEntries
            BY <2>2, <3>2, <6>1, ModBack
          <6>3. j <= index
            BY <2>2, <3>2, <4>1, <5>1
          <6> QED
            BY <2>2, <3>1, <3>5, <4>3, <5>1, <6>2, <6>3
        <5>2. CASE index # profileEntries - 1
          <6>1. index' - k = index - j
            BY <2>2, <3>1, <3>5, <5>2
          <6> QED
            BY <6>1
        <5> QED
          BY <5>1, <5>2
      <4>5. p # Slot
        BY <2>2, <3>2, <3>3, <4>1, <4>3
      <4>6. p \in DOMAIN slots' /\ slots'[p] = slots[p]
        <5> HIDE DEF p
        <5> QED
          BY <2>1, <4>2, <4>5
      <4>7. log'[Len(log') + 1 - k] = log[Len(log) + 1 - j]
        BY <3>1, <4>1
      <4> QED
        BY <4>2, <4>4, <4>6, <4>7
    <3> QED
      BY <3>6, <3>7
  <2> QED
    BY <2>3, <2>4, <2>5
<1> QED
  BY <1>1, <1>2

LEMMA RingStep ==
    ASSUME TypeOK, RingInv, NewestKept, [Next]_vars
    PROVE  (RingInv /\ NewestKept)'
<1>0. /\ profileEntries \in Nat /\ index \in Nat /\ log \in Seq(Rows)
      /\ saved.entries \in Nat
  BY DEF TypeOK, AllSettings
(* a handler that captures: profileEntries is that of settings.raw *)
<1>1. ASSUME captureProfileGeneric,
             saved.entries = profileEntries, saved'.entries = profileEntries
      PROVE  (RingInv /\ NewestKept)'
  <2>1. profileEntries' = profileEntries
    BY <1>1, CaptureType
  <2> QED
    BY <1>1, <2>1, CaptureKeeps DEF RingInv
(* one that leaves the ring alone, and profileEntries if there is any row *)
<1>2. ASSUME UNCHANGED <<fileLen, index, slots, log>>,
             \/ profileEntries' = profileEntries
             \/ log = <<>> /\ index = 0 /\ profileEntries' \in Nat,
             \/ saved'.entries = profileEntries'
             \/ log' = <<>> /\ index' = 0 /\ step' \in {"save", "reload"}
      PROVE  (RingInv /\ NewestKept)'
  <2>1. CASE profileEntries' = profileEntries
    BY <1>2, <2>1 DEF RingInv, NewestKept
  <2>2. CASE log = <<>> /\ index = 0 /\ profileEntries' \in Nat
    <3>1. NewestKept'
      BY <1>2, <2>2 DEF NewestKept
    <3> QED
      BY <1>2, <2>2, <3>1 DEF RingInv
  <2> QED
    BY <1>2, <2>1, <2>2
<1>3. step \notin {"save", "reload"} => saved.entries = profileEntries
  BY DEF RingInv
<1>4. CASE PowerUp
  <2>1. CASE IsEventLog
    BY <1>1, <1>3, <1>4, <2>1 DEF PowerUp
  <2>2. CASE ~IsEventLog
    BY <1>2, <1>3, <1>4, <2>2 DEF PowerUp, memory, file
  <2> QED
    BY <2>1, <2>2
<1>5. CASE Restart \/ Reload \/ RejectOther
  <2>1. /\ profileEntries' = saved.entries /\ saved' = saved
        /\ UNCHANGED <<fileLen, index, slots, log>>
    BY <1>5 DEF Restart, Reload, RejectOther, loadSettings, file
  <2> QED
    BY <1>0, <1>2, <2>1 DEF RingInv
<1>6. CASE updateState
  BY <1>1, <1>3, <1>6 DEF updateState
<1>7. CASE Clear
  <2>1. index' = 0 /\ log' = <<>>
    BY <1>7 DEF Clear, ClearFile, RingInv
  <2>2. NewestKept'
    BY <2>1 DEF NewestKept
  <2> QED
    BY <1>0, <1>3, <1>7, <2>1, <2>2 DEF Clear, RingInv
<1>8. CASE Capture
  BY <1>1, <1>3, <1>8 DEF Capture
<1>9. CASE Save \/ WriteOther
  <2>1. /\ profileEntries' = profileEntries
        /\ saved'.entries = profileEntries
        /\ UNCHANGED <<fileLen, index, slots, log>>
    BY <1>9 DEF Save, WriteOther, saveSettings, Settings, memory, file
  <2> QED
    BY <1>2, <2>1
<1>10. ASSUME NEW columns \in Columns, SetColumns(columns) \/ RejectColumns(columns)
       PROVE  (RingInv /\ NewestKept)'
  <2>1. /\ log' = <<>> /\ profileEntries' = profileEntries
        /\ fileLen' = fileLen /\ index' = index
        /\ saved'.entries = profileEntries
    BY <1>10 DEF SetColumns, RejectColumns, Set, file
  <2>2. NewestKept'
    BY <2>1 DEF NewestKept
  <2> QED
    BY <2>1, <2>2 DEF RingInv
<1>11. CASE ClearAndCount
  <2>1. index' = 0 /\ log' = <<>> /\ step' \in {"save", "reload"}
    BY <1>11 DEF ClearAndCount, ClearFile, RingInv
  <2>2. profileEntries' \in Nat
    <3>1. Allocated(fileLen) \in Nat
      BY SizeAssumption DEF Allocated, TypeOK
    <3> QED
      BY <1>11, <3>1, MaxRowCountType DEF ClearAndCount, TypeOK
  <2>3. NewestKept'
    BY <2>1 DEF NewestKept
  <2> QED
    BY <2>1, <2>2, <2>3 DEF RingInv
<1>12. CASE GlobalMeterReset
  <2>1. saved'.entries = profileEntries /\ step = "idle" /\ step' = step
    BY <1>12 DEF GlobalMeterReset, saveSettings, Settings
  <2>2. CASE IsEventLog
    BY <1>1, <1>3, <1>12, <2>1, <2>2 DEF GlobalMeterReset
  <2>3. CASE ~IsEventLog
    BY <1>2, <1>12, <2>1, <2>3 DEF GlobalMeterReset, memory, file
  <2> QED
    BY <2>2, <2>3
<1>13. CASE Read
  BY <1>2, <1>3, <1>13 DEF Read, memory, file
<1>14. CASE UNCHANGED vars
  BY <1>14 DEF vars, memory, file, RingInv, NewestKept
<1> QED
  BY <1>4, <1>5, <1>6, <1>7, <1>8, <1>9, <1>10, <1>11, <1>12, <1>13, <1>14 DEF Next

(* The ring holds the newest rows, whatever the power, the client and the  *)
(* columns do.                                                             *)
THEOREM RingKeepsNewest == Spec => []NewestKept
<1>1. Init => RingInv /\ NewestKept
  <2> SUFFICES ASSUME Init PROVE RingInv /\ NewestKept
    OBVIOUS
  <2>1. saved.entries = profileEntries /\ index = 0 /\ log = <<>>
    BY DEF Init, Settings
  <2>2. profileEntries \in Nat
    BY InitType DEF TypeOK
  <2> QED
    BY <2>1, <2>2 DEF RingInv, NewestKept
<1>2. TypeOK /\ RingInv /\ NewestKept /\ [Next]_vars => (RingInv /\ NewestKept)'
  BY RingStep
<1> QED
  BY <1>1, <1>2, TypeCorrect, PTL DEF Spec

-----------------------------------------------------------------------------
(* The count *)

CountInv ==
    /\ clean => /\ saved.inUse <= saved.entries
                /\ step # "save" => saved.inUse <= Len(log)
    /\ step \in {"clear", "clearRejected"} => entriesInUse = 0

LEMMA CaptureCounts ==
    ASSUME TypeOK, NeverOvercounts, captureProfileGeneric, clean'
    PROVE  /\ clean /\ NeverOvercounts'
           /\ Len(log) <= Len(log')
<1>0. /\ entriesInUse \in Nat /\ profileEntries \in Nat /\ log \in Seq(Rows)
      /\ Len(log) \in Nat
      /\ UInt32 \in Nat \ {0}
  BY SizeAssumption DEF TypeOK
<1>1. CASE fileLen = 0
  <2>1. UNCHANGED <<entriesInUse, profileEntries, log>> /\ clean' = clean
    BY <1>1 DEF captureProfileGeneric, memory
  <2>2. clean
    BY <2>1, Zenon
  <2> QED
    BY <1>0, <2>1, <2>2 DEF NeverOvercounts
<1>2. CASE fileLen # 0
  <2>1. /\ entriesInUse' = Counted /\ profileEntries' = profileEntries
        /\ \E row : log' = Append(log, row)
        /\ clean
    BY <1>2 DEF captureProfileGeneric
  <2>2. Len(log') = Len(log) + 1
    BY <1>0, <2>1
  <2>3. (entriesInUse + 1) % UInt32 <= entriesInUse + 1
        /\ (entriesInUse + 1) % UInt32 \in Nat
    BY <1>0, ModNext
  <2> QED
    BY <1>0, <2>1, <2>2, <2>3 DEF NeverOvercounts, Counted
<1> QED
  BY <1>1, <1>2

LEMMA CountStep ==
    ASSUME TypeOK, CountInv, NeverOvercounts, [Next]_vars
    PROVE  (CountInv /\ NeverOvercounts)'
<1>0. /\ entriesInUse \in Nat /\ profileEntries \in Nat /\ log \in Seq(Rows)
      /\ Len(log) \in Nat
      /\ saved.inUse \in Nat /\ saved.entries \in Nat
  BY DEF TypeOK, AllSettings
<1>2. ASSUME captureProfileGeneric, step \notin {"save", "clear", "clearRejected"},
             step' \notin {"clear", "clearRejected"},
             saved' = saved \/ saved' = Settings
      PROVE  (CountInv /\ NeverOvercounts)'
  <2>1. CASE ~clean'
    BY <1>2, <2>1 DEF CountInv, NeverOvercounts
  <2>2. CASE clean'
    <3>1. /\ clean /\ NeverOvercounts'
          /\ Len(log) <= Len(log') /\ Len(log') \in Nat
      BY <1>2, <2>2, CaptureCounts, CaptureType
    <3>2. /\ saved'.inUse <= saved'.entries
          /\ saved'.inUse <= Len(log) /\ saved'.inUse \in Nat
      BY <1>0, <1>2, <3>1 DEF CountInv, NeverOvercounts, Settings
    <3> QED
      BY <1>0, <1>2, <3>1, <3>2 DEF CountInv
  <2> QED
    BY <2>1, <2>2
<1>3. CASE PowerUp
  <2>1. CASE IsEventLog
    BY <1>2, <1>3, <2>1 DEF PowerUp
  <2>2. CASE ~IsEventLog
    BY <1>3, <2>2 DEF PowerUp, memory, file, CountInv, NeverOvercounts
  <2> QED
    BY <2>1, <2>2
<1>4. CASE Restart \/ Reload \/ RejectOther
  <2>1. /\ entriesInUse' = saved.inUse /\ profileEntries' = saved.entries
        /\ saved' = saved /\ log' = log
        /\ step' \notin {"clear", "clearRejected"}
    BY <1>4 DEF Restart, Reload, RejectOther, loadSettings
  <2>2. ASSUME clean' PROVE clean /\ step # "save"
    <3>1. CASE Restart
      BY <2>2, <3>1 DEF Restart
    <3>2. CASE Reload \/ RejectOther
      <4>1. clean' = clean /\ step # "save"
        BY <3>2 DEF Reload, RejectOther
      <4> QED
        BY <2>2, <4>1, Zenon
    <3> QED
      BY <1>4, <3>1, <3>2
  <2> QED
    BY <1>0, <2>1, <2>2 DEF CountInv, NeverOvercounts
<1>5. CASE updateState
  BY <1>2, <1>5 DEF updateState
<1>6. CASE Clear
  <2>1. /\ entriesInUse' = 0 /\ log' = <<>> /\ saved' = saved /\ step' = "save"
        /\ profileEntries' = profileEntries /\ clean' = clean
    BY <1>6 DEF Clear, ClearFile
  <2> QED
    BY <1>0, <2>1 DEF CountInv, NeverOvercounts
<1>7. CASE Capture
  BY <1>2, <1>7 DEF Capture
<1>8. CASE Save \/ WriteOther
  <2>1. /\ saved'.inUse = entriesInUse /\ saved'.entries = profileEntries
        /\ UNCHANGED <<entriesInUse, profileEntries, log, clean>>
        /\ step' \notin {"clear", "clearRejected"}
    BY <1>8 DEF Save, WriteOther, saveSettings, Settings, memory
  <2> QED
    BY <1>0, <2>1 DEF CountInv, NeverOvercounts
<1>9. ASSUME NEW columns \in Columns, SetColumns(columns) \/ RejectColumns(columns)
      PROVE  (CountInv /\ NeverOvercounts)'
  <2>1. /\ entriesInUse' = 0 /\ log' = <<>> /\ profileEntries' = profileEntries
        /\ saved'.inUse = 0 /\ saved'.entries = profileEntries
        /\ clean' = clean
    BY <1>9 DEF SetColumns, RejectColumns, Set
  <2> QED
    BY <1>0, <2>1 DEF CountInv, NeverOvercounts
<1>10. CASE ClearAndCount
  <2>1. /\ entriesInUse' = 0 /\ entriesInUse = 0 /\ log' = <<>>
        /\ saved'.inUse = 0 /\ saved'.entries = profileEntries
        /\ step' \in {"save", "reload"}
    BY <1>10 DEF ClearAndCount, ClearFile, CountInv, saveSettings, Settings
  <2>2. profileEntries' \in Nat
    <3>1. Allocated(fileLen) \in Nat
      BY SizeAssumption DEF Allocated, TypeOK
    <3> QED
      BY <1>10, <3>1, MaxRowCountType DEF ClearAndCount, TypeOK
  <2> QED
    BY <1>0, <2>1, <2>2 DEF CountInv, NeverOvercounts
<1>11. CASE GlobalMeterReset
  <2>1. /\ saved'.inUse = entriesInUse /\ saved'.entries = profileEntries
        /\ saved' = Settings /\ step = "idle" /\ step' = step
    BY <1>11 DEF GlobalMeterReset, saveSettings, Settings
  <2>2. CASE IsEventLog
    BY <1>2, <1>11, <2>1, <2>2 DEF GlobalMeterReset
  <2>3. CASE ~IsEventLog
    BY <1>0, <1>11, <2>1, <2>3
    DEF GlobalMeterReset, memory, file, CountInv, NeverOvercounts
  <2> QED
    BY <2>2, <2>3
<1>12. CASE Read
  BY <1>12 DEF Read, memory, CountInv, NeverOvercounts
<1>13. CASE UNCHANGED vars
  BY <1>13 DEF vars, memory, CountInv, NeverOvercounts
<1> QED
  BY <1>3, <1>4, <1>5, <1>6, <1>7, <1>8, <1>9, <1>10, <1>11, <1>12, <1>13 DEF Next

(* As long as no column is refused and the power does not fail in the      *)
(* middle of a handler, entriesInUse counts captured rows only.            *)
THEOREM OnlyRowsCounted == Spec => []NeverOvercounts
<1>1. Init => CountInv /\ NeverOvercounts
  <2> SUFFICES ASSUME Init PROVE CountInv /\ NeverOvercounts
    OBVIOUS
  <2>1. /\ entriesInUse = 0 /\ log = <<>> /\ step = "start"
        /\ saved.inUse = 0 /\ saved.entries = profileEntries
    BY DEF Init, Settings
  <2>2. profileEntries \in Nat
    BY InitType DEF TypeOK
  <2> QED
    BY <2>1, <2>2 DEF CountInv, NeverOvercounts
<1>2. TypeOK /\ CountInv /\ NeverOvercounts /\ [Next]_vars
        => (CountInv /\ NeverOvercounts)'
  BY CountStep
<1> QED
  BY <1>1, <1>2, TypeCorrect, PTL DEF Spec

-----------------------------------------------------------------------------
(* The count of the logs that settings.raw is saved for at each capture:   *)
(* between two handlers it has the count and the size of memory, and in a  *)
(* handler that changes the columns the buffer is empty.  profileEntries   *)
(* is small enough for the count not to wrap.                              *)
Lesser(a, b) == IF a <= b THEN a ELSE b

SizeInv == profileEntries < UInt32 /\ saved.entries < UInt32

RowsInv ==
    ~IsEventLog /\ clean = TRUE =>
        /\ entriesInUse = Lesser(Len(log), profileEntries)
        /\ step \in {"start", "idle"} =>
               saved.inUse = entriesInUse /\ saved.entries = profileEntries
        /\ step \in {"clear", "clearRejected", "reload"} =>
               saved.inUse = 0 /\ entriesInUse = 0 /\ log = <<>>

LEMMA MinOfTwo ==
    ASSUME NEW a \in Nat, NEW b \in Nat
    PROVE  Min({a, b}) = Lesser(a, b)
<1>1. \E x \in {a, b} : \A y \in {a, b} : x <= y
  OBVIOUS
<1>2. Min({a, b}) \in {a, b} /\ \A y \in {a, b} : Min({a, b}) <= y
  BY <1>1 DEF Min
<1> QED
  BY <1>2 DEF Lesser

LEMMA DivLess ==
    ASSUME NEW x \in Nat, NEW n \in Nat \ {0}
    PROVE  x \div n <= x
  BY SMT

LEMMA MaxRowCountLess ==
    ASSUME NEW len \in Nat, NEW c \in Columns
    PROVE  MaxRowCount(len, c) < UInt32
<1>1. c.size \in Nat /\ UInt16 \in Nat \ {0} /\ UInt32 \in Nat /\ UInt16 < UInt32
  BY ColumnAssumption, SizeAssumption
<1>2. len % UInt16 \in Int
  BY <1>1, ModRange
<1>3. ((len % UInt16) - 4) % UInt16 \in 0..(UInt16 - 1)
  BY <1>1, <1>2, ModRange
<1>4. CASE c.size = 0
  BY <1>1, <1>4 DEF MaxRowCount
<1>5. CASE c.size # 0
  <2> DEFINE x == ((len % UInt16) - 4) % UInt16
  <2>1. x \in Nat /\ x < UInt16
    BY <1>1, <1>3
  <2> HIDE DEF x
  <2>2. x \div c.size <= x /\ x \div c.size \in Nat
    BY <1>1, <1>5, <2>1, DivLess, DivRange
  <2>3. MaxRowCount(len, c) = x \div c.size
    BY <1>5 DEF MaxRowCount, x
  <2> QED
    BY <1>1, <2>1, <2>2, <2>3
<1> QED
  BY <1>4, <1>5

LEMMA SizeStep ==
    ASSUME TypeOK, SizeInv, [Next]_vars
    PROVE  SizeInv'
<1>1. ASSUME profileEntries' = profileEntries \/ profileEntries' = saved.entries,
             saved' = saved \/ saved'.entries = profileEntries
      PROVE  SizeInv'
  BY <1>1 DEF SizeInv
<1>2. CASE ClearAndCount
  <2>1. Allocated(fileLen) \in Nat /\ captureObjects \in Columns
    BY SizeAssumption DEF Allocated, TypeOK
  <2> QED
    BY <1>2, <2>1, MaxRowCountLess
    DEF ClearAndCount, saveSettings, Settings, SizeInv
<1>3. CASE Restart \/ Reload \/ RejectOther
  BY <1>1, <1>3 DEF Restart, Reload, RejectOther, loadSettings
<1>4. CASE PowerUp \/ updateState \/ Capture
  <2>1. profileEntries' = profileEntries
    BY <1>4, CaptureType DEF PowerUp, updateState, Capture, memory
  <2> QED
    BY <1>1, <1>4, <2>1 DEF PowerUp, updateState, Capture
<1>5. CASE GlobalMeterReset
  <2>1. profileEntries' = profileEntries
    BY <1>5, CaptureType DEF GlobalMeterReset, memory
  <2> QED
    BY <1>1, <1>5, <2>1 DEF GlobalMeterReset, saveSettings, Settings
<1>6. CASE Clear \/ Read
  BY <1>1, <1>6 DEF Clear, Read, memory
<1>7. CASE Save \/ WriteOther
  BY <1>1, <1>7 DEF Save, WriteOther, saveSettings, Settings, memory
<1>8. ASSUME NEW columns \in Columns, SetColumns(columns) \/ RejectColumns(columns)
      PROVE  SizeInv'
  BY <1>1, <1>8 DEF SetColumns, RejectColumns, Set
<1>9. CASE UNCHANGED vars
  BY <1>1, <1>9 DEF vars, memory
<1> QED
  BY <1>2, <1>3, <1>4, <1>5, <1>6, <1>7, <1>8, <1>9 DEF Next

LEMMA CaptureOne ==
    ASSUME TypeOK, SizeInv, captureProfileGeneric, clean' = TRUE,
           entriesInUse = Lesser(Len(log), profileEntries)
    PROVE  entriesInUse' = Lesser(Len(log'), profileEntries')
<1>0. /\ entriesInUse \in Nat /\ profileEntries \in Nat /\ log \in Seq(Rows)
      /\ Len(log) \in Nat
      /\ UInt32 \in Nat \ {0} /\ profileEntries < UInt32
  BY SizeAssumption DEF TypeOK, SizeInv
<1>1. CASE fileLen = 0
  BY <1>1 DEF captureProfileGeneric, memory
<1>2. CASE fileLen # 0
  <2>1. /\ entriesInUse' = Counted /\ profileEntries' = profileEntries
        /\ \E row : log' = Append(log, row)
    BY <1>2 DEF captureProfileGeneric
  <2>2. Len(log') = Len(log) + 1
    BY <1>0, <2>1
  <2>3. CASE entriesInUse = profileEntries
    <3>1. profileEntries <= Len(log)
      BY <1>0, <2>3 DEF Lesser
    <3>2. Lesser(Len(log) + 1, profileEntries) = profileEntries
      BY <1>0, <3>1 DEF Lesser
    <3>3. Counted = profileEntries
      BY <2>3 DEF Counted
    <3> QED
      BY <2>1, <2>2, <3>2, <3>3
  <2>4. CASE entriesInUse # profileEntries
    <3>1. entriesInUse = Len(log) /\ Len(log) + 1 <= profileEntries
      BY <1>0, <2>4 DEF Lesser
    <3>2. entriesInUse + 1 \in 0..(UInt32 - 1)
      BY <1>0, <3>1
    <3>3. (entriesInUse + 1) % UInt32 = entriesInUse + 1
      BY <1>0, <3>2, ModSmall
    <3> QED
      BY <1>0, <2>1, <2>2, <2>4, <3>1, <3>3 DEF Counted, Lesser
  <2> QED
    BY <2>3, <2>4
<1> QED
  BY <1>1, <1>2

(* What is clean after a step was clean before.                            *)
LEMMA StaysClean ==
    ASSUME TypeOK, [Next]_vars, clean' = TRUE
    PROVE  clean = TRUE /\ (Restart => step \in {"start", "idle"})
<1>0. clean \in BOOLEAN
  BY DEF TypeOK
<1>1. CASE Restart
  BY <1>0, <1>1, Zenon DEF Restart
<1>2. CASE captureProfileGeneric
  <2>1. clean' = clean \/ \E whole : clean' = (clean /\ whole)
    BY <1>2 DEF captureProfileGeneric
  <2>2. clean = TRUE
    BY <1>0, <2>1, Zenon
  <2>3. Restart => step \in {"start", "idle"}
    BY <1>0, Zenon DEF Restart
  <2> QED
    BY <2>2, <2>3
<1>3. clean' = clean \/ Restart \/ captureProfileGeneric
  BY DEF Next, PowerUp, updateState, Clear, Capture, Save, SetColumns, RejectColumns,
         Set, ClearAndCount, Reload, WriteOther, RejectOther, GlobalMeterReset, Read,
         vars
<1>4. ASSUME clean' = clean, ~Restart
      PROVE  clean = TRUE
  BY <1>4, Zenon
<1> QED
  BY <1>1, <1>2, <1>3, <1>4

LEMMA RowsStep ==
    ASSUME TypeOK, SizeInv, RowsInv, [Next]_vars
    PROVE  RowsInv'
<1> SUFFICES ASSUME ~IsEventLog', clean' = TRUE PROVE RowsInv'
  BY DEF RowsInv
<1>0. /\ entriesInUse \in Nat /\ profileEntries \in Nat /\ log \in Seq(Rows)
      /\ Len(log) \in Nat /\ Len(<<>>) = 0
      /\ saved.inUse \in Nat /\ saved.entries \in Nat
  BY DEF TypeOK, AllSettings
<1>a. ~IsEventLog
  <2>1. object' = object
    BY DEF Next, PowerUp, Restart, updateState, Clear, Capture, Save, SetColumns,
           RejectColumns, Set, ClearAndCount, Reload, WriteOther, RejectOther,
           GlobalMeterReset, Read, vars
  <2> QED
    BY <2>1 DEF IsEventLog
<1>b. clean = TRUE /\ (Restart => step \in {"start", "idle"})
  BY StaysClean
<1>c. /\ entriesInUse = Lesser(Len(log), profileEntries)
      /\ step \in {"start", "idle"} =>
             saved.inUse = entriesInUse /\ saved.entries = profileEntries
      /\ step \in {"clear", "clearRejected", "reload"} =>
             saved.inUse = 0 /\ entriesInUse = 0 /\ log = <<>>
  BY <1>a, <1>b DEF RowsInv
(* a step after which the buffer is empty *)
<1>1. ASSUME entriesInUse' = 0, log' = <<>>, profileEntries' \in Nat,
             step' = "save" \/ (saved'.inUse = 0 /\ step' \in {"clear", "clearRejected", "reload"})
      PROVE  RowsInv'
  BY <1>0, <1>1 DEF RowsInv, Lesser
(* one that leaves the rows and the count *)
<1>2. ASSUME UNCHANGED <<entriesInUse, profileEntries, log>>,
             step' \in {"start", "idle"},
             \/ saved'.inUse = entriesInUse /\ saved'.entries = profileEntries
             \/ saved' = saved /\ step \in {"start", "idle"}
      PROVE  RowsInv'
  BY <1>c, <1>2 DEF RowsInv
<1>3. CASE PowerUp
  BY <1>a, <1>2, <1>3 DEF PowerUp, memory
<1>4. CASE Restart
  BY <1>b, <1>c, <1>2, <1>4 DEF Restart, loadSettings
<1>5. CASE updateState
  BY <1>a, <1>5 DEF updateState
<1>6. CASE Clear
  BY <1>0, <1>1, <1>6 DEF Clear, ClearFile
<1>7. CASE Capture
  <2>1. entriesInUse' = Lesser(Len(log'), profileEntries')
    BY <1>c, <1>7, CaptureOne DEF Capture
  <2> QED
    BY <1>7, <2>1 DEF Capture, RowsInv
<1>8. CASE Save
  BY <1>2, <1>8 DEF Save, saveSettings, Settings, memory
<1>9. ASSUME NEW columns \in Columns, SetColumns(columns) \/ RejectColumns(columns)
      PROVE  RowsInv'
  <2>1. PICK next \in {"clear", "clearRejected"} : Set(columns, next)
    BY <1>9 DEF SetColumns, RejectColumns
  <2>2. saved'.inUse = 0
    BY <2>1 DEF Set
  <2> QED
    BY <1>0, <1>1, <2>1, <2>2 DEF Set
<1>10. CASE ClearAndCount
  <2>1. profileEntries' \in Nat
    <3>1. Allocated(fileLen) \in Nat
      BY SizeAssumption DEF Allocated, TypeOK
    <3> QED
      BY <1>10, <3>1, MaxRowCountType DEF ClearAndCount, TypeOK
  <2>2. entriesInUse = 0 /\ entriesInUse' = 0 /\ log' = <<>> /\ saved'.inUse = 0
    BY <1>c, <1>10 DEF ClearAndCount, ClearFile, saveSettings, Settings
  <2> QED
    BY <1>1, <1>10, <2>1, <2>2 DEF ClearAndCount
<1>11. CASE Reload
  <2>1. /\ entriesInUse' = saved.inUse /\ profileEntries' = saved.entries
        /\ saved' = saved /\ log' = log
        /\ step = "reload" /\ step' = "idle"
    BY <1>11 DEF Reload, loadSettings
  <2> QED
    BY <1>0, <1>c, <2>1 DEF RowsInv, Lesser
<1>12. CASE WriteOther
  BY <1>2, <1>12 DEF WriteOther, saveSettings, Settings, memory
<1>13. CASE Read
  BY <1>2, <1>13 DEF Read, memory
<1>14. CASE RejectOther
  BY <1>c, <1>2, <1>14 DEF RejectOther, loadSettings
<1>15. CASE GlobalMeterReset
  BY <1>a, <1>2, <1>15 DEF GlobalMeterReset, saveSettings, Settings, memory
<1>16. CASE UNCHANGED vars
  BY <1>c, <1>16 DEF vars, memory, RowsInv
<1> QED
  BY <1>3, <1>4, <1>5, <1>6, <1>7, <1>8, <1>9, <1>10, <1>11, <1>12, <1>13, <1>14,
     <1>15, <1>16 DEF Next

(* Between two handlers entriesInUse is the number of the rows captured    *)
(* since the last clear, or of those that fit, in every log but the event  *)
(* log, and until a column is refused or a handler cut short.              *)
THEOREM CountIsRows == Spec => []InUseIsRows
<1>1. Init => SizeInv /\ RowsInv
  <2> SUFFICES ASSUME Init PROVE SizeInv /\ RowsInv
    OBVIOUS
  <2>1. profileEntries \in Nat /\ profileEntries < UInt32
    BY InitType, MaxRowCountLess, ColumnAssumption, SizeAssumption DEF TypeOK, Init
  <2>2. entriesInUse = 0 /\ log = <<>> /\ Len(log) = 0 /\ step = "start"
        /\ saved.inUse = 0 /\ saved.entries = profileEntries
    BY DEF Init, Settings
  <2> QED
    BY <2>1, <2>2 DEF SizeInv, RowsInv, Lesser
<1>2. TypeOK /\ SizeInv /\ RowsInv /\ [Next]_vars => (SizeInv /\ RowsInv)'
  BY SizeStep, RowsStep
<1>3. TypeOK /\ RowsInv => InUseIsRows
  <2> SUFFICES ASSUME TypeOK, RowsInv, ~IsEventLog, step = "idle", clean = TRUE
               PROVE  entriesInUse = Min({Len(log), profileEntries})
    BY Zenon DEF InUseIsRows, RowsCounted
  <2>1. Len(log) \in Nat /\ profileEntries \in Nat
    BY DEF TypeOK
  <2>2. Min({Len(log), profileEntries}) = Lesser(Len(log), profileEntries)
    BY <2>1, MinOfTwo
  <2> QED
    BY <2>2 DEF RowsInv
<1> QED
  BY <1>1, <1>2, <1>3, TypeCorrect, PTL DEF Spec

-----------------------------------------------------------------------------
(* The range search: RangeFound for every buffer and every time range.     *)
(*                                                                         *)
(* The invariant of the loop: among the rows looked at, the indexes        *)
(* delimit those of the time range; last is the time of the row at the end *)
(* index.  When the buffer is in order, a row of the range that follows    *)
(* one has no row outside the range between them.                          *)


Delimits ==
    \A k \in 1..pos :
        InRange(times[k]) <=> transactionStartIndex <= k /\ k <= transactionEndIndex

NoneYet == last = 0 /\ transactionStartIndex = 0 /\ transactionEndIndex = 0

SomeFound ==
    /\ transactionStartIndex \in 1..transactionEndIndex
    /\ transactionEndIndex \in 1..pos
    /\ last = times[transactionEndIndex]

LoopInv == Chronological => (NoneYet \/ SomeFound) /\ Delimits

SearchInv == SearchTypeOK /\ LoopInv

(* The variables keep to their types.                                      *)
THEOREM SearchTypeCorrect == SearchSpec => []SearchTypeOK
<1>1. SearchInit => SearchTypeOK
  BY BufferAssumption DEF SearchInit, SearchTypeOK, rowsInUse
<1>2. SearchTypeOK /\ [SearchNext]_searchVars => SearchTypeOK'
  <2> SUFFICES ASSUME SearchTypeOK, [SearchNext]_searchVars PROVE SearchTypeOK'
    OBVIOUS
  <2>0. /\ times \in Seq(Nat \ {0}) /\ rowsInUse \in Nat
        /\ pos \in 0..rowsInUse
    BY BufferAssumption DEF SearchTypeOK, rowsInUse
  <2>1. ASSUME Looking
        PROVE  /\ pos + 1 \in 1..rowsInUse
               /\ time \in Nat
               /\ times' = times /\ rowsInUse' = rowsInUse
    BY <2>0, <2>1 DEF Looking, rowsInUse, time
  <2>2. CASE Outside
    BY <2>0, <2>1, <2>2 DEF Outside, Looking, SearchTypeOK, found
  <2>3. CASE FirstFound
    BY <2>0, <2>1, <2>3 DEF FirstFound, Looking, SearchTypeOK
  <2>4. CASE NextFound
    BY <2>0, <2>1, <2>4 DEF NextFound, Looking, SearchTypeOK
  <2>5. CASE Wrapped
    BY <2>0, <2>1, <2>5 DEF Wrapped, Looking, SearchTypeOK
  <2>6. CASE UNCHANGED searchVars
    BY <2>6 DEF searchVars, found, SearchTypeOK, rowsInUse
  <2> QED
    BY <2>2, <2>3, <2>4, <2>5, <2>6 DEF SearchNext
<1> QED
  BY <1>1, <1>2, PTL DEF SearchSpec

LEMMA LoopStep ==
    ASSUME SearchTypeOK, LoopInv, [SearchNext]_searchVars
    PROVE  LoopInv'
<1> SUFFICES ASSUME Chronological'
             PROVE  ((NoneYet \/ SomeFound) /\ Delimits)'
  BY DEF LoopInv
<1>0. /\ times \in Seq(Nat \ {0}) /\ rowsInUse \in Nat
      /\ pos \in 0..rowsInUse
      /\ s \in Nat /\ l \in Nat /\ last \in Nat
      /\ transactionStartIndex \in Nat /\ transactionEndIndex \in Nat
  BY BufferAssumption DEF SearchTypeOK, rowsInUse
<1>1. times' = times /\ s' = s /\ l' = l
  BY DEF SearchNext, Outside, FirstFound, NextFound, Wrapped, Looking, searchVars
<1>2. Chronological
  BY <1>1 DEF Chronological
<1>3. (NoneYet \/ SomeFound) /\ Delimits
  BY <1>2 DEF LoopInv
<1>4. \A k \in 1..rowsInUse : times[k] \in Nat /\ times[k] # 0
  BY <1>0 DEF rowsInUse
<1>5. ASSUME Looking
      PROVE  /\ pos + 1 \in 1..rowsInUse
             /\ time \in Nat /\ time # 0 /\ time = times[pos + 1]
             /\ \A k \in 1..pos : times[k] <= time
  <2>1. pos + 1 \in 1..rowsInUse
    BY <1>0, <1>5 DEF Looking
  <2> QED
    BY <1>0, <1>2, <1>4, <2>1 DEF Chronological, time, rowsInUse
<1>6. CASE Outside
  <2>1. NoneYet => NoneYet'
    BY <1>6 DEF Outside, found, NoneYet
  <2>2. SomeFound => SomeFound'
    BY <1>0, <1>1, <1>6 DEF Outside, found, SomeFound
  <2>3. Delimits'
    BY <1>0, <1>1, <1>3, <1>5, <1>6
    DEF Outside, found, Delimits, InRange, NoneYet, SomeFound
  <2> QED
    BY <1>3, <2>1, <2>2, <2>3
<1>7. CASE FirstFound
  <2>1. NoneYet
    BY <1>0, <1>3, <1>4, <1>7 DEF FirstFound, SomeFound
  <2>2. SomeFound'
    BY <1>0, <1>1, <1>5, <1>7 DEF FirstFound, SomeFound
  <2>3. \A k \in 1..pos : ~InRange(times[k])
    BY <1>0, <1>3, <2>1 DEF Delimits, NoneYet
  <2>4. Delimits'
    BY <1>0, <1>1, <1>5, <1>7, <2>3 DEF FirstFound, Delimits, InRange
  <2> QED
    BY <2>2, <2>4
<1>8. CASE NextFound
  <2>1. SomeFound
    BY <1>3, <1>8 DEF NextFound, NoneYet
  <2>2. SomeFound'
    BY <1>0, <1>1, <1>5, <1>8, <2>1 DEF NextFound, SomeFound
  (* no row stands between the last one found and this one *)
  <2>3. transactionEndIndex = pos
    <3>1. SUFFICES ASSUME transactionEndIndex < pos PROVE FALSE
      BY <1>0, <2>1 DEF SomeFound
    <3>2. pos \in 1..pos /\ transactionEndIndex \in 1..pos
      BY <1>0, <2>1, <3>1 DEF SomeFound
    <3>3. InRange(times[transactionEndIndex])
      BY <1>0, <1>3, <2>1, <3>2 DEF Delimits, SomeFound
    <3>4. times[transactionEndIndex] <= times[pos]
      BY <1>0, <1>2, <3>1, <3>2 DEF Chronological, rowsInUse
    <3>5. times[pos] <= time /\ InRange(time)
      BY <1>5, <1>8, <3>2 DEF NextFound
    <3>6. InRange(times[pos])
      BY <1>0, <1>4, <1>5, <1>8, <3>2, <3>3, <3>4, <3>5, SMTT(30) DEF NextFound, InRange
    <3> QED
      BY <1>0, <1>3, <3>1, <3>2, <3>6 DEF Delimits
  <2>4. /\ pos' = pos + 1 /\ transactionEndIndex' = pos + 1
        /\ transactionStartIndex' = transactionStartIndex
    BY <1>8 DEF NextFound
  <2>5. transactionStartIndex <= pos
    BY <1>0, <2>1, <2>3 DEF SomeFound
  <2>6. ASSUME NEW k \in 1..pos
        PROVE  InRange(times[k]) <=> transactionStartIndex <= k
    BY <1>0, <1>3, <2>3 DEF Delimits
  <2>7. InRange(times[pos + 1])
    BY <1>5, <1>8 DEF NextFound
  <2>8. Delimits'
    <3> SUFFICES ASSUME NEW k \in 1..(pos + 1)
                 PROVE  InRange(times[k]) <=> transactionStartIndex <= k /\ k <= pos + 1
      BY <1>1, <2>4 DEF Delimits, InRange
    <3>1. CASE k = pos + 1
      BY <1>0, <2>5, <2>7, <3>1
    <3>2. CASE k \in 1..pos
      BY <1>0, <2>6, <3>2
    <3> QED
      BY <1>0, <3>1, <3>2
  <2> QED
    BY <2>2, <2>8
<1>9. CASE Wrapped
  <2>1. CASE NoneYet
    BY <1>0, <1>5, <1>9, <2>1 DEF Wrapped, NoneYet
  <2>2. CASE SomeFound
    BY <1>0, <1>4, <1>5, <1>9, <2>2 DEF Wrapped, SomeFound
  <2> QED
    BY <1>3, <2>1, <2>2
<1>10. CASE UNCHANGED searchVars
  BY <1>3, <1>10 DEF searchVars, found, NoneYet, SomeFound, Delimits, InRange
<1> QED
  BY <1>6, <1>7, <1>8, <1>9, <1>10 DEF SearchNext

(* The search of a buffer in order finds the rows of the time range.       *)
THEOREM SearchIsRight == SearchSpec => []RangeFound
<1>1. SearchInit => SearchInv
  <2>1. SearchInit => SearchTypeOK
    BY BufferAssumption DEF SearchInit, SearchTypeOK, rowsInUse
  <2>2. SearchInit => NoneYet /\ Delimits
    BY DEF SearchInit, NoneYet, Delimits
  <2> QED
    BY <2>1, <2>2 DEF SearchInv, LoopInv
<1>2. SearchTypeOK /\ SearchTypeOK' /\ LoopInv /\ [SearchNext]_searchVars => LoopInv'
  BY LoopStep
<1>3. SearchTypeOK /\ LoopInv => RangeFound
  <2> SUFFICES ASSUME SearchTypeOK, LoopInv PROVE RangeFound
    OBVIOUS
  <2>1. ASSUME NEW k \in 1..rowsInUse
        PROVE  times[k] \in s..l <=> InRange(times[k])
    <3>1. times[k] \in Nat /\ s \in Nat /\ l \in Nat
      BY BufferAssumption DEF SearchTypeOK, rowsInUse
    <3> QED
      BY <3>1 DEF InRange
  <2> QED
    BY <2>1 DEF LoopInv, Delimits, RangeFound, Finished, SearchTypeOK
<1> QED
  BY <1>1, <1>2, <1>3, SearchTypeCorrect, PTL DEF SearchSpec, SearchInv
=============================================================================
