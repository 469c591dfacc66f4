----------------------------- MODULE RingSearch -----------------------------
(***************************************************************************)
(* getProfileGenericDataByRangeFromRingBuffer of exampleserver.c: one pass *)
(* over the rows in use of a profile generic file, in the order they have  *)
(* in the file, to find those captured from start time s to end time l.    *)
(* One step is one iteration of its loop.                                  *)
(***************************************************************************)
EXTENDS Integers, Sequences

CONSTANTS
    Buffers,   \* the times of capture a file may hold, row by row
    Bounds     \* the start and end times a client may ask for

ASSUME BufferAssumption ==
    /\ Buffers \subseteq Seq(Nat \ {0})
    /\ Bounds \subseteq Nat

VARIABLES
    times,   \* the rows in use
    s, l,    \* the time range
    pos,     \* rows looked at
    last,    \* time of the last row found, 0 before the first
    transactionStartIndex, transactionEndIndex

found      == <<last, transactionStartIndex, transactionEndIndex>>
searchVars == <<times, s, l, pos, found>>

rowsInUse == Len(times)

OpenRange(t) == t > s /\ t < l   \* mutant: the bounds left out
InRange(t)   == t >= s /\ t <= l

SearchInit ==
    /\ times \in Buffers
    /\ s \in Bounds /\ l \in Bounds
    /\ pos = 0 /\ last = 0
    /\ transactionStartIndex = 0 /\ transactionEndIndex = 0

(* fread: the time of the next row *)
time == times[pos + 1]

Looking == pos # rowsInUse /\ UNCHANGED <<times, s, l>>

Outside ==
    /\ Looking /\ ~InRange(time)
    /\ pos' = pos + 1
    /\ UNCHANGED found

FirstFound ==
    /\ Looking /\ InRange(time) /\ last = 0
    /\ transactionStartIndex' = pos + 1 /\ transactionEndIndex' = pos + 1
    /\ last' = time
    /\ pos' = pos + 1

NextFound ==
    /\ Looking /\ InRange(time) /\ last # 0 /\ last <= time
    /\ transactionEndIndex' = pos + 1
    /\ last' = time
    /\ pos' = pos + 1
    /\ UNCHANGED transactionStartIndex

(* a row older than the one before: the loop ends *)
Wrapped ==
    /\ Looking /\ InRange(time) /\ last > time
    /\ transactionEndIndex' =
           (IF transactionEndIndex = 0 THEN 1 ELSE transactionEndIndex)
               + rowsInUse - 1
    /\ transactionStartIndex' = pos
    /\ pos' = rowsInUse
    /\ UNCHANGED last

SearchNext == Outside \/ FirstFound \/ NextFound \/ Wrapped

SearchSpec == SearchInit /\ [][SearchNext]_searchVars

-----------------------------------------------------------------------------
(* Properties *)

SearchTypeOK ==
    /\ times \in Buffers /\ s \in Bounds /\ l \in Bounds
    /\ pos \in 0..rowsInUse
    /\ last \in Nat
    /\ transactionStartIndex \in Nat /\ transactionEndIndex \in Nat

(* the ring has not wrapped, and the clock was never set back *)
Chronological == \A i, j \in 1..Len(times) : i <= j => times[i] <= times[j]

Finished == pos = rowsInUse

(* In a buffer that has not wrapped, the rows from start index to end      *)
(* index are those of the time range, all of them and no other; 0 and 0    *)
(* mean there is none.                                                     *)
RangeFound ==
    Chronological /\ Finished =>
        \A k \in 1..rowsInUse :
            times[k] \in s..l <=>
                transactionStartIndex <= k /\ k <= transactionEndIndex

(* The same in a ring that has wrapped, where the index after the last row *)
(* is that of the first ("Find start index and row count using start and   *)
(* end date time").                                                        *)
RangeFoundInRing ==
    Finished /\ last # 0 =>
        {k \in 1..rowsInUse : times[k] \in s..l} =
            {((k - 1) % rowsInUse) + 1 :
                k \in transactionStartIndex..transactionEndIndex}
=============================================================================
