------------------------------ MODULE DiffTime ------------------------------
(***************************************************************************)
(* The clock arithmetic behind every time-out: diff_time_ms (the gateway's *)
(* wait for the meter) and diff_time_s (the inactivity time-out of the     *)
(* client socket).  A wait starts with a gettimeofday; it is tested later  *)
(* against a second one, of a clock that may have been set in between, to  *)
(* a full second of the real-time clock.  Times are in microseconds since  *)
(* the epoch; a struct timeval splits one at the second.  The differences  *)
(* are of type long, 32 bits wide on the modem, and wrap; that in          *)
(* milliseconds is compared with a uint32_t, which makes it unsigned, that *)
(* in seconds with a uint16_t, which does not.                             *)
(***************************************************************************)
EXTENDS Integers

CONSTANTS
    StartTimes,   \* times of day at which a wait may start
    Steps,        \* the time that may pass between two polls
    SetSeconds,   \* to what a client may set the clock
    MaxTime,      \* bound: where the clock stops
    LongLimit,    \* a long is less than this (2^31)
    Timeout_ms, inactivityTimeout

ASSUME TimeAssumption ==
    StartTimes \subseteq Nat /\ Steps \subseteq Nat /\ SetSeconds \subseteq Nat /\ MaxTime \in Nat
ASSUME WidthAssumption ==
    /\ LongLimit \in Nat \ {0}
    /\ Timeout_ms \in 0..(2 * LongLimit - 1) /\ inactivityTimeout \in 0..(LongLimit - 1)

VARIABLES
    start,   \* timeout_start or Inctivity_start_timeout
    now,     \* what gettimeofday returns
    waited,  \* the time that has really passed in this wait
    shift    \* history: how far the clock has been set forward in it

waitVars == <<start, now, waited, shift>>

USEC_PER_SEC == 1000000
USEC_PER_MS  == 1000
MS_PER_SEC   == 1000

timeval(t) == [tv_sec |-> t \div USEC_PER_SEC, tv_usec |-> t % USEC_PER_SEC]

Swapped(tv, st) ==   \* mutant: the operands the other way round
    LET diff == st.tv_usec - tv.tv_usec IN IF diff < 0 THEN diff + USEC_PER_SEC ELSE diff

(* the difference of the tv_usec fields, a second added when it is         *)
(* negative; that second is not taken from the tv_sec fields               *)
diff_usec(tv, st) ==
    LET diff == tv.tv_usec - st.tv_usec IN IF diff < 0 THEN diff + USEC_PER_SEC ELSE diff

Long(n)     == ((n + LongLimit) % (2 * LongLimit)) - LongLimit
Unsigned(n) == n % (2 * LongLimit)

diff_time_ms(tv, st) ==
    Long(diff_usec(tv, st) \div USEC_PER_MS + (tv.tv_sec - st.tv_sec) * MS_PER_SEC)

diff_time_s(tv, st) ==
    Long(diff_usec(tv, st) \div USEC_PER_SEC + (tv.tv_sec - st.tv_sec))

WaitInit == start \in StartTimes /\ now = start /\ waited = 0 /\ shift = 0

(* gettimeofday(&start, NULL): a new wait *)
StartWait ==
    /\ start' = now
    /\ waited' = 0
    /\ shift' = 0
    /\ UNCHANGED now

Pass(d) ==
    /\ now + d <= MaxTime
    /\ waited + d <= MaxTime
    /\ now' = now + d
    /\ waited' = waited + d
    /\ UNCHANGED <<start, shift>>

(* Set_System_Date_Time: tv_usec is 0 *)
SetClock(sec) ==
    /\ now' = sec * USEC_PER_SEC
    /\ shift' = shift + now' - now
    /\ UNCHANGED <<start, waited>>

WaitNext ==
    \/ StartWait
    \/ \E d \in Steps : Pass(d)
    \/ \E sec \in SetSeconds : SetClock(sec)

WaitSpec == WaitInit /\ [][WaitNext]_waitVars

-----------------------------------------------------------------------------
milliseconds == diff_time_ms(timeval(now), timeval(start))
seconds      == diff_time_s(timeval(now), timeval(start))

AsSigned(n)   == n > Timeout_ms     \* mutant: as if both were signed
TimesOut_ms(n) == Unsigned(n) > Timeout_ms

(* GW_Run, in each of its three waits; Socket_Manage_Thread *)
MeterTimesOut == TimesOut_ms(milliseconds)
ConnectionTimesOut == seconds > inactivityTimeout /\ inactivityTimeout > 0

-----------------------------------------------------------------------------
(* Properties *)

(* the time passed as the clock has it, less than none when it was set back *)
elapsed    == waited + shift
elapsed_ms == elapsed \div USEC_PER_MS
elapsed_s  == elapsed \div USEC_PER_SEC

WaitTypeOK == start \in Nat /\ now \in Nat /\ waited \in Nat /\ shift \in Int

(* A wait of less than 2^32 milliseconds (49 days), as the clock has it,   *)
(* is timed out by GW_Run neither late nor more than a second early.       *)
MeterInTime ==
    0 <= elapsed_ms /\ elapsed_ms + MS_PER_SEC < 2 * LongLimit =>
        /\ elapsed_ms > Timeout_ms => MeterTimesOut
        /\ MeterTimesOut => elapsed_ms + MS_PER_SEC > Timeout_ms

(* The same of the inactivity time-out of the connection, for less than    *)
(* 2^31 seconds; it allows for a clock that was set back, too.             *)
ConnectionInTime ==
    inactivityTimeout > 0 /\ -LongLimit <= elapsed_s /\ elapsed_s + 1 < LongLimit =>
        /\ elapsed_s > inactivityTimeout => ConnectionTimesOut
        /\ ConnectionTimesOut => elapsed_s + 1 > inactivityTimeout

(* A time-out of n milliseconds or seconds comes late only by as much as   *)
(* the clock was set back during the wait, and early by no more than a     *)
(* second and as much as it was set forward.                               *)
WithinASecond == MeterInTime /\ ConnectionInTime

(* Set back to more than a second before the wait began, by less than the  *)
(* 2^32 milliseconds all but the time-out, the clock ends the wait of      *)
(* GW_Run at once, whatever has passed of it: the negative difference is   *)
(* compared as an unsigned number.                                         *)
SetBackEndsWait ==
    elapsed_ms + MS_PER_SEC < 0 /\ elapsed_ms + 2 * LongLimit > Timeout_ms => MeterTimesOut

(* The difference in milliseconds is the time elapsed in milliseconds      *)
(* (connection.c: "calculating time differential based on milli-second").  *)
DiffIsElapsed == milliseconds = elapsed_ms
=============================================================================
