--------------------------- MODULE RealTimeClock ---------------------------
(***************************************************************************)
(* The date of the firmware.  It is kept three times: by the DS1307 (two   *)
(* digits of a Gregorian year, month and date, in BCD), by the system      *)
(* clock, which main and a write of the clock object set from the DS1307,  *)
(* and by the clients, who read and write Shamsi dates.  time_now reads    *)
(* it, svr_postWrite writes it (exampleserver.c), M2Sh and SH2M convert it *)
(* (Tools.c).                                                              *)
(*                                                                         *)
(* The threads that serve clients share one DS1307_Str, which each fills   *)
(* field by field with what it has read from the chip, or with what it is  *)
(* about to write there, and reads again field by field.                   *)
(*                                                                         *)
(* Times of day are left out: a step of a thread may come before or after  *)
(* a midnight.  A client writes its time with a deviation of 0 or none,    *)
(* as the firmware shows it.                                               *)
(***************************************************************************)
EXTENDS Integers, Sequences

CONSTANTS
    Threads,        \* that read and write the clock
    WriteDates,     \* dates that clients write, Shamsi
    BusyDates,      \* bound: the Shamsi dates on which clients come
    LastYear,       \* bound: the year, of two digits, in which time ends
    MaxWrites       \* bound: writes of the clock

(* The two digits of a year do not go on after 99 *)
ASSUME LastYearAssumption == LastYear \in 0..98

VARIABLES
    chip,           \* registers of the DS1307: time[6], time[5], time[4]
    DS1307_Str,     \* year, month and date of it
    thread,         \* what each thread does: see Idle
    system,         \* the date of the system clock, Gregorian
    today,          \* history: the Shamsi date clients should see
    writes

vars == <<chip, DS1307_Str, thread, system, today, writes>>

Unknown == <<0, 0, 0>>
Blank   == <<1900, 1, 0>>    \* a clock object that was never written
Field   == 1..3             \* year, month, date

-----------------------------------------------------------------------------
(* Tools.c *)

g_days_in_month == <<31, 28, 31, 30, 31, 30, 31, 31, 30, 31, 30, 31>>
j_days_in_month == <<31, 31, 31, 31, 31, 31, 30, 30, 30, 30, 30, 29>>

(* The days of the first i months *)
Days(months) ==
    LET days[i \in 0..12] == IF i = 0 THEN 0 ELSE days[i - 1] + months[i] IN days

Gregorian(y) == (y % 4 = 0 /\ y % 100 # 0) \/ y % 400 = 0   \* a leap year

FromMarch(y, m)   == IF m >= 2 /\ Gregorian(y) THEN 1 ELSE 0    \* mutant: gm > 0
LeapDay(y, m)     == IF m > 2 /\ Gregorian(y) THEN 1 ELSE 0

(* The date in a year of such months, from the day of the year, from 0 *)
DateIn(year, months, n) ==
    LET i == CHOOSE i \in 0..11 : Days(months)[i] <= n /\ (i = 11 \/ n < Days(months)[i + 1])
    IN  <<year, i + 1, n - Days(months)[i] + 1>>

M2Sh(gy0, gm0, gd0) ==
    LET g_y == IF gy0 < 2000 \/ gy0 > 2100 THEN 2012 ELSE gy0
        g_m == IF gm0 = 0 \/ gm0 > 12 THEN 1 ELSE gm0
        g_d == IF gd0 = 0 \/ gd0 > 31 THEN 1 ELSE gd0
        gy  == g_y - 1600
        n   == 365 * gy + (gy + 3) \div 4 - (gy + 99) \div 100 + (gy + 399) \div 400
                 + Days(g_days_in_month)[g_m - 1] + LeapDay(g_y, g_m) + g_d - 1 - 79
        c   == n % 12053            \* the day of the 33 years
        q   == c % 1461             \* the day of the four years
        jy  == 979 + 33 * (n \div 12053) + 4 * (c \div 1461)
    IN  IF q >= 366 THEN DateIn(jy + (q - 1) \div 365, j_days_in_month, (q - 1) % 365)
                    ELSE DateIn(jy, j_days_in_month, q)

SH2M(jy0, jm, jd) ==
    LET jy  == jy0 + 1595
        n   == 365 * jy - 355668 + (jy \div 33) * 8 + ((jy % 33) + 3) \div 4 + jd
                 + IF jm < 7 THEN (jm - 1) * 31 ELSE (jm - 7) * 30 + 186
        c   == n % 146097           \* the day of the 400 years
        d   == (c - 1) % 36524      \* of the century, if it is not the first
        h   == IF c <= 36524 THEN c ELSE IF d >= 365 THEN d + 1 ELSE d
        q   == h % 1461             \* of the four years
        gy  == 400 * (n \div 146097)
                 + (IF c > 36524 THEN 100 * ((c - 1) \div 36524) ELSE 0)
                 + 4 * (h \div 1461) + IF q > 365 THEN (q - 1) \div 365 ELSE 0
        day == IF q > 365 THEN (q - 1) % 365 ELSE q
        months == IF Gregorian(gy) THEN [g_days_in_month EXCEPT ![2] = 29] ELSE g_days_in_month
    IN  DateIn(gy, months, day)

-----------------------------------------------------------------------------
(* connection.c *)

HexTens(n) == n             \* mutant: no BCD
BCD(n)     == ((n \div 10) * 16 + (n % 10)) % 256
Digits(r, tens) == ((r \div 16) % tens) * 10 + (r % 16)

(* DS1307_Set_Time, DS1307_Get_Time: year, month and date *)
Registers(s) == [i \in Field |-> BCD(s[i])]
ShortMask(r) == <<Digits(r[1], 16), Digits(r[2], 2), Digits(r[3], 2)>>  \* mutant
Fields(r)    == <<Digits(r[1], 16), Digits(r[2], 2), Digits(r[3], 4)>>

(* Set_System_Date_Time: a date to mktime *)
SystemDate(s) == <<2000 + s[1], s[2], s[3]>>

(* time_now *)
Shown(s) == M2Sh(s[1] + 2000, s[2], s[3])

(* svr_postWrite: what it puts in DS1307_Str for a Shamsi date.  My - 2000 *)
(* is cast to eight bits.                                                  *)
Put(d) == LET m == SH2M(d[1], d[2], d[3]) IN <<(m[1] - 2000) % 256, m[2], m[3]>>

-----------------------------------------------------------------------------
(* The days, by the calendars themselves *)

NextGregorian(d) ==
    LET last == IF d[2] = 2 /\ Gregorian(d[1]) THEN 29 ELSE g_days_in_month[d[2]]
    IN  IF d[3] < last THEN [d EXCEPT ![3] = @ + 1]
        ELSE IF d[2] < 12 THEN <<d[1], d[2] + 1, 1>> ELSE <<d[1] + 1, 1, 1>>

(* The Shamsi calendar: eight leap years in 33 *)
ShamsiLeap(y) == y % 33 \in {1, 5, 9, 13, 17, 22, 26, 30}

ShamsiMonth(y, m) == IF m = 12 /\ ShamsiLeap(y) THEN 30 ELSE j_days_in_month[m]

NextShamsi(d) ==
    IF d = Unknown THEN Unknown
    ELSE IF d[3] < ShamsiMonth(d[1], d[2]) THEN [d EXCEPT ![3] = @ + 1]
    ELSE IF d[2] < 12 THEN <<d[1], d[2] + 1, 1>> ELSE <<d[1] + 1, 1, 1>>

(* The dates that a year of two digits holds: from 2000/1/1 to 2099/12/31  *)
Held(d) ==
    /\ d \in (1378..1478) \X (1..12) \X (1..31)
    /\ d[3] <= ShamsiMonth(d[1], d[2])
    /\ d[1] = 1378 => d[2] > 10 \/ (d[2] = 10 /\ d[3] >= 11)
    /\ d[1] = 1478 => d[2] < 10 \/ (d[2] = 10 /\ d[3] <= 11)

(* The two digits of each register, as the DS1307 itself counts on from    *)
(* them; of a date that is none nothing is known                           *)
Counted(r) == [i \in Field |-> (r[i] \div 16) * 10 + (r[i] % 16)]
Sound(s) == s[2] \in 1..12 /\ s[3] \in 1..31

-----------------------------------------------------------------------------
(* A thread: the step it is at and the field of it; what it has read from  *)
(* the chip; the date it writes, if it writes; what it has copied from     *)
(* DS1307_Str.  For the history: the date it was when it read the chip,    *)
(* whether midnight has come since it began, and whether what it does is   *)
(* judged                                                                  *)
Idle == [step |-> "idle", pos |-> 1, regs |-> Unknown, date |-> Unknown, got |-> Unknown,
         asked |-> Unknown, night |-> FALSE, clean |-> TRUE]

Others(t)  == {u \in Threads \ {t} : thread[u].step # "idle"}
Writing(u) == thread[u].date # Unknown
Old(u)     == thread[u].asked \notin {Unknown, today}

(* The first day of 1379 *)
FirstDay == <<2000, 3, 20>>

Init ==
    /\ today = <<1379, 1, 1>>
    /\ system = FirstDay
    /\ chip = Registers([FirstDay EXCEPT ![1] = @ - 2000])
    /\ DS1307_Str = Unknown
    /\ thread = [t \in Threads |-> Idle]
    /\ writes = 0

(* A client reads the clock (d = Unknown), or writes it.  Readers share    *)
(* DS1307_Str without harm while they all read the same date there; from a *)
(* writer nobody else, and a writer from nobody, is sure of what it reads  *)
FirstStep(d) == IF d = Unknown THEN "get" ELSE "put"

Enter(t, d, proper) ==
    LET clash == \E u \in Others(t) : d # Unknown \/ Writing(u) \/ Old(u)
    IN  /\ thread[t].step = "idle"
        /\ today \in BusyDates
        /\ thread' = [u \in Threads |->
                        IF u = t THEN [Idle EXCEPT !.step = FirstStep(d), !.date = d,
                                                   !.clean = proper /\ ~clash]
                        ELSE [thread[u] EXCEPT !.clean = @ /\ (clash => u \notin Others(t))]]

Read(t) ==
    /\ Enter(t, Unknown, TRUE)
    /\ UNCHANGED <<chip, DS1307_Str, system, today, writes>>

(* svr_postWrite does not ask which attribute was written, or whether the  *)
(* write was refused: then it sets the date that was last written, or none.*)
(* No more is known of the date after that, nor after one the chip cannot  *)
(* hold                                                                    *)
Write(t) ==
    /\ writes < MaxWrites
    /\ writes' = writes + 1
    /\ \/ \E d \in WriteDates : Enter(t, d, Held(d))
       \/ \E d \in WriteDates \cup {Blank} : Enter(t, d, FALSE)
    /\ UNCHANGED <<chip, DS1307_Str, system, today>>

At(t, step) == thread[t].step = step

(* On to the next field, or to the step that follows the last one *)
Onward(r, next) == IF r.pos < 3 THEN [r EXCEPT !.pos = @ + 1]
                   ELSE [r EXCEPT !.pos = 1, !.step = next]

PutField(t) ==
    LET r == thread[t]
    IN  /\ At(t, "put")
        /\ DS1307_Str' = [DS1307_Str EXCEPT ![r.pos] = Put(r.date)[r.pos]]
        /\ thread' = [thread EXCEPT ![t] = Onward(@, "copy")]
        /\ UNCHANGED <<chip, system, today, writes>>

(* The argument of DS1307_Set_Time; and what time_now and                  *)
(* Set_System_Date_Time take from DS1307_Str                               *)
CopyField(t) ==
    LET r == [thread[t] EXCEPT !.got[thread[t].pos] = DS1307_Str[thread[t].pos]]
    IN  /\ At(t, "copy") \/ At(t, "load")
        /\ thread' = [thread EXCEPT ![t] = Onward(r, IF At(t, "copy") THEN "set" ELSE "done")]
        /\ UNCHANGED <<chip, DS1307_Str, system, today, writes>>

SetChip(t) ==
    /\ At(t, "set")
    /\ chip' = Registers(thread[t].got)
    /\ today' = IF thread[t].clean THEN thread[t].date ELSE Unknown
    /\ thread' = [thread EXCEPT ![t].step = "get"]
    /\ UNCHANGED <<DS1307_Str, system, writes>>

GetChip(t) ==
    /\ At(t, "get")
    /\ thread' = [thread EXCEPT ![t].step = "fill", ![t].regs = chip, ![t].asked = today]
    /\ UNCHANGED <<chip, DS1307_Str, system, today, writes>>

FillField(t) ==
    LET r == thread[t]
    IN  /\ At(t, "fill")
        /\ DS1307_Str' = [DS1307_Str EXCEPT ![r.pos] = Fields(r.regs)[r.pos]]
        /\ thread' = [thread EXCEPT ![t] = Onward(@, "load")]
        /\ UNCHANGED <<chip, system, today, writes>>

(* DS1307_Str matters no more when nobody uses it: all fill it first *)
Leave(t) ==
    /\ thread' = [thread EXCEPT ![t] = Idle]
    /\ DS1307_Str' = IF Others(t) = {} THEN Unknown ELSE DS1307_Str

Answer(t) ==
    /\ At(t, "done") /\ ~Writing(t)
    /\ Leave(t)
    /\ UNCHANGED <<chip, system, today, writes>>

(* settimeofday.  If midnight came after the chip was read, the system     *)
(* clock is set to just before it, and its own comes right after           *)
SetSystem(t) ==
    LET date == SystemDate(thread[t].got)
    IN  /\ At(t, "done") /\ Writing(t)
        /\ system' = IF Old(t) /\ thread[t].clean THEN NextGregorian(date) ELSE date
        /\ today' = IF thread[t].clean THEN today ELSE Unknown
        /\ Leave(t)
        /\ UNCHANGED <<chip, writes>>

(* The DS1307 and the system clock go on by a day, and so does the date,   *)
(* if it is known (bounds: else time stops, and a request takes no longer  *)
(* than a day)                                                             *)
Midnight ==
    /\ today # Unknown
    /\ Counted(chip)[1] <= LastYear
    /\ Sound(Counted(chip))
    /\ \A t \in Threads : ~thread[t].night
    /\ LET next == NextGregorian(SystemDate(Counted(chip)))
       IN  chip' = Registers([next EXCEPT ![1] = @ % 100])
    /\ system' = NextGregorian(system)
    /\ today' = NextShamsi(today)
    /\ thread' = [t \in Threads |->
                    IF At(t, "idle") THEN thread[t]
                    ELSE [thread[t] EXCEPT !.night = TRUE, !.clean = @ /\ Others(t) = {}]]
    /\ UNCHANGED <<DS1307_Str, writes>>

(* main, after a power failure or an exit at any moment *)
KeepSystem == system        \* mutant: main does not set the system clock
BootSystem == SystemDate(Fields(chip))

Restart ==
    /\ \E t \in Threads : ~At(t, "idle")
    /\ thread' = [t \in Threads |-> Idle]
    /\ DS1307_Str' = Unknown
    /\ system' = BootSystem
    /\ UNCHANGED <<chip, today, writes>>

Next ==
    \/ Midnight
    \/ Restart
    \/ \E t \in Threads : \/ Read(t)
                          \/ Write(t)
                          \/ PutField(t)
                          \/ CopyField(t)
                          \/ SetChip(t)
                          \/ GetChip(t)
                          \/ FillField(t)
                          \/ Answer(t)
                          \/ SetSystem(t)

Spec == Init /\ [][Next]_vars

-----------------------------------------------------------------------------
(* The DS1307 holds the date, through leap years of both calendars and     *)
(* from one century to the next: as time_now shows it, it is the date that *)
(* was last written, counted on by the calendar of the clients.            *)
RightDay == today # Unknown => Shown(Fields(chip)) = today

(* A client that writes the date, whatever it is, reads the same date      *)
(* back: SH2M, M2Sh and the two digits of the chip lose nothing.           *)
ReadsBack == today # Unknown => Shown(Fields(Registers(Put(today)))) = today

(* The system clock, by which logs and certificates go, has the date of    *)
(* the DS1307, unless a write is just coming to it: also when the firmware *)
(* was stopped in between.                                                 *)
SystemAgrees ==
    \/ today = Unknown
    \/ \E t \in Threads : Writing(t) /\ thread[t].step \in {"get", "fill", "load", "done"}
    \/ system = SystemDate(Fields(chip))

(* Who reads the clock is shown the date of the moment the chip was read,  *)
(* from DS1307_Str that all share, if nobody writes it meanwhile and no    *)
(* two read it from different days.                                        *)
AnswerIsToday ==
    \A t \in Threads : LET r == thread[t]
                       IN  At(t, "done") /\ ~Writing(t) /\ r.clean /\ r.asked # Unknown
                             => Shown(r.got) = r.asked
=============================================================================
