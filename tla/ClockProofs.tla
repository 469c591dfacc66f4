---------------------------- MODULE ClockProofs -----------------------------
(***************************************************************************)
(* Proofs about the clocks.  DiffTime: every time-out is measured right to *)
(* within a second, for all starting times and steps, as far as a long     *)
(* goes; a clock that is set back ends a wait.  RealTimeClock: the         *)
(* dates of the DS1307, of the system clock and of the clients agree, for  *)
(* all threads, dates written and bounds, on every day from 2000/1/1 to    *)
(* 2099/12/31.  It rests on the two calendars (the conversions M2Sh and    *)
(* SH2M are inverse and go on from day to day as NextShamsi and            *)
(* NextGregorian do) and on an invariant of the threads.                   *)
(***************************************************************************)
EXTENDS DiffTime, RealTimeClock, TLAPS

-----------------------------------------------------------------------------
(* DiffTime *)

(* A time is split at the second, and put together again. *)
LEMMA Split ==
    ASSUME NEW t \in Nat
    PROVE  LET q == timeval(t).tv_sec   r == timeval(t).tv_usec
           IN  /\ q \in Int /\ r \in Int /\ 0 <= r /\ r < USEC_PER_SEC
               /\ r = t - USEC_PER_SEC * q
<1>1. t \div USEC_PER_SEC \in Int /\ t % USEC_PER_SEC \in Int
  BY SMT DEF USEC_PER_SEC
<1>2. 0 <= t % USEC_PER_SEC /\ t % USEC_PER_SEC < USEC_PER_SEC
  BY SMT DEF USEC_PER_SEC
<1>3. t % USEC_PER_SEC = t - USEC_PER_SEC * (t \div USEC_PER_SEC)
  BY SMT DEF USEC_PER_SEC
<1> QED BY <1>1, <1>2, <1>3 DEF timeval

(* q seconds and r microseconds make q whole seconds and 1000 * q whole    *)
(* milliseconds and those of r.                                            *)
LEMMA Whole ==
    ASSUME NEW q \in Int, NEW r \in Int, 0 <= r, r < USEC_PER_SEC
    PROVE  LET e == USEC_PER_SEC * q + r
           IN  /\ e \div USEC_PER_SEC = q
               /\ e \div USEC_PER_MS = r \div USEC_PER_MS + q * MS_PER_SEC
               /\ r \div USEC_PER_SEC = 0
               /\ r \div USEC_PER_MS \in Int
<1>1. (USEC_PER_SEC * q + r) \div USEC_PER_SEC = q
  BY SMT DEF USEC_PER_SEC
<1>2. (USEC_PER_SEC * q + r) \div USEC_PER_MS = r \div USEC_PER_MS + q * MS_PER_SEC
  BY SMT DEF USEC_PER_SEC, USEC_PER_MS, MS_PER_SEC
<1>3. r \div USEC_PER_SEC = 0 /\ r \div USEC_PER_MS \in Int
  BY SMT DEF USEC_PER_SEC, USEC_PER_MS
<1> QED BY <1>1, <1>2, <1>3

(* The two differences before they are cut to a long *)
exact_ms(tv, st) == diff_usec(tv, st) \div USEC_PER_MS + (tv.tv_sec - st.tv_sec) * MS_PER_SEC
exact_s(tv, st)  == diff_usec(tv, st) \div USEC_PER_SEC + (tv.tv_sec - st.tv_sec)

(* The two differences are right when tv_usec has not wrapped and a second *)
(* too large when it has.                                                  *)
LEMMA ExactDifferences ==
    ASSUME NEW a \in Nat, NEW b \in Nat
    PROVE  LET m == exact_ms(timeval(b), timeval(a))
               n == exact_s(timeval(b), timeval(a))
               e == b - a
           IN  /\ m = e \div USEC_PER_MS \/ m = e \div USEC_PER_MS + MS_PER_SEC
               /\ n = e \div USEC_PER_SEC \/ n = e \div USEC_PER_SEC + 1
<1> DEFINE q  == timeval(b).tv_sec - timeval(a).tv_sec
           du == timeval(b).tv_usec - timeval(a).tv_usec
           r  == diff_usec(timeval(b), timeval(a))
<1>1. q \in Int /\ du \in Int /\ b - a = USEC_PER_SEC * q + du
  BY Split, SMT DEF USEC_PER_SEC
<1>2. -USEC_PER_SEC < du /\ du < USEC_PER_SEC
  BY Split, SMT DEF USEC_PER_SEC
<1>3. r = IF du < 0 THEN du + USEC_PER_SEC ELSE du
  BY DEF diff_usec
<1>4. /\ exact_ms(timeval(b), timeval(a)) = r \div USEC_PER_MS + q * MS_PER_SEC
      /\ exact_s(timeval(b), timeval(a)) = r \div USEC_PER_SEC + q
  BY DEF exact_ms, exact_s
<1> HIDE DEF q, du, r
<1>5. r \in Int /\ 0 <= r /\ r < USEC_PER_SEC
  BY <1>1, <1>2, <1>3, SMT DEF USEC_PER_SEC
<1>6. CASE du < 0
  <2>1. q - 1 \in Int /\ b - a = USEC_PER_SEC * (q - 1) + r
    BY <1>1, <1>3, <1>6, SMT DEF USEC_PER_SEC
  <2>2. /\ (b - a) \div USEC_PER_SEC = q - 1
        /\ (b - a) \div USEC_PER_MS = r \div USEC_PER_MS + (q - 1) * MS_PER_SEC
        /\ r \div USEC_PER_SEC = 0 /\ r \div USEC_PER_MS \in Int
    BY <1>5, <2>1, Whole
  <2>3. /\ q = (q - 1) + 1
        /\ r \div USEC_PER_MS + q * MS_PER_SEC
             = (r \div USEC_PER_MS + (q - 1) * MS_PER_SEC) + MS_PER_SEC
    BY <1>1, <2>2, SMT DEF MS_PER_SEC
  <2>4. 0 + q = q
    BY <1>1, SMT
  <2> QED BY <1>4, <2>2, <2>3, <2>4
<1>7. CASE ~(du < 0)
  <2>1. r = du
    BY <1>3, <1>7
  <2>2. /\ (b - a) \div USEC_PER_SEC = q
        /\ (b - a) \div USEC_PER_MS = r \div USEC_PER_MS + q * MS_PER_SEC
        /\ r \div USEC_PER_SEC = 0
    BY <1>1, <1>5, <2>1, Whole
  <2>3. 0 + q = q
    BY <1>1, SMT
  <2> QED BY <1>4, <2>2, <2>3
<1> QED BY <1>6, <1>7

(* A remainder is what it takes to come into range *)
LEMMA Remainder ==
    ASSUME NEW n \in Int, NEW m \in Nat \ {0}, NEW q \in Int, NEW r \in Int,
           n = q * m + r, 0 <= r, r < m
    PROVE  n % m = r
<1>1. n % m \in 0..(m - 1) /\ n = m * (n \div m) + (n % m) /\ n \div m \in Int
  BY SMT
<1>2. PICK k, s \in Int : k = n \div m /\ s = n % m
  BY <1>1
<1>3. 0 <= s /\ s < m /\ n = m * k + s
  BY <1>1, <1>2, SMT
<1>4. PICK d \in Int : d = q - k
  BY SMT
<1>5. m * d = s - r
  <2>1. q = k + d
    BY <1>4, SMT
  <2>2. n = (k + d) * m + r
    BY <2>1
  <2>3. (k + d) * m = m * k + m * d
    BY SMT
  <2> QED BY <1>3, <2>2, <2>3, SMT
<1>6. d = 0
  <2>1. ASSUME d >= 1 PROVE FALSE
    <3>1. PICK c \in Nat : d = c + 1
      BY <2>1, SMT
    <3>2. m * d = m * c + m /\ m * c \in Nat
      BY <3>1, SMT
    <3> QED BY <1>3, <1>5, <3>2, SMT
  <2>2. ASSUME d <= -1 PROVE FALSE
    <3>1. PICK c \in Nat : d = -c - 1
      BY <2>2, SMT
    <3>2. m * d = -(m * c) - m /\ m * c \in Nat
      BY <3>1, SMT
    <3> QED BY <1>3, <1>5, <3>2, SMT
  <2> QED BY <2>1, <2>2, SMT
<1>7. m * 0 = 0
  BY SMT
<1> QED BY <1>2, <1>5, <1>6, <1>7, SMT

(* A number in the range of a long is not changed by it *)
LEMMA LongIs == ASSUME NEW n \in Int, -LongLimit <= n, n < LongLimit PROVE Long(n) = n
<1>1. PICK m \in Nat \ {0} : m = 2 * LongLimit
  BY WidthAssumption, SMT
<1>2. PICK k \in Nat : k = n + LongLimit /\ k < m
  BY <1>1, WidthAssumption, SMT
<1>3. k % m = k
  BY <1>2, Remainder, SMT
<1> QED BY <1>1, <1>2, <1>3, WidthAssumption, SMT DEF Long

(* Cut to a long and taken as unsigned, a number is brought to between 0   *)
(* and 2^32                                                                *)
LEMMA UnsignedLong ==
    ASSUME NEW n \in Int, NEW r \in Int, 0 <= r, r < 2 * LongLimit,
           n = r \/ n = r - 2 * LongLimit
    PROVE  Unsigned(Long(n)) = r
<1>1. PICK L \in Nat \ {0}, m \in Nat \ {0} : L = LongLimit /\ m = 2 * L /\ r < m
  BY WidthAssumption, SMT
<1>2. Long(n) = ((n + L) % m) - L /\ \A k : Unsigned(k) = k % m
  BY <1>1 DEF Long, Unsigned
<1>3. r % m = r /\ (r - m) % m = r
  BY <1>1, Remainder, SMT
<1>4. CASE r < L
  <2>1. r + L \in Int /\ 0 <= r + L /\ r + L < m
    BY <1>1, <1>4, SMT
  <2>2. (n + L) % m = r + L
    <3>1. CASE n = r
      <4>1. n + L \in Int /\ 0 \in Int /\ n + L = 0 * m + (r + L)
        BY <1>1, <3>1, SMT
      <4> QED BY <2>1, <4>1, Remainder
    <3>2. CASE n = r - m
      <4>1. n + L \in Int /\ -1 \in Int /\ n + L = (-1) * m + (r + L)
        BY <1>1, <3>2, SMT
      <4> QED BY <2>1, <4>1, Remainder
    <3> QED BY <1>1, <3>1, <3>2
  <2>3. Long(n) = r
    BY <1>1, <1>2, <2>2, SMT
  <2> QED BY <1>2, <1>3, <2>3
<1>5. CASE L <= r
  <2>1. r - L \in Int /\ 0 <= r - L /\ r - L < m
    BY <1>1, <1>5, SMT
  <2>2. (n + L) % m = r - L
    <3>1. CASE n = r
      <4>1. n + L \in Int /\ 1 \in Int /\ n + L = 1 * m + (r - L)
        BY <1>1, <3>1, SMT
      <4> QED BY <2>1, <4>1, Remainder
    <3>2. CASE n = r - m
      <4>1. n + L \in Int /\ 0 \in Int /\ n + L = 0 * m + (r - L)
        BY <1>1, <3>2, SMT
      <4> QED BY <2>1, <4>1, Remainder
    <3> QED BY <1>1, <3>1, <3>2
  <2>3. Long(n) = r - m
    BY <1>1, <1>2, <2>2, SMT
  <2> QED BY <1>2, <1>3, <2>3
<1> QED BY <1>1, <1>4, <1>5, SMT

(* The differences the code computes, as long as they fit *)
LEMMA Differences ==
    ASSUME NEW a \in Nat, NEW b \in Nat
    PROVE  \E m, n \in Int :
              /\ diff_time_ms(timeval(b), timeval(a)) = Long(m)
              /\ diff_time_s(timeval(b), timeval(a)) = Long(n)
              /\ m = (b - a) \div USEC_PER_MS \/ m = (b - a) \div USEC_PER_MS + MS_PER_SEC
              /\ n = (b - a) \div USEC_PER_SEC \/ n = (b - a) \div USEC_PER_SEC + 1
<1> DEFINE m == exact_ms(timeval(b), timeval(a))
           n == exact_s(timeval(b), timeval(a))
<1>1. diff_time_ms(timeval(b), timeval(a)) = Long(m) /\ diff_time_s(timeval(b), timeval(a)) = Long(n)
  BY DEF diff_time_ms, diff_time_s, exact_ms, exact_s
<1>2. /\ m = (b - a) \div USEC_PER_MS \/ m = (b - a) \div USEC_PER_MS + MS_PER_SEC
      /\ n = (b - a) \div USEC_PER_SEC \/ n = (b - a) \div USEC_PER_SEC + 1
  BY ExactDifferences
<1> HIDE DEF m, n
<1>3. (b - a) \div USEC_PER_MS \in Int /\ (b - a) \div USEC_PER_SEC \in Int
  BY SMT DEF USEC_PER_MS, USEC_PER_SEC
<1>4. m \in Int /\ n \in Int
  BY <1>2, <1>3, SMT DEF MS_PER_SEC
<1> QED BY <1>1, <1>2, <1>4

(* The clock shows the time the wait began, the time passed since and what *)
(* it was moved by.                                                        *)
WaitInv == WaitTypeOK /\ now - start = elapsed

LEMMA WaitStep == WaitInv /\ [WaitNext]_waitVars => WaitInv'
<1> SUFFICES ASSUME WaitInv, [WaitNext]_waitVars PROVE WaitInv'
  OBVIOUS
<1> USE DEF WaitInv, WaitTypeOK, elapsed
<1>1. CASE StartWait
  BY <1>1, SMT DEF StartWait
<1>2. ASSUME NEW d \in Steps, Pass(d) PROVE WaitInv'
  BY <1>2, TimeAssumption, SMT DEF Pass
<1>3. ASSUME NEW sec \in SetSeconds, SetClock(sec) PROVE WaitInv'
  <2>1. sec \in Nat /\ sec * USEC_PER_SEC \in Nat
    BY TimeAssumption, SMT DEF USEC_PER_SEC
  <2> QED BY <1>3, <2>1, SMT DEF SetClock
<1>4. CASE UNCHANGED waitVars
  BY <1>4 DEF waitVars
<1> QED BY <1>1, <1>2, <1>3, <1>4 DEF WaitNext

(* What GW_Run and Socket_Manage_Thread test *)
LEMMA Tests ==
    ASSUME WaitInv
    PROVE  \E m, n, e_ms, e_s \in Int :
              /\ e_ms = elapsed_ms /\ e_s = elapsed_s
              /\ m = e_ms \/ m = e_ms + 1000
              /\ n = e_s \/ n = e_s + 1
              /\ MeterTimesOut <=> Unsigned(Long(m)) > Timeout_ms
              /\ ConnectionTimesOut <=> Long(n) > inactivityTimeout /\ inactivityTimeout > 0
<1>1. start \in Nat /\ now \in Nat /\ now - start = elapsed
  BY DEF WaitInv, WaitTypeOK
<1>2. PICK m, n \in Int :
         /\ milliseconds = Long(m) /\ seconds = Long(n)
         /\ m = elapsed_ms \/ m = elapsed_ms + MS_PER_SEC
         /\ n = elapsed_s \/ n = elapsed_s + 1
  BY <1>1, Differences DEF milliseconds, seconds, elapsed_ms, elapsed_s
<1>3. elapsed_ms \in Int /\ elapsed_s \in Int
  BY <1>1, SMT DEF elapsed_ms, elapsed_s, USEC_PER_MS, USEC_PER_SEC
<1>4. /\ MeterTimesOut <=> Unsigned(Long(m)) > Timeout_ms
      /\ ConnectionTimesOut <=> Long(n) > inactivityTimeout /\ inactivityTimeout > 0
  BY <1>2, Zenon DEF MeterTimesOut, TimesOut_ms, ConnectionTimesOut
<1>5. PICK e_ms, e_s \in Int : e_ms = elapsed_ms /\ e_s = elapsed_s
  BY <1>3
<1>6. m = e_ms \/ m = e_ms + 1000
  BY <1>2, <1>5 DEF MS_PER_SEC
<1>7. n = e_s \/ n = e_s + 1
  BY <1>2, <1>5
<1> WITNESS m \in Int, n \in Int, e_ms \in Int, e_s \in Int
<1> QED BY <1>4, <1>5, <1>6, <1>7, Zenon

(* No wait of less than 49 days, as the clock has it, is timed out late or *)
(* more than a second early by GW_Run, whenever it starts and however the  *)
(* clock is set meanwhile; nor is the inactivity of a connection, for any  *)
(* time that a long can tell in seconds.                                   *)
THEOREM TimeoutsWithinASecond == WaitSpec => []WithinASecond
<1>1. WaitInit => WaitInv
  BY TimeAssumption, SMT DEF WaitInit, WaitInv, WaitTypeOK, elapsed
<1>2. WaitInv => WithinASecond
  <2> SUFFICES ASSUME WaitInv PROVE MeterInTime /\ ConnectionInTime
    BY DEF WithinASecond
  <2>1. PICK m, n, e_ms, e_s \in Int :
           /\ e_ms = elapsed_ms /\ e_s = elapsed_s
           /\ m = e_ms \/ m = e_ms + 1000
           /\ n = e_s \/ n = e_s + 1
           /\ MeterTimesOut <=> Unsigned(Long(m)) > Timeout_ms
           /\ ConnectionTimesOut <=> Long(n) > inactivityTimeout /\ inactivityTimeout > 0
    BY Tests
  <2>2. MeterInTime
    <3>1. ASSUME 0 <= e_ms, e_ms + 1000 < 2 * LongLimit
          PROVE  /\ e_ms > Timeout_ms => MeterTimesOut
                 /\ MeterTimesOut => e_ms + 1000 > Timeout_ms
      <4>1. 0 <= m /\ m < 2 * LongLimit
        BY <2>1, <3>1, WidthAssumption, SMT
      <4>2. Unsigned(Long(m)) = m
        BY <4>1, UnsignedLong
      <4> QED BY <2>1, <4>2, WidthAssumption, SMT
    <3> QED BY <2>1, <3>1 DEF MeterInTime, MS_PER_SEC
  <2>3. ConnectionInTime
    <3>1. ASSUME inactivityTimeout > 0, -LongLimit <= e_s, e_s + 1 < LongLimit
          PROVE  /\ e_s > inactivityTimeout => ConnectionTimesOut
                 /\ ConnectionTimesOut => e_s + 1 > inactivityTimeout
      <4>1. -LongLimit <= n /\ n < LongLimit
        BY <2>1, <3>1, WidthAssumption, SMT
      <4>2. Long(n) = n
        BY <4>1, LongIs
      <4> QED BY <2>1, <3>1, <4>2, WidthAssumption, SMT
    <3> QED BY <2>1, <3>1 DEF ConnectionInTime
  <2> QED BY <2>2, <2>3
<1> QED BY <1>1, <1>2, WaitStep, PTL DEF WaitSpec

(* A clock that is set back to more than a second before a wait of GW_Run  *)
(* began, by less than 49 days, ends it.                                   *)
THEOREM SettingBackEndsWaits == WaitSpec => []SetBackEndsWait
<1>1. WaitInit => WaitInv
  BY TimeAssumption, SMT DEF WaitInit, WaitInv, WaitTypeOK, elapsed
<1>2. WaitInv => SetBackEndsWait
  <2> SUFFICES ASSUME WaitInv PROVE SetBackEndsWait
    OBVIOUS
  <2>1. PICK m, e_ms \in Int :
           /\ e_ms = elapsed_ms
           /\ m = e_ms \/ m = e_ms + 1000
           /\ MeterTimesOut <=> Unsigned(Long(m)) > Timeout_ms
    BY Tests
  <2>2. ASSUME e_ms + 1000 < 0, e_ms + 2 * LongLimit > Timeout_ms PROVE MeterTimesOut
    <3>1. PICK r \in Int : r = m + 2 * LongLimit
      BY WidthAssumption, SMT
    <3>2. 0 <= r /\ r < 2 * LongLimit /\ m = r - 2 * LongLimit /\ r > Timeout_ms
      BY <2>1, <2>2, <3>1, WidthAssumption, SMT
    <3>3. Unsigned(Long(m)) = r
      BY <3>2, UnsignedLong
    <3> QED BY <2>1, <3>2, <3>3
  <2> QED BY <2>1, <2>2 DEF SetBackEndsWait, MS_PER_SEC
<1> QED BY <1>1, <1>2, WaitStep, PTL DEF WaitSpec

-----------------------------------------------------------------------------
(* The months of a year *)

(* Days is defined by recursion; these are its equations *)
LEMMA DaysEquations ==
  ASSUME NEW m, \A i \in 1..12 : m[i] \in Int
  PROVE  /\ Days(m)[0] = 0
         /\ \A n \in 1..12 : Days(m)[n] = Days(m)[n-1] + m[n]
<1> DEFINE D(f) == f = [i \in 0..12 |-> IF i = 0 THEN 0 ELSE f[i-1] + m[i]]
           g == [n \in 0..12 |-> IF n = 0 THEN 0
                 ELSE IF n = 1 THEN m[1]
                 ELSE IF n = 2 THEN m[1]+m[2]
                 ELSE IF n = 3 THEN m[1]+m[2]+m[3]
                 ELSE IF n = 4 THEN m[1]+m[2]+m[3]+m[4]
                 ELSE IF n = 5 THEN m[1]+m[2]+m[3]+m[4]+m[5]
                 ELSE IF n = 6 THEN m[1]+m[2]+m[3]+m[4]+m[5]+m[6]
                 ELSE IF n = 7 THEN m[1]+m[2]+m[3]+m[4]+m[5]+m[6]+m[7]
                 ELSE IF n = 8 THEN m[1]+m[2]+m[3]+m[4]+m[5]+m[6]+m[7]+m[8]
                 ELSE IF n = 9 THEN m[1]+m[2]+m[3]+m[4]+m[5]+m[6]+m[7]+m[8]+m[9]
                 ELSE IF n = 10 THEN m[1]+m[2]+m[3]+m[4]+m[5]+m[6]+m[7]+m[8]+m[9]+m[10]
                 ELSE IF n = 11 THEN m[1]+m[2]+m[3]+m[4]+m[5]+m[6]+m[7]+m[8]+m[9]+m[10]+m[11]
                 ELSE m[1]+m[2]+m[3]+m[4]+m[5]+m[6]+m[7]+m[8]+m[9]+m[10]+m[11]+m[12]]
<1>1. g = [n \in 0..12 |-> IF n = 0 THEN 0 ELSE g[n-1] + m[n]]
  <2>1. \A n \in 1..12 : g[n] = g[n-1] + m[n]
    BY SMT
  <2> QED BY <2>1, SMT
<1>2. \E f : D(f)
  BY <1>1
<1>3. Days(m) = CHOOSE f : D(f)
  BY DEF Days
<1>4. D(Days(m))
  BY <1>2, <1>3
<1> QED BY <1>4, SMT

(* The days before each month *)
CommonStarts(S) ==
    /\ S[0] = 0 /\ S[1] = 31 /\ S[2] = 59 /\ S[3] = 90 /\ S[4] = 120 /\ S[5] = 151 /\ S[6] = 181
    /\ S[7] = 212 /\ S[8] = 243 /\ S[9] = 273 /\ S[10] = 304 /\ S[11] = 334 /\ S[12] = 365

LeapStarts(S) ==
    /\ S[0] = 0 /\ S[1] = 31 /\ S[2] = 60 /\ S[3] = 91 /\ S[4] = 121 /\ S[5] = 152 /\ S[6] = 182
    /\ S[7] = 213 /\ S[8] = 244 /\ S[9] = 274 /\ S[10] = 305 /\ S[11] = 335 /\ S[12] = 366

ShamsiStarts(S) ==
    /\ S[0] = 0 /\ S[1] = 31 /\ S[2] = 62 /\ S[3] = 93 /\ S[4] = 124 /\ S[5] = 155 /\ S[6] = 186
    /\ S[7] = 216 /\ S[8] = 246 /\ S[9] = 276 /\ S[10] = 306 /\ S[11] = 336 /\ S[12] = 365

LeapMonths == [g_days_in_month EXCEPT ![2] = 29]

(* The days before each month of a common Gregorian year. *)
LEMMA CommonDays == CommonStarts(Days(g_days_in_month))
<1> DEFINE S == Days(g_days_in_month)
<1>1. \A i \in 1..12 : g_days_in_month[i] \in Int
  BY SMT DEF g_days_in_month
<1>2. S[0] = 0 /\ \A n \in 1..12 : S[n] = S[n-1] + g_days_in_month[n]
  BY <1>1, DaysEquations
<1> HIDE DEF S
<1>3. CommonStarts(S)
  BY <1>2, SMT DEF g_days_in_month, CommonStarts
<1> QED BY <1>3 DEF S

(* The days before each month of a Gregorian leap year. *)
LEMMA LeapDays == LeapStarts(Days(LeapMonths))
<1> DEFINE S == Days(LeapMonths)
<1>0. LeapMonths = <<31, 29, 31, 30, 31, 30, 31, 31, 30, 31, 30, 31>>
  BY SMT DEF LeapMonths, g_days_in_month
<1>1. \A i \in 1..12 : LeapMonths[i] \in Int
  BY <1>0, SMT
<1>2. S[0] = 0 /\ \A n \in 1..12 : S[n] = S[n-1] + LeapMonths[n]
  BY <1>1, DaysEquations
<1> HIDE DEF S
<1>3. LeapStarts(S)
  BY <1>0, <1>2, SMT DEF LeapStarts
<1> QED BY <1>3 DEF S

(* The days before each month of a Shamsi year. *)
LEMMA ShamsiDays == ShamsiStarts(Days(j_days_in_month))
<1> DEFINE S == Days(j_days_in_month)
<1>1. \A i \in 1..12 : j_days_in_month[i] \in Int
  BY SMT DEF j_days_in_month
<1>2. S[0] = 0 /\ \A n \in 1..12 : S[n] = S[n-1] + j_days_in_month[n]
  BY <1>1, DaysEquations
<1> HIDE DEF S
<1>3. ShamsiStarts(S)
  BY <1>2, SMT DEF j_days_in_month, ShamsiStarts
<1> QED BY <1>3 DEF S

(* The month of a day *)
LEMMA DateAt ==
  ASSUME NEW m,
         LET S == Days(m)
         IN  \A i \in 0..11 : S[i] \in Int /\ \A j \in 0..(i-1) : S[j + 1] <= S[i],
         NEW i \in 0..11, NEW n \in Int, NEW y, Days(m)[i] <= n, i = 11 \/ n < Days(m)[i + 1]
  PROVE  DateIn(y, m, n) = <<y, i + 1, n - Days(m)[i] + 1>>
<1> DEFINE P(j) == Days(m)[j] <= n /\ (j = 11 \/ n < Days(m)[j + 1])
<1>1. ASSUME NEW j \in 0..11, P(j) PROVE j = i
  <2>1. CASE j < i
    <3>1. Days(m)[j + 1] <= Days(m)[i] /\ Days(m)[i] \in Int /\ j+1 \in 0..11
      BY <2>1, SMT
    <3>2. Days(m)[j + 1] \in Int
      BY <3>1
    <3> QED BY <1>1, <2>1, <3>1, <3>2, SMT
  <2>2. CASE i < j
    <3>1. Days(m)[i + 1] <= Days(m)[j] /\ Days(m)[j] \in Int /\ i+1 \in 0..11
      BY <2>2, SMT
    <3>2. Days(m)[i + 1] \in Int
      BY <3>1
    <3> QED BY <1>1, <2>2, <3>1, <3>2, SMT
  <2> QED BY <2>1, <2>2, SMT
<1>2. P(i)
  OBVIOUS
<1>3. (CHOOSE j \in 0..11 : P(j)) = i
  BY <1>1, <1>2
<1> QED BY <1>3 DEF DateIn

(* Months that follow each other in a year of len days *)
End(m, len, i) == IF i = 11 THEN len ELSE Days(m)[i + 1]
Calendar(m, len) ==
    /\ Days(m)[0] = 0
    /\ \A i \in 0..11 :
          /\ Days(m)[i] \in Nat /\ End(m, len, i) \in Nat
          /\ Days(m)[i] < End(m, len, i)
          /\ \A j \in 0..(i-1) : Days(m)[j + 1] <= Days(m)[i]

(* DateIn finds the month in which the day lies. *)
LEMMA DateOfDay ==
  ASSUME NEW m, NEW len \in Nat, Calendar(m, len), NEW y,
         NEW i \in 0..11, NEW n \in Nat, Days(m)[i] <= n, n < End(m, len, i)
  PROVE  DateIn(y, m, n) = <<y, i + 1, n - Days(m)[i] + 1>>
BY DateAt DEF Calendar, End

(* Every day of the year lies in some month. *)
LEMMA DayInMonth ==
  ASSUME NEW m, NEW len \in Nat, Calendar(m, len), NEW n \in 0..(len - 1)
  PROVE  \E i \in 0..11 : Days(m)[i] <= n /\ n < End(m, len, i)
<1>1. Days(m)[0] = 0 /\ End(m, len, 11) = len
  BY DEF Calendar, End
<1>2. \A i \in 0..10 : End(m, len, i) = Days(m)[i + 1] /\ Days(m)[i + 1] \in Nat
  BY DEF Calendar, End
<1> QED BY <1>1, <1>2, SMT

(* The day after *)
LEMMA DayAfter ==
  ASSUME NEW m, NEW len \in Nat, Calendar(m, len), NEW y,
         NEW i \in 0..11, NEW n \in Nat, Days(m)[i] <= n, n < End(m, len, i)
  PROVE  /\ n + 1 < End(m, len, i) => DateIn(y, m, n + 1) = <<y, i + 1, n - Days(m)[i] + 2>>
         /\ n + 1 = End(m, len, i) /\ i < 11 => DateIn(y, m, n + 1) = <<y, i + 2, 1>>
         /\ DateIn(y, m, 0) = <<y, 1, 1>>
<1>1. ASSUME n + 1 < End(m, len, i)
      PROVE  DateIn(y, m, n + 1) = <<y, i + 1, n - Days(m)[i] + 2>>
  <2>1. DateIn(y, m, n + 1) = <<y, i + 1, n + 1 - Days(m)[i] + 1>>
    BY <1>1, DateOfDay DEF Calendar
  <2> QED BY <2>1 DEF Calendar
<1>2. ASSUME n + 1 = End(m, len, i), i < 11
      PROVE  DateIn(y, m, n + 1) = <<y, i + 2, 1>>
  <2>1. i + 1 \in 0..11 /\ Days(m)[i + 1] = n + 1 /\ n + 1 < End(m, len, i + 1)
    BY <1>2 DEF Calendar, End
  <2>2. DateIn(y, m, n + 1) = <<y, i + 1 + 1, n + 1 - Days(m)[i + 1] + 1>>
    BY <2>1, DateOfDay
  <2> QED BY <2>1, <2>2
<1>3. DateIn(y, m, 0) = <<y, 1, 1>>
  <2>1. 0 \in 0..11 /\ Days(m)[0] = 0 /\ 0 < End(m, len, 0)
    BY DEF Calendar
  <2>2. DateIn(y, m, 0) = <<y, 0 + 1, 0 - Days(m)[0] + 1>>
    BY <2>1, DateOfDay
  <2> QED BY <2>1, <2>2
<1> QED BY <1>1, <1>2, <1>3

Months(y) == IF Gregorian(y) THEN LeapMonths ELSE g_days_in_month
YearLength(y) == IF Gregorian(y) THEN 366 ELSE 365
ShamsiLength(y) == IF ShamsiLeap(y) THEN 366 ELSE 365

(* The months of every Gregorian year follow each other in its days. *)
LEMMA GregorianCalendar == \A y : Calendar(Months(y), YearLength(y))
<1>1. Calendar(g_days_in_month, 365)
  <2> DEFINE S == Days(g_days_in_month)
  <2>1. CommonStarts(S)
    BY CommonDays
  <2>2. \A i \in 0..11 : End(g_days_in_month, 365, i) = IF i = 11 THEN 365 ELSE S[i + 1]
    BY DEF End
  <2>3. /\ S[0] = 0
        /\ \A i \in 0..11 : /\ S[i] \in Nat
                            /\ (IF i = 11 THEN 365 ELSE S[i + 1]) \in Nat
                            /\ S[i] < IF i = 11 THEN 365 ELSE S[i + 1]
                            /\ \A j \in 0..(i-1) : S[j + 1] <= S[i]
    <3> HIDE DEF S
    <3> QED BY <2>1, SMT DEF CommonStarts
  <2> QED BY <2>2, <2>3 DEF Calendar
<1>2. Calendar(LeapMonths, 366)
  <2> DEFINE S == Days(LeapMonths)
  <2>1. LeapStarts(S)
    BY LeapDays
  <2>2. \A i \in 0..11 : End(LeapMonths, 366, i) = IF i = 11 THEN 366 ELSE S[i + 1]
    BY DEF End
  <2>3. /\ S[0] = 0
        /\ \A i \in 0..11 : /\ S[i] \in Nat
                            /\ (IF i = 11 THEN 366 ELSE S[i + 1]) \in Nat
                            /\ S[i] < IF i = 11 THEN 366 ELSE S[i + 1]
                            /\ \A j \in 0..(i-1) : S[j + 1] <= S[i]
    <3> HIDE DEF S
    <3> QED BY <2>1, SMT DEF LeapStarts
  <2> QED BY <2>2, <2>3 DEF Calendar
<1> QED BY <1>1, <1>2 DEF Months, YearLength

(* So do those of a Shamsi year, with or without the leap day. *)
LEMMA ShamsiCalendar == \A len \in {365, 366} : Calendar(j_days_in_month, len)
<1> SUFFICES ASSUME NEW len \in {365, 366} PROVE Calendar(j_days_in_month, len)
  OBVIOUS
<1> DEFINE S == Days(j_days_in_month)
<1>1. ShamsiStarts(S)
  BY ShamsiDays
<1>2. \A i \in 0..11 : End(j_days_in_month, len, i) = IF i = 11 THEN len ELSE S[i + 1]
  BY DEF End
<1>3. /\ S[0] = 0
      /\ \A i \in 0..11 : /\ S[i] \in Nat
                          /\ (IF i = 11 THEN len ELSE S[i + 1]) \in Nat
                          /\ S[i] < IF i = 11 THEN len ELSE S[i + 1]
                          /\ \A j \in 0..(i-1) : S[j + 1] <= S[i]
  <2> HIDE DEF S
  <2> QED BY <1>1, SMT DEF ShamsiStarts
<1> QED BY <1>2, <1>3 DEF Calendar

(* the length of a month, as the next day is found by it *)
LEMMA GregorianMonth ==
  ASSUME NEW y, NEW i \in 0..11
  PROVE  (IF i + 1 = 2 /\ Gregorian(y) THEN 29 ELSE g_days_in_month[i + 1])
            = End(Months(y), YearLength(y), i) - Days(Months(y))[i]
<1>1. CASE Gregorian(y)
  <2> DEFINE S == Days(LeapMonths)
  <2>1. LeapStarts(S)
    BY LeapDays
  <2>2. (IF i + 1 = 2 THEN 29 ELSE g_days_in_month[i + 1])
            = (IF i = 11 THEN 366 ELSE S[i + 1]) - S[i]
    <3> HIDE DEF S
    <3> QED BY <2>1, SMT DEF LeapStarts, g_days_in_month
  <2> QED BY <1>1, <2>2 DEF End, Months, YearLength
<1>2. CASE ~Gregorian(y)
  <2> DEFINE S == Days(g_days_in_month)
  <2>1. CommonStarts(S)
    BY CommonDays
  <2>2. g_days_in_month[i + 1] = (IF i = 11 THEN 365 ELSE S[i + 1]) - S[i]
    <3> HIDE DEF S
    <3> QED BY <2>1, SMT DEF CommonStarts, g_days_in_month
  <2> QED BY <1>2, <2>2 DEF End, Months, YearLength
<1> QED BY <1>1, <1>2

(* And that of a Shamsi month. *)
LEMMA ShamsiMonthDays ==
  ASSUME NEW y, NEW i \in 0..11
  PROVE  ShamsiMonth(y, i + 1) = End(j_days_in_month, ShamsiLength(y), i) - Days(j_days_in_month)[i]
<1> DEFINE S == Days(j_days_in_month)
<1>1. ShamsiStarts(S)
  BY ShamsiDays
<1>2. \A leap \in BOOLEAN : (IF i + 1 = 12 /\ leap THEN 30 ELSE j_days_in_month[i + 1])
          = (IF i = 11 THEN (IF leap THEN 366 ELSE 365) ELSE S[i + 1]) - S[i]
  <2> HIDE DEF S
  <2> QED BY <1>1, SMT DEF ShamsiStarts, j_days_in_month
<1>3. CASE ShamsiLeap(y)
  BY <1>2, <1>3 DEF End, ShamsiLength, ShamsiMonth
<1>4. CASE ~ShamsiLeap(y)
  BY <1>2, <1>4 DEF End, ShamsiLength, ShamsiMonth
<1> QED BY <1>3, <1>4

(* Day 0 of a year is its first. *)
LEMMA NewYear ==
  ASSUME NEW m, NEW len \in Nat \ {0}, Calendar(m, len), NEW y
  PROVE  DateIn(y, m, 0) = <<y, 1, 1>>
<1>1. PICK j \in 0..11 : Days(m)[j] <= 0 /\ 0 < End(m, len, j)
  BY DayInMonth
<1> QED BY <1>1, DayAfter

(* The date after one, by the length of its month, is the date of the day  *)
(* after.                                                                  *)
LEMMA Following ==
  ASSUME NEW m, NEW len \in Nat, Calendar(m, len), NEW y,
         NEW i \in 0..11, NEW n \in 0..(len - 1), Days(m)[i] <= n, n < End(m, len, i)
  PROVE  LET k == n - Days(m)[i] + 1   last == End(m, len, i) - Days(m)[i]
         IN  (IF k < last THEN <<y, i + 1, k + 1>>
              ELSE IF i + 1 < 12 THEN <<y, i + 1 + 1, 1>> ELSE <<y + 1, 1, 1>>)
               = IF n + 1 < len THEN DateIn(y, m, n + 1) ELSE <<y + 1, 1, 1>>
<1> DEFINE S == Days(m)
           k == n - S[i] + 1
           last == End(m, len, i) - S[i]
<1>1. S[i] \in Nat /\ End(m, len, i) \in Nat /\ (i = 11 => End(m, len, i) = len) /\ n \in Nat
  BY DEF Calendar, End
<1>2. i < 11 => End(m, len, i) < len
  <2> SUFFICES ASSUME i < 11 PROVE End(m, len, i) < len
    OBVIOUS
  <2>1. i + 1 \in 0..11 /\ S[i + 1] = End(m, len, i)
    BY DEF End
  <2>2. S[i + 1] < End(m, len, i + 1) /\ S[11] < len /\ S[11] \in Nat /\ S[i + 1] \in Nat
    BY <2>1 DEF Calendar, End
  <2>3. i + 1 = 11 \/ (S[i + 1 + 1] <= S[11] /\ S[i + 1 + 1] = End(m, len, i + 1))
    BY <2>1 DEF Calendar, End
  <2> QED BY <2>1, <2>2, <2>3 DEF End, Calendar
<1>3. /\ n + 1 < End(m, len, i) => DateIn(y, m, n + 1) = <<y, i + 1, n - S[i] + 2>>
      /\ n + 1 = End(m, len, i) /\ i < 11 => DateIn(y, m, n + 1) = <<y, i + 2, 1>>
  BY <1>1, DayAfter, SMTT(30)
<1>4. CASE n + 1 < End(m, len, i)
  <2>1. k < last /\ n + 1 < len /\ k + 1 = n - S[i] + 2
    BY <1>1, <1>2, <1>4
  <2> QED BY <1>3, <1>4, <2>1
<1>5. CASE n + 1 = End(m, len, i) /\ i < 11
  <2>1. ~(k < last) /\ i + 1 < 12 /\ i + 1 + 1 = i + 2 /\ n + 1 < len
    BY <1>1, <1>2, <1>5
  <2> QED BY <1>3, <1>5, <2>1
<1>6. CASE n + 1 = End(m, len, i) /\ i = 11
  <2>1. ~(k < last) /\ ~(i + 1 < 12) /\ ~(n + 1 < len)
    BY <1>1, <1>6
  <2> QED BY <2>1
<1> QED BY <1>1, <1>4, <1>5, <1>6

(* Each calendar goes from a day to the next of the year, and from the     *)
(* last day to the first of the next year.                                 *)
GDate(y, n) == DateIn(y, Months(y), n)
JDate(y, n) == DateIn(y, j_days_in_month, n)

(* The fields of a date, and the date with a day more. *)
LEMMA TripleStep ==
  ASSUME NEW y, NEW i \in 0..11, NEW k \in Int
  PROVE  /\ [<<y, i + 1, k>> EXCEPT ![3] = @ + 1] = <<y, i + 1, k + 1>>
         /\ <<y, i + 1, k>>[1] = y /\ <<y, i + 1, k>>[2] = i + 1 /\ <<y, i + 1, k>>[3] = k
BY SMT

(* From one day of a Gregorian year to the next. *)
LEMMA GregorianNext ==
  ASSUME NEW y, NEW n \in 0..(YearLength(y) - 1)
  PROVE  NextGregorian(GDate(y, n)) =
           IF n + 1 < YearLength(y) THEN GDate(y, n + 1) ELSE GDate(y + 1, 0)
<1> DEFINE m == Months(y)
           len == YearLength(y)
<1>1. Calendar(m, len) /\ len \in Nat
  BY GregorianCalendar DEF YearLength
<1>2. PICK i \in 0..11 : Days(m)[i] <= n /\ n < End(m, len, i)
  BY <1>1, DayInMonth, SMTT(30)
<1> DEFINE k == n - Days(m)[i] + 1
           last == End(m, len, i) - Days(m)[i]
<1>3. GDate(y, n) = <<y, i + 1, k>> /\ k \in Int
  BY <1>1, <1>2, DateOfDay DEF GDate, Calendar
<1>4. (IF i + 1 = 2 /\ Gregorian(y) THEN 29 ELSE g_days_in_month[i + 1]) = last
  BY GregorianMonth
<1>5. NextGregorian(GDate(y, n)) =
        IF k < last THEN <<y, i + 1, k + 1>>
        ELSE IF i + 1 < 12 THEN <<y, i + 1 + 1, 1>> ELSE <<y + 1, 1, 1>>
  BY <1>3, <1>4, TripleStep DEF NextGregorian
<1>6. GDate(y + 1, 0) = <<y + 1, 1, 1>>
  BY GregorianCalendar, NewYear DEF GDate, YearLength
<1>8. (IF k < last THEN <<y, i + 1, k + 1>>
       ELSE IF i + 1 < 12 THEN <<y, i + 1 + 1, 1>> ELSE <<y + 1, 1, 1>>)
        = IF n + 1 < len THEN DateIn(y, m, n + 1) ELSE <<y + 1, 1, 1>>
  BY <1>1, <1>2, Following
<1> QED BY <1>5, <1>6, <1>8 DEF GDate

(* From one day of a Shamsi year to the next. *)
LEMMA ShamsiNext ==
  ASSUME NEW y, NEW n \in 0..(ShamsiLength(y) - 1)
  PROVE  NextShamsi(JDate(y, n)) =
           IF n + 1 < ShamsiLength(y) THEN JDate(y, n + 1) ELSE JDate(y + 1, 0)
<1> DEFINE m == j_days_in_month
           len == ShamsiLength(y)
<1>1. Calendar(m, len) /\ len \in Nat
  BY ShamsiCalendar DEF ShamsiLength
<1>2. PICK i \in 0..11 : Days(m)[i] <= n /\ n < End(m, len, i)
  BY <1>1, DayInMonth
<1> DEFINE k == n - Days(m)[i] + 1
           last == End(m, len, i) - Days(m)[i]
<1>3. JDate(y, n) = <<y, i + 1, k>> /\ k \in Int
  BY <1>1, <1>2, DateOfDay DEF JDate, Calendar
<1>4. ShamsiMonth(y, i + 1) = last
  BY ShamsiMonthDays
<1>5. <<y, i + 1, k>> # Unknown
  BY <1>3 DEF Unknown
<1>6. NextShamsi(JDate(y, n)) =
        IF k < last THEN <<y, i + 1, k + 1>>
        ELSE IF i + 1 < 12 THEN <<y, i + 1 + 1, 1>> ELSE <<y + 1, 1, 1>>
  BY <1>3, <1>4, <1>5, TripleStep DEF NextShamsi
<1>7. JDate(y + 1, 0) = <<y + 1, 1, 1>>
  BY ShamsiCalendar, NewYear DEF JDate
<1>8. (IF k < last THEN <<y, i + 1, k + 1>>
       ELSE IF i + 1 < 12 THEN <<y, i + 1 + 1, 1>> ELSE <<y + 1, 1, 1>>)
        = IF n + 1 < len THEN DateIn(y, m, n + 1) ELSE <<y + 1, 1, 1>>
  BY <1>1, <1>2, Following
<1> QED BY <1>6, <1>7, <1>8 DEF JDate

-----------------------------------------------------------------------------
(* The years: four of the Gregorian calendar, 33 of the Shamsi one *)

(* Four years of which the first is a leap year: the days before each, and its length *)
Before(y) == IF y = 0 THEN 0 ELSE 365 * y + 1
Length(y) == IF y = 0 THEN 366 ELSE 365

InFourYears(e, k, q) == 0 <= q /\ q <= 1460 /\ e = 1461 * k + q

(* Every day is in some four years. *)
LEMMA FourYearsOf == ASSUME NEW e \in Int PROVE \E k \in Int : \E q \in Int : InFourYears(e, k, q)
<1>1. e \div 1461 \in Int /\ (e % 1461) \in 0..1460 /\ e = 1461 * (e \div 1461) + (e % 1461)
  BY SMT
<1>2. InFourYears(e, e \div 1461, e % 1461) /\ (e % 1461) \in Int
  BY <1>1, SMT DEF InFourYears
<1> QED BY <1>1, <1>2

InCycle(n, b, c) == 0 <= c /\ c <= 12052 /\ n = 12053 * b + c

(* Every day is in some cycle of 33 years. *)
LEMMA Cycles == ASSUME NEW n \in Int PROVE \E b \in Int : \E c \in Int : InCycle(n, b, c)
<1>1. n \div 12053 \in Int /\ n % 12053 \in Int
  BY SMTT(60)
<1>2. PICK b \in Int : b = n \div 12053
  BY <1>1
<1>3. PICK c \in Int : c = n % 12053
  BY <1>1
<1>4. 0 <= c /\ c <= 12052 /\ n = 12053 * b + c
  BY <1>2, <1>3, SMTT(60)
<1>5. InCycle(n, b, c)
  BY <1>4 DEF InCycle
<1> QED BY <1>5

(* How a conversion takes the year and the day of it from the day of the four years *)
SplitOf(q, y, d) ==
    /\ q = Before(y) + d
    /\ 0 <= q /\ q <= 1460
    /\ (q > 365) = (y > 0)
    /\ y > 0 => (q - 1) \div 365 = y /\ (q - 1) % 365 = d
    /\ y = 0 => q = d

(* It does so rightly for every day of the four years. *)
LEMMA SplitFour ==
  ASSUME NEW y \in 0..3, NEW d \in Nat, d < Length(y)
  PROVE  \E q \in Int : SplitOf(q, y, d)
<1>1. Before(y) + d \in Int
  BY SMTT(60) DEF Length, Before
<1>2. SplitOf(Before(y) + d, y, d)
  BY SMTT(60) DEF SplitOf, Length, Before
<1> QED BY <1>1, <1>2

(* The lengths of the Gregorian years of this century. *)
LEMMA GLength ==
  ASSUME NEW k \in 0..24, NEW y \in 0..3
  PROVE  YearLength(2000 + 4 * k + y) = Length(y)
BY SMTT(60) DEF YearLength, Gregorian, Length

(* The lengths of the Shamsi years, by their place in the cycle of 33. *)
LEMMA JLength ==
  ASSUME NEW b \in Int, NEW k \in 0..8, NEW y \in 0..3, k = 8 => y = 0
  PROVE  ShamsiLength(979 + 33 * b + 4 * k + y) = IF k < 8 THEN Length(y) ELSE 365
BY SMTT(60) DEF ShamsiLength, ShamsiLeap, Length

(* The second halves of M2Sh and SH2M: a date from the number of its day *)
ShamsiOf(n) ==
    LET c   == n % 12053
        q   == c % 1461
        jy  == 979 + 33 * (n \div 12053) + 4 * (c \div 1461)
    IN  IF q >= 366 THEN DateIn(jy + (q - 1) \div 365, j_days_in_month, (q - 1) % 365)
                    ELSE DateIn(jy, j_days_in_month, q)

GregorianOf(n) ==
    LET c   == n % 146097
        d   == (c - 1) % 36524
        h   == IF c <= 36524 THEN c ELSE IF d >= 365 THEN d + 1 ELSE d
        q   == h % 1461
        gy  == 400 * (n \div 146097)
                 + (IF c > 36524 THEN 100 * ((c - 1) \div 36524) ELSE 0)
                 + 4 * (h \div 1461) + IF q > 365 THEN (q - 1) \div 365 ELSE 0
        day == IF q > 365 THEN (q - 1) % 365 ELSE q
        months == IF Gregorian(gy) THEN [g_days_in_month EXCEPT ![2] = 29] ELSE g_days_in_month
    IN  DateIn(gy, months, day)

(* The Shamsi date of a day given by its cycle, four years, year and day. *)
LEMMA ShamsiOfDay ==
  ASSUME NEW b \in Int, NEW k \in 0..8, NEW y \in 0..3, NEW d \in Nat,
         d < Length(y), k = 8 => y = 0 /\ d < 365
  PROVE  ShamsiOf(12053 * b + 1461 * k + Before(y) + d) = JDate(979 + 33 * b + 4 * k + y, d)
<1>1. PICK q \in Int : SplitOf(q, y, d)
  BY SplitFour
<1>2. Before(y) \in Int /\ k \in Int
  BY DEF Before
<1>3. PICK c \in Int : c = 1461 * k + q
  OBVIOUS
<1>4. 0 <= c /\ c <= 12052
  BY <1>1, <1>3, SMT DEF SplitOf
<1>5. PICK n \in Int : n = 12053 * b + c
  OBVIOUS
<1>6. n = 12053 * b + 1461 * k + Before(y) + d
  BY <1>1, <1>2, <1>3, <1>5, SMT DEF SplitOf
<1>7. n \div 12053 = b /\ n % 12053 = c
  BY <1>4, <1>5, SMT
<1>8. c \div 1461 = k /\ c % 1461 = q
  BY <1>1, <1>3, SMT DEF SplitOf
<1>9. ShamsiOf(n) = IF q >= 366
                    THEN DateIn(979 + 33 * b + 4 * k + (q - 1) \div 365, j_days_in_month,
                                (q - 1) % 365)
                    ELSE DateIn(979 + 33 * b + 4 * k, j_days_in_month, q)
  BY <1>7, <1>8 DEF ShamsiOf
<1>10. CASE y = 0
  <2>1. ~(q >= 366) /\ q = d /\ 979 + 33 * b + 4 * k = 979 + 33 * b + 4 * k + y
    BY <1>1, <1>10, SMT DEF SplitOf
  <2> QED BY <1>6, <1>9, <2>1 DEF JDate
<1>11. CASE y > 0
  <2>1. q >= 366 /\ (q - 1) \div 365 = y /\ (q - 1) % 365 = d
    BY <1>1, <1>11, SMT DEF SplitOf
  <2> QED BY <1>6, <1>9, <2>1 DEF JDate
<1> QED BY <1>10, <1>11, SMT

(* The Gregorian date of a day given by its four years, year and day, from *)
(* 2000 on.                                                                *)
LEMMA GregorianOfDay ==
  ASSUME NEW k \in 0..24, NEW y \in 0..3, NEW d \in Nat, d < Length(y)
  PROVE  GregorianOf(730485 + 1461 * k + Before(y) + d) = GDate(2000 + 4 * k + y, d)
<1>1. PICK q \in Int : SplitOf(q, y, d)
  BY SplitFour
<1>2. Before(y) \in Int /\ k \in Int
  BY DEF Before
<1>3. PICK c \in Int : c = 1461 * k + q
  OBVIOUS
<1>4. 0 <= c /\ c <= 36524
  BY <1>1, <1>3, SMT DEF SplitOf
<1>5. PICK n \in Int : n = 730485 + c
  OBVIOUS
<1>6. n = 730485 + 1461 * k + Before(y) + d
  BY <1>1, <1>2, <1>3, <1>5, SMT DEF SplitOf
<1>7. n \div 146097 = 5 /\ n % 146097 = c
  BY <1>4, <1>5, SMT
<1>8. c \div 1461 = k /\ c % 1461 = q
  BY <1>1, <1>3, SMT DEF SplitOf
<1> DEFINE over == IF q > 365 THEN (q - 1) \div 365 ELSE 0
           day == IF q > 365 THEN (q - 1) % 365 ELSE q
<1>9. over = y /\ day = d
  BY <1>1, SMT DEF SplitOf
<1>10. GregorianOf(n) = LET gy == 400 * 5 + 0 + 4 * k + over
                        IN  DateIn(gy, Months(gy), day)
  <2>1. c <= 36524 /\ ~(c > 36524)
    BY <1>4, SMT
  <2> QED BY <1>7, <1>8, <2>1 DEF GregorianOf, Months, LeapMonths
<1>11. 400 * 5 + 0 + 4 * k + y = 2000 + 4 * k + y
  BY SMT
<1> HIDE DEF over, day
<1> QED BY <1>6, <1>9, <1>10, <1>11 DEF GDate

-----------------------------------------------------------------------------
(* The days of the hundred years, from the Gregorian date to the Shamsi one *)

(* The days of the hundred years of the DS1307, from 0, and of a date in them *)
LastDay == 36524
TheDays == {e \in Int : 0 <= e /\ e <= LastDay}
AsGregorian(e) == GregorianOf(730485 + e)
AsShamsi(e) == ShamsiOf(146018 + e)

(* M2Sh adds the leap day to the days of a common year: these are the days *)
(* of the year it is.                                                      *)
LEMMA LeapStart ==
  ASSUME NEW y, NEW i \in 0..11
  PROVE  /\ Days(g_days_in_month)[i] \in Nat
         /\ Days(g_days_in_month)[i] + LeapDay(y, i + 1) = Days(Months(y))[i]
<1> DEFINE C == Days(g_days_in_month)
           L == Days(LeapMonths)
<1>1. CommonStarts(C) /\ LeapStarts(L)
  BY CommonDays, LeapDays
<1>2. C[i] \in Nat /\ C[i] + 0 = C[i] /\ L[i] = C[i] + IF i + 1 > 2 THEN 1 ELSE 0
  <2> HIDE DEF C, L
  <2> QED BY <1>1, SMT DEF CommonStarts, LeapStarts
<1>3. CASE Gregorian(y)
  BY <1>2, <1>3 DEF LeapDay, Months
<1>4. CASE ~Gregorian(y)
  BY <1>2, <1>4 DEF LeapDay, Months
<1> QED BY <1>3, <1>4

(* No month is shorter than 28 or longer than 31 days. *)
LEMMA MonthLength ==
  ASSUME NEW y, NEW i \in 0..11
  PROVE  End(Months(y), YearLength(y), i) - Days(Months(y))[i] \in 28..31
<1>1. \A leap \in BOOLEAN : (IF i + 1 = 2 /\ leap THEN 29 ELSE g_days_in_month[i + 1]) \in 28..31
  BY SMT DEF g_days_in_month
<1>2. Gregorian(y) \in BOOLEAN
  BY DEF Gregorian
<1> QED BY <1>1, <1>2, GregorianMonth, SMTT(30)

(* The fields of a Gregorian date *)
LEMMA GFields ==
  ASSUME NEW y, NEW d \in 0..(YearLength(y) - 1)
  PROVE  \E i \in 0..11 : \E j \in 1..31 :
            /\ GDate(y, d) = <<y, i + 1, j>>
            /\ Days(Months(y))[i] \in Nat
            /\ Days(Months(y))[i] + j - 1 = d
<1> DEFINE m == Months(y)
           len == YearLength(y)
<1>1. Calendar(m, len) /\ len \in Nat
  BY GregorianCalendar DEF YearLength
<1>2. PICK i \in 0..11 : Days(m)[i] <= d /\ d < End(m, len, i)
  BY <1>1, DayInMonth
<1>3. Days(m)[i] \in Nat /\ End(m, len, i) \in Nat /\ End(m, len, i) - Days(m)[i] \in 28..31
  BY <1>1, <1>2, MonthLength DEF Calendar
<1>4. GDate(y, d) = <<y, i + 1, d - Days(m)[i] + 1>>
  BY <1>1, <1>2, DateOfDay DEF GDate
<1>5. d - Days(m)[i] + 1 \in 1..31 /\ Days(m)[i] + (d - Days(m)[i] + 1) - 1 = d
  <2> HIDE DEF m, len
  <2> QED BY <1>2, <1>3
<1> QED BY <1>3, <1>4, <1>5

(* The days before a year of this century, as M2Sh counts them from 1600. *)
LEMMA YearDay ==
  ASSUME NEW k \in 0..24, NEW y \in 0..3
  PROVE  LET gy == 2000 + 4 * k + y - 1600
         IN  365 * gy + (gy + 3) \div 4 - (gy + 99) \div 100 + (gy + 399) \div 400
               = 146097 + 1461 * k + Before(y)
<1> DEFINE gy == 2000 + 4 * k + y - 1600
<1>1. gy = 400 + 4 * k + y /\ gy \in 400..499
  BY SMT
<1> HIDE DEF gy
<1>2. (gy + 3) \div 4 = 100 + k + (IF y = 0 THEN 0 ELSE 1)
  BY <1>1, SMTT(60)
<1>3. (gy + 99) \div 100 = (IF gy = 400 THEN 4 ELSE 5)
  BY <1>1, SMTT(60)
<1>4. (gy + 399) \div 400 = (IF gy = 400 THEN 1 ELSE 2)
  BY <1>1, SMTT(60)
<1>5. Before(y) = (IF y = 0 THEN 0 ELSE 365 * y + 1)
  BY DEF Before
<1>6. 365 * gy + (gy + 3) \div 4 - (gy + 99) \div 100 + (gy + 399) \div 400
        = 146097 + 1461 * k + Before(y)
  BY <1>1, <1>2, <1>3, <1>4, <1>5, SMTT(60)
<1> QED BY <1>6 DEF gy

GDay(e, k, y, d) == d < Length(y) /\ e = 1461 * k + Before(y) + d
GYear(Y, k, y)   == Y = 2000 + 4 * k + y

InGYear(e, Y, d) == \E k \in 0..24 : \E y \in 0..3 : GDay(e, k, y, d) /\ GYear(Y, k, y)

(* M2Sh, and time_now, of a day of the hundred years *)
LEMMA M2ShOfDay ==
  ASSUME NEW e \in Int, NEW Y \in Int, NEW d \in Nat, InGYear(e, Y, d)
  PROVE  LET g == GDate(Y, d) IN M2Sh(g[1], g[2], g[3]) = AsShamsi(e)
<1> DEFINE g == GDate(Y, d)
<1>k. PICK k \in 0..24 : \E y \in 0..3 : GDay(e, k, y, d) /\ GYear(Y, k, y)
  BY DEF InGYear
<1>y. PICK y \in 0..3 : GDay(e, k, y, d) /\ GYear(Y, k, y)
  BY <1>k
<1>0. d < Length(y) /\ e = 1461 * k + Before(y) + d
  BY <1>y DEF GDay
<1>1. Y = 2000 + 4 * k + y
  BY <1>y DEF GYear
<1>2. Y \in 2000..2099 /\ YearLength(Y) = Length(y)
  <2>1. YearLength(2000 + 4 * k + y) = Length(y)
    BY GLength
  <2>2. Y \in 2000..2099
    BY <1>1, SMTT(30)
  <2> QED BY <1>1, <2>1, <2>2
<1>3. d \in 0..(YearLength(Y) - 1)
  BY <1>0, <1>2, SMTT(30) DEF Length
<1>4. PICK i \in 0..11, j \in 1..31 : /\ g = <<Y, i + 1, j>>
                                     /\ Days(Months(Y))[i] \in Nat
                                     /\ Days(Months(Y))[i] + j - 1 = d
  BY <1>1, <1>3, GFields
<1> DEFINE gy == Y - 1600
           n  == 365 * gy + (gy + 3) \div 4 - (gy + 99) \div 100 + (gy + 399) \div 400
                   + Days(g_days_in_month)[i] + LeapDay(Y, i + 1) + j - 1 - 79
<1>5. g[1] = Y /\ g[2] = i + 1 /\ g[3] = j
  BY <1>4
<1>6. /\ ~(Y < 2000 \/ Y > 2100) /\ ~(i + 1 = 0 \/ i + 1 > 12) /\ ~(j = 0 \/ j > 31)
      /\ i + 1 - 1 = i
  BY <1>2, SMT
<1>7. M2Sh(Y, i + 1, j) = ShamsiOf(n)
  BY <1>6 DEF M2Sh, ShamsiOf
<1>8. 365 * gy + (gy + 3) \div 4 - (gy + 99) \div 100 + (gy + 399) \div 400
               = 146097 + 1461 * k + Before(y)
  BY <1>1, YearDay
<1>9. Days(g_days_in_month)[i] \in Nat
      /\ Days(g_days_in_month)[i] + LeapDay(Y, i + 1) = Days(Months(Y))[i]
  BY LeapStart
<1>10. LeapDay(Y, i + 1) \in Int /\ Before(y) \in Int
  BY DEF LeapDay, Before
<1>11. n = 146018 + 1461 * k + Before(y) + d
  <2> DEFINE a == 365 * gy + (gy + 3) \div 4 - (gy + 99) \div 100 + (gy + 399) \div 400
             D == Days(g_days_in_month)[i]
             E == Days(Months(Y))[i]
             L == LeapDay(Y, i + 1)
  <2>1. a = 146097 + 1461 * k + Before(y) /\ D \in Nat /\ D + L = E /\ E \in Nat
        /\ E + j - 1 = d /\ L \in Int
    BY <1>4, <1>8, <1>9, <1>10
  <2>2. n = a + D + L + j - 1 - 79
    OBVIOUS
  <2> HIDE DEF a, D, E, L, n
  <2> QED BY <1>10, <2>1, <2>2, SMT
<1>12. n = 146018 + e
  <2> HIDE DEF n
  <2> QED BY <1>0, <1>10, <1>11, SMT
<1> HIDE DEF n
<1> QED BY <1>5, <1>7, <1>12 DEF AsShamsi

(* The coordinates of a day *)
LEMMA FourYears ==
  ASSUME NEW q \in Int, 0 <= q, q <= 1460
  PROVE  \E y \in 0..3 : \E d \in Nat : d < Length(y) /\ q = Before(y) + d
<1>1. CASE q < 366
  <2>1. q < Length(0) /\ q = Before(0) + q /\ q \in Nat
    BY <1>1, SMT DEF Length, Before
  <2> QED BY <2>1, SMT
<1>2. CASE 366 <= q /\ q < 731
  <2>1. q - 366 < Length(1) /\ q = Before(1) + (q - 366) /\ q - 366 \in Nat
    BY <1>2, SMT DEF Length, Before
  <2> QED BY <2>1, SMT
<1>3. CASE 731 <= q /\ q < 1096
  <2>1. q - 731 < Length(2) /\ q = Before(2) + (q - 731) /\ q - 731 \in Nat
    BY <1>3, SMT DEF Length, Before
  <2> QED BY <2>1, SMT
<1>4. CASE 1096 <= q
  <2>1. q - 1096 < Length(3) /\ q = Before(3) + (q - 1096) /\ q - 1096 \in Nat
    BY <1>4, SMT DEF Length, Before
  <2> QED BY <2>1, SMT
<1> QED BY <1>1, <1>2, <1>3, <1>4, SMT

JDay(n, b, k, y, d) == /\ d < Length(y) /\ n = 12053 * b + 1461 * k + Before(y) + d
                       /\ k = 8 => y = 0 /\ d < 365

(* Every day of the hundred years has its four years, year and day. *)
LEMMA GDays ==
  ASSUME NEW e \in TheDays
  PROVE  \E k \in 0..24 : \E y \in 0..3 : \E d \in Nat : GDay(e, k, y, d)
<1>9. e \in Int /\ 0 <= e /\ e <= 36524
  BY SMT DEF TheDays, LastDay
<1>0. PICK k \in Int : \E q \in Int : InFourYears(e, k, q)
  BY <1>9, FourYearsOf
<1>1. PICK q \in Int : InFourYears(e, k, q)
  BY <1>0
<1>2. k \in 0..24 /\ q \in Int /\ 0 <= q /\ q <= 1460
  BY <1>1, <1>9, SMT DEF InFourYears
<1>3. PICK y \in 0..3 : \E d \in Nat : d < Length(y) /\ q = Before(y) + d
  BY <1>2, FourYears
<1>4. PICK d \in Nat : d < Length(y) /\ q = Before(y) + d
  BY <1>3
<1>5. Before(y) \in Int
  BY DEF Before
<1>6. e = 1461 * k + Before(y) + d
  BY <1>1, <1>4, <1>5, <1>9, SMT DEF InFourYears
<1> QED BY <1>2, <1>4, <1>6 DEF GDay

(* Every day has its Shamsi cycle, four years, year and day. *)
LEMMA JDays ==
  ASSUME NEW n \in Int
  PROVE  \E b \in Int : \E k \in 0..8 : \E y \in 0..3 : \E d \in Nat : JDay(n, b, k, y, d)
<1>1. PICK b \in Int : \E c \in Int : InCycle(n, b, c)
  BY Cycles
<1>0. PICK c \in Int : InCycle(n, b, c)
  BY <1>1
<1>9. PICK k \in Int : \E q \in Int : InFourYears(c, k, q)
  BY FourYearsOf
<1>2. PICK q \in Int : InFourYears(c, k, q)
  BY <1>9
<1>3. k \in 0..8 /\ q \in Int /\ 0 <= q /\ q <= 1460 /\ (k = 8 => q < 365)
  BY <1>0, <1>2, SMT DEF InCycle, InFourYears
<1>4. PICK y \in 0..3 : \E d \in Nat : d < Length(y) /\ q = Before(y) + d
  BY <1>3, FourYears
<1>5. PICK d \in Nat : d < Length(y) /\ q = Before(y) + d
  BY <1>4
<1>6. Before(y) \in Int /\ (y > 0 => Before(y) >= 366) /\ (y = 0 => Before(y) = 0)
  BY SMT DEF Before
<1>7. n = 12053 * b + 1461 * k + Before(y) + d
  BY <1>0, <1>2, <1>5, <1>6, SMT DEF InCycle, InFourYears
<1>8. k = 8 => y = 0 /\ d < 365
  BY <1>3, <1>5, <1>6, SMT
<1> QED BY <1>3, <1>5, <1>7, <1>8 DEF JDay

-----------------------------------------------------------------------------
(* From one day to the next *)

(* The days before each of the four years add up. *)
LEMMA BeforeNext ==
  ASSUME NEW y \in 0..3
  PROVE  /\ Before(y) \in Nat /\ Length(y) \in {365, 366}
         /\ Before(0) = 0 /\ Length(0) = 366
         /\ y < 3 => Before(y + 1) = Before(y) + Length(y)
         /\ y = 3 => Before(y) + Length(y) = 1461
BY SMT DEF Before, Length

(* AsGregorian goes on as the Gregorian calendar does *)
LEMMA GStep ==
  ASSUME NEW e \in TheDays, e # LastDay
  PROVE  NextGregorian(AsGregorian(e)) = AsGregorian(e + 1)
<1>0. e \in Int /\ 0 <= e /\ e < 36524
  BY SMT DEF TheDays, LastDay
<1>1. PICK k \in 0..24 : \E y \in 0..3 : \E d \in Nat : GDay(e, k, y, d)
  BY GDays
<1>2. PICK y \in 0..3 : \E d \in Nat : GDay(e, k, y, d)
  BY <1>1
<1>3. PICK d \in Nat : GDay(e, k, y, d)
  BY <1>2
<1>4. PICK Y \in Int : Y = 2000 + 4 * k + y
  OBVIOUS
<1>5. YearLength(Y) = Length(y) /\ d < Length(y)
  BY <1>3, <1>4, GLength DEF GDay
<1>6. AsGregorian(e) = GDate(Y, d)
  <2>1. 730485 + e = 730485 + 1461 * k + Before(y) + d
    BY <1>0, <1>3, BeforeNext, SMT DEF GDay
  <2> QED BY <1>4, <1>5, <2>1, GregorianOfDay DEF AsGregorian
<1>7. NextGregorian(AsGregorian(e)) = IF d + 1 < Length(y) THEN GDate(Y, d + 1) ELSE GDate(Y + 1, 0)
  <2>1. d \in 0..(YearLength(Y) - 1)
    BY <1>5, BeforeNext
  <2> QED BY <1>5, <1>6, <2>1, GregorianNext
<1>8. CASE d + 1 < Length(y)
  <2>1. 730485 + (e + 1) = 730485 + 1461 * k + Before(y) + (d + 1) /\ d + 1 \in Nat
    BY <1>0, <1>3, BeforeNext, SMT DEF GDay
  <2> QED BY <1>4, <1>7, <1>8, <2>1, GregorianOfDay DEF AsGregorian
<1>9. CASE ~(d + 1 < Length(y)) /\ y < 3
  <2>1. y + 1 \in 0..3 /\ 0 < Length(y + 1) /\ Y + 1 = 2000 + 4 * k + (y + 1)
    BY <1>4, <1>9, SMT DEF Length
  <2>2. 730485 + (e + 1) = 730485 + 1461 * k + Before(y + 1) + 0
    BY <1>0, <1>3, <1>9, BeforeNext, SMT DEF GDay
  <2> QED BY <1>7, <1>9, <2>1, <2>2, GregorianOfDay DEF AsGregorian
<1>10. CASE ~(d + 1 < Length(y)) /\ y = 3
  <2>1. e + 1 = 1461 * (k + 1) + 0 + 0
    BY <1>0, <1>3, <1>10, BeforeNext, SMT DEF GDay
  <2>2. k + 1 \in 0..24 /\ Y + 1 = 2000 + 4 * (k + 1) + 0
    BY <1>0, <1>4, <1>10, <2>1, SMT
  <2>3. 730485 + (e + 1) = 730485 + 1461 * (k + 1) + Before(0) + 0 /\ 0 < Length(0)
    BY <2>1, BeforeNext, SMT
  <2> QED BY <1>7, <1>10, <2>2, <2>3, GregorianOfDay DEF AsGregorian
<1> QED BY <1>8, <1>9, <1>10, SMT

(* The length of a year of the Shamsi calendar from its coordinates *)
CycleLength(k, y) == IF k < 8 THEN Length(y) ELSE 365

(* ShamsiOf goes on as the Shamsi calendar does *)
LEMMA SStep ==
  ASSUME NEW n \in Int
  PROVE  NextShamsi(ShamsiOf(n)) = ShamsiOf(n + 1)
<1>1. PICK b \in Int : \E k \in 0..8 : \E y \in 0..3 : \E d \in Nat : JDay(n, b, k, y, d)
  BY JDays
<1>2. PICK k \in 0..8 : \E y \in 0..3 : \E d \in Nat : JDay(n, b, k, y, d)
  BY <1>1
<1>3. PICK y \in 0..3 : \E d \in Nat : JDay(n, b, k, y, d)
  BY <1>2
<1>4. PICK d \in Nat : JDay(n, b, k, y, d)
  BY <1>3
<1>5. PICK Y \in Int : Y = 979 + 33 * b + 4 * k + y
  OBVIOUS
<1>6. ShamsiLength(Y) = CycleLength(k, y) /\ (k = 8 => y = 0)
  BY <1>4, <1>5, JLength DEF JDay, CycleLength
<1>7. d < CycleLength(k, y) /\ CycleLength(k, y) \in Nat
  BY <1>4, BeforeNext, SMT DEF JDay, CycleLength
<1>8. ShamsiOf(n) = JDate(Y, d)
  BY <1>4, <1>5, ShamsiOfDay DEF JDay
<1>9. NextShamsi(ShamsiOf(n)) =
        IF d + 1 < CycleLength(k, y) THEN JDate(Y, d + 1) ELSE JDate(Y + 1, 0)
  <2>1. d \in 0..(ShamsiLength(Y) - 1)
    BY <1>6, <1>7
  <2> QED BY <1>6, <1>8, <2>1, ShamsiNext
<1>10. CASE d + 1 < CycleLength(k, y)
  <2>1. d + 1 < Length(y) /\ (k = 8 => y = 0 /\ d + 1 < 365) /\ d + 1 \in Nat
    BY <1>6, <1>10, BeforeNext, SMT DEF CycleLength
  <2>2. n + 1 = 12053 * b + 1461 * k + Before(y) + (d + 1)
    BY <1>4, BeforeNext, SMT DEF JDay
  <2> QED BY <1>5, <1>9, <1>10, <2>1, <2>2, ShamsiOfDay
<1>11. CASE ~(d + 1 < CycleLength(k, y)) /\ k < 8 /\ y < 3
  <2>1. y + 1 \in 0..3 /\ 0 < Length(y + 1) /\ Y + 1 = 979 + 33 * b + 4 * k + (y + 1) /\ k # 8
    BY <1>5, <1>11, SMT DEF Length
  <2>2. n + 1 = 12053 * b + 1461 * k + Before(y + 1) + 0
    BY <1>4, <1>7, <1>11, BeforeNext, SMT DEF JDay, CycleLength
  <2> QED BY <1>9, <1>11, <2>1, <2>2, ShamsiOfDay
<1>12. CASE ~(d + 1 < CycleLength(k, y)) /\ k < 8 /\ y = 3
  <2>1. k + 1 \in 0..8 /\ Y + 1 = 979 + 33 * b + 4 * (k + 1) + 0
    BY <1>5, <1>12, SMT
  <2>2. n + 1 = 12053 * b + 1461 * (k + 1) + Before(0) + 0 /\ 0 < Length(0)
    BY <1>4, <1>7, <1>12, BeforeNext, SMT DEF JDay, CycleLength
  <2> QED BY <1>9, <1>12, <2>1, <2>2, ShamsiOfDay
<1>13. CASE ~(d + 1 < CycleLength(k, y)) /\ k = 8
  <2>1. y = 0 /\ d = 364
    BY <1>4, <1>6, <1>7, <1>13, SMT DEF JDay, CycleLength
  <2>2. PICK a \in Int, c \in 0..8, z \in 0..3, l \in Nat : a = b + 1 /\ c = 0 /\ z = 0 /\ l = 0
    BY SMT
  <2>3. n + 1 = 12053 * a + 1461 * c + Before(z) + l
    BY <1>4, <1>13, <2>1, <2>2, BeforeNext, SMT DEF JDay
  <2>4. Y + 1 = 979 + 33 * a + 4 * c + z /\ c # 8 /\ l < Length(z)
    BY <1>5, <1>13, <2>1, <2>2, BeforeNext, SMT
  <2>5. ShamsiOf(n + 1) = JDate(Y + 1, l)
    BY <2>3, <2>4, ShamsiOfDay
  <2> QED BY <1>9, <1>13, <2>2, <2>5
<1> QED BY <1>10, <1>11, <1>12, <1>13, SMT

-----------------------------------------------------------------------------
(* From the Shamsi date to the Gregorian one *)

(* The place in its cycle of every Shamsi year that the chip can hold. *)
LEMMA YearOf ==
  ASSUME NEW Y \in 1378..1478
  PROVE  \E b \in 12..15 : \E k \in 0..8 : \E y \in 0..3 :
            Y = 979 + 33 * b + 4 * k + y /\ (k = 8 => y = 0)
<1>1. PICK b \in Int : b = (Y - 979) \div 33
  BY SMT
<1>2. PICK r \in Int : r = (Y - 979) % 33
  BY SMT
<1>3. b \in 12..15 /\ Y = 979 + 33 * b + r /\ 0 <= r /\ r < 33
  BY <1>1, <1>2, SMT
<1>4. /\ r \div 4 \in 0..8 /\ (r % 4) \in 0..3 /\ r = 4 * (r \div 4) + (r % 4)
      /\ r \div 4 = 8 => r % 4 = 0
  BY <1>3, SMT
<1>5. Y = 979 + 33 * b + 4 * (r \div 4) + (r % 4)
  BY <1>3, <1>4, SMT
<1> QED BY <1>3, <1>4, <1>5

(* The day of the year of a Shamsi date, as SH2M counts it *)
LEMMA ShamsiStart ==
  ASSUME NEW m \in 1..12
  PROVE  /\ Days(j_days_in_month)[m - 1] \in Nat
         /\ (IF m < 7 THEN (m - 1) * 31 ELSE (m - 7) * 30 + 186) = Days(j_days_in_month)[m - 1]
<1> DEFINE D == Days(j_days_in_month)
<1>1. ShamsiStarts(D)
  BY ShamsiDays
<1> HIDE DEF D
<1>2. D[m - 1] \in Nat /\ (IF m < 7 THEN (m - 1) * 31 ELSE (m - 7) * 30 + 186) = D[m - 1]
  BY <1>1, SMT DEF ShamsiStarts
<1> QED BY <1>2 DEF D

(* No month ends after the year. *)
LEMMA InYear ==
  ASSUME NEW m, NEW len \in Nat, Calendar(m, len), NEW i \in 0..11
  PROVE  End(m, len, i) \in Nat /\ End(m, len, i) <= len
<1>1. CASE i = 11
  BY <1>1 DEF End
<1>2. CASE i < 11
  <2>1. i + 1 \in 0..11 /\ Days(m)[i + 1] = End(m, len, i)
    BY <1>2 DEF End
  <2>2. /\ Days(m)[i + 1] < End(m, len, i + 1) /\ Days(m)[11] < len
        /\ Days(m)[11] \in Nat /\ Days(m)[i + 1] \in Nat
    BY <2>1 DEF Calendar, End
  <2>3. i + 1 = 11 \/ (Days(m)[i + 1 + 1] <= Days(m)[11] /\ Days(m)[i + 1 + 1] = End(m, len, i + 1))
    BY <2>1 DEF Calendar, End
  <2> QED BY <2>1, <2>2, <2>3 DEF End, Calendar
<1> QED BY <1>1, <1>2

(* d is the date of a day of the hundred years, and SH2M finds its Gregorian date *)
OfDay(d, e) == d = AsShamsi(e) /\ SH2M(d[1], d[2], d[3]) = AsGregorian(e)

Years    == 1378..1478
MonthsOf == 1..12
DaysOf   == 1..31

(* HeldDay, for a date given by its fields. *)
LEMMA HeldFields ==
  ASSUME NEW Y \in Years, NEW m \in MonthsOf, NEW j \in DaysOf,
         NEW d, d[1] = Y, d[2] = m, d[3] = j, Held(d)
  PROVE  \E e \in TheDays : OfDay(d, e)
<1> USE DEF Years, MonthsOf, DaysOf
<1>1. d = <<Y, m, j>>
  <2>1. d = <<d[1], d[2], d[3]>>
    BY SMT DEF Held
  <2> QED BY <2>1
<1>2. /\ d[1] = Y /\ d[2] = m /\ d[3] = j
      /\ j <= ShamsiMonth(Y, m)
      /\ Y = 1378 => m > 10 \/ (m = 10 /\ j >= 11)
      /\ Y = 1478 => m < 10 \/ (m = 10 /\ j <= 11)
  BY <1>1 DEF Held
<1>3. PICK b \in 12..15, k \in 0..8, y \in 0..3 : Y = 979 + 33 * b + 4 * k + y /\ (k = 8 => y = 0)
  BY YearOf
<1>4. ShamsiLength(Y) = CycleLength(k, y)
  BY <1>3, JLength, SMT DEF CycleLength
<1> DEFINE D == Days(j_days_in_month)
           L == ShamsiLength(Y)
<1>5. D[m - 1] \in Nat /\ (IF m < 7 THEN (m - 1) * 31 ELSE (m - 7) * 30 + 186) = D[m - 1]
  BY ShamsiStart
<1>6. PICK i \in 0..11 : i = m - 1 /\ i + 1 = m
  BY SMT
<1>7. PICK n \in Nat : n = D[i] + j - 1
  BY <1>5, <1>6, SMT
<1>8. Calendar(j_days_in_month, L) /\ L \in Nat
  BY ShamsiCalendar DEF ShamsiLength
<1>9. j <= End(j_days_in_month, L, i) - D[i] /\ End(j_days_in_month, L, i) \in Nat
  BY <1>2, <1>6, <1>8, ShamsiMonthDays DEF Calendar
<1>10. d = JDate(Y, n)
  <2>1. D[i] <= n /\ n < End(j_days_in_month, L, i) /\ n - D[i] + 1 = j /\ D[i] \in Nat
    <3>1. D[i] \in Nat
      BY <1>5, <1>6
    <3> DEFINE E == End(j_days_in_month, L, i)
    <3>2. j <= E - D[i] /\ E \in Nat
      BY <1>9
    <3> HIDE DEF D, E
    <3>3. D[i] <= n /\ n < E /\ n - D[i] + 1 = j /\ D[i] \in Nat
      BY <1>7, <3>1, <3>2, SMT
    <3> QED BY <3>3 DEF D, E
  <2> QED BY <1>1, <1>6, <1>8, <2>1, DateOfDay DEF JDate
<1>11. n < CycleLength(k, y) /\ n < Length(y) /\ (k = 8 => y = 0 /\ n < 365)
  <2>1. n < L
    BY <1>5, <1>6, <1>7, <1>8, <1>9, InYear
  <2> QED BY <1>3, <1>4, <2>1, BeforeNext DEF CycleLength
<1>12. Before(y) = (IF y = 0 THEN 0 ELSE 365 * y + 1) /\ Before(y) \in Int
  BY DEF Before
<1>13. PICK e \in Int : e = 12053 * (b - 12) + 1461 * k + Before(y) + n - 1382
  BY <1>12
<1>14. 0 <= e
  <2>1. Y = 1378 => n >= 286
    <3>1. ShamsiStarts(D)
      BY ShamsiDays
    <3> HIDE DEF D
    <3>2. Y = 1378 => D[i] >= 276 /\ (D[i] = 276 => j >= 11)
      BY <1>2, <1>6, <3>1, SMT DEF ShamsiStarts
    <3> QED BY <1>5, <1>6, <1>7, <3>1, <3>2, SMT DEF ShamsiStarts
  <2> QED BY <1>3, <1>12, <1>13, <2>1, SMT
<1>15. e <= LastDay
  <2>1. Y = 1478 => n <= 286
    <3>1. ShamsiStarts(D)
      BY ShamsiDays
    <3> HIDE DEF D
    <3>2. Y = 1478 => D[i] <= 276 /\ (D[i] = 276 => j <= 11)
      BY <1>2, <1>6, <3>1, SMT DEF ShamsiStarts
    <3> QED BY <1>5, <1>6, <1>7, <3>1, <3>2, SMT DEF ShamsiStarts
  <2>2. n <= 365
    BY <1>11, BeforeNext
  <2> QED BY <1>3, <1>12, <1>13, <2>1, <2>2, <1>11, SMT DEF LastDay
<1>16. AsShamsi(e) = d
  <2>1. 146018 + e = 12053 * b + 1461 * k + Before(y) + n
    BY <1>12, <1>13, SMT
  <2> QED BY <1>3, <1>10, <1>11, <2>1, ShamsiOfDay DEF AsShamsi
<1>17. SH2M(d[1], d[2], d[3]) = AsGregorian(e)
  <2> DEFINE jy == Y + 1595
             N == 365 * jy - 355668 + (jy \div 33) * 8 + ((jy % 33) + 3) \div 4 + j
                    + IF m < 7 THEN (m - 1) * 31 ELSE (m - 7) * 30 + 186
  <2>1. SH2M(Y, m, j) = GregorianOf(N)
    BY DEF SH2M, GregorianOf
  <2>2. 365 * jy - 355668 + (jy \div 33) * 8 + ((jy % 33) + 3) \div 4
           = 12053 * (b - 12) + 1461 * k + Before(y) + 730485 - 1382 - 1
    <3>1. jy = 33 * (b + 78) + 4 * k + y
      BY <1>3, SMT
    <3>2. jy \div 33 = b + 78 /\ jy % 33 = 4 * k + y
      <4> HIDE DEF jy
      <4> QED BY <1>3, <3>1, SMT
    <3>3. (4 * k + y + 3) \div 4 = k + (IF y = 0 THEN 0 ELSE 1)
      BY SMT
    <3>4. 365 * jy = 12045 * b + 939510 + 1460 * k + 365 * y
      <4> HIDE DEF jy
      <4> QED BY <3>1, SMTT(60)
    <3> DEFINE q1 == jy \div 33
               r1 == jy % 33
               p1 == 365 * jy
    <3>5. /\ q1 = b + 78 /\ r1 = 4 * k + y /\ p1 = 12045 * b + 939510 + 1460 * k + 365 * y
          /\ (r1 + 3) \div 4 = k + (IF y = 0 THEN 0 ELSE 1)
      BY <3>2, <3>3, <3>4
    <3> HIDE DEF jy, q1, r1, p1
    <3>6. p1 - 355668 + q1 * 8 + (r1 + 3) \div 4
            = 12053 * (b - 12) + 1461 * k + Before(y) + 730485 - 1382 - 1
      BY <1>12, <3>5, SMTT(60)
    <3> QED BY <3>6 DEF q1, r1, p1
  <2>3. N = 730485 + e
    <3> DEFINE a == 365 * jy - 355668 + (jy \div 33) * 8 + ((jy % 33) + 3) \div 4
    <3>1. N = a + j + D[i]
      BY <1>5, <1>6
    <3>2. D[i] \in Nat
      BY <1>5, <1>6
    <3>3. a = 12053 * (b - 12) + 1461 * k + Before(y) + 730485 - 1382 - 1
      BY <2>2
    <3> HIDE DEF a, N, D
    <3> QED BY <1>7, <1>12, <1>13, <3>1, <3>2, <3>3, SMT
  <2> HIDE DEF N
  <2> QED BY <1>2, <2>1, <2>3 DEF AsGregorian
<1>18. e \in TheDays
  BY <1>14, <1>15 DEF TheDays
<1> QED BY <1>16, <1>17, <1>18 DEF OfDay

(* Every date that the chip holds is the date of a day of the hundred      *)
(* years, and SH2M finds the Gregorian date of that day                    *)
LEMMA HeldDay ==
  ASSUME NEW d, Held(d)
  PROVE  \E e \in TheDays : OfDay(d, e)
<1>1. d[1] \in Years /\ d[2] \in MonthsOf /\ d[3] \in DaysOf
  BY SMT DEF Held, Years, MonthsOf, DaysOf
<1> QED BY <1>1, HeldFields

-----------------------------------------------------------------------------
(* The registers of the DS1307 *)

GYears == 2000..2099
LastGYear == 2099

(* A Gregorian date as the chip has it: two digits of the year *)
Short(g) == <<g[1] - 2000, g[2], g[3]>>
AsRegisters(e) == Registers(Short(AsGregorian(e)))

(* The Gregorian date of a day of the hundred years has a year of this     *)
(* century, and M2Sh finds the Shamsi date of the day from it.             *)
LEMMA GDays2000 ==
  ASSUME NEW e \in TheDays
  PROVE  \E Y \in GYears : \E d \in Nat :
           /\ d \in 0..(YearLength(Y) - 1)
           /\ AsGregorian(e) = GDate(Y, d)
           /\ M2Sh(AsGregorian(e)[1], AsGregorian(e)[2], AsGregorian(e)[3]) = AsShamsi(e)
           /\ e = LastDay => Y = LastGYear
<1>0. e \in Int /\ 0 <= e /\ e <= 36524
  BY SMT DEF TheDays, LastDay
<1>1. PICK k \in 0..24 : \E y \in 0..3 : \E d \in Nat : GDay(e, k, y, d)
  BY GDays
<1>2. PICK y \in 0..3 : \E d \in Nat : GDay(e, k, y, d)
  BY <1>1
<1>3. PICK d \in Nat : GDay(e, k, y, d)
  BY <1>2
<1>4. PICK Y \in Int : Y = 2000 + 4 * k + y
  OBVIOUS
<1>5. YearLength(Y) = Length(y) /\ d < Length(y) /\ Y \in GYears
  <2>1. YearLength(Y) = Length(y) /\ d < Length(y)
    BY <1>3, <1>4, GLength DEF GDay
  <2> QED BY <1>4, <2>1, SMT DEF GYears
<1>6. d \in 0..(YearLength(Y) - 1)
  BY <1>5, BeforeNext
<1>7. 730485 + e = 730485 + 1461 * k + Before(y) + d
  BY <1>0, <1>3, BeforeNext, SMT DEF GDay
<1>8. AsGregorian(e) = GDate(Y, d)
  BY <1>4, <1>5, <1>7, GregorianOfDay, SMT DEF AsGregorian
<1>9. M2Sh(AsGregorian(e)[1], AsGregorian(e)[2], AsGregorian(e)[3]) = AsShamsi(e)
  <2>1. InGYear(e, Y, d)
    BY <1>3, <1>4 DEF GYear, InGYear
  <2>2. LET g == GDate(Y, d) IN M2Sh(g[1], g[2], g[3]) = AsShamsi(e)
    BY <1>0, <2>1, M2ShOfDay
  <2> QED BY <1>8, <2>2
<1>10. e = LastDay => Y = LastGYear
  <2>1. e = LastDay => k = 24 /\ y = 3
    BY <1>0, <1>3, SMT DEF GDay, Length, Before, LastDay
  <2> QED BY <1>4, <2>1, SMT DEF LastGYear
<1> QED BY <1>5, <1>6, <1>8, <1>9, <1>10

(* The same, with the date as a triple. *)
LEMMA GTriple ==
  ASSUME NEW e \in TheDays
  PROVE  \E Y \in GYears : \E m \in 1..12 : \E j \in 1..31 :
           /\ AsGregorian(e) = <<Y, m, j>>
           /\ M2Sh(Y, m, j) = AsShamsi(e)
           /\ e = LastDay => Y = LastGYear
<1>1. PICK Y \in GYears : \E d \in Nat :
           /\ d \in 0..(YearLength(Y) - 1)
           /\ AsGregorian(e) = GDate(Y, d)
           /\ M2Sh(AsGregorian(e)[1], AsGregorian(e)[2], AsGregorian(e)[3]) = AsShamsi(e)
           /\ e = LastDay => Y = LastGYear
  BY GDays2000
<1>2. PICK d \in Nat :
           /\ d \in 0..(YearLength(Y) - 1)
           /\ AsGregorian(e) = GDate(Y, d)
           /\ M2Sh(AsGregorian(e)[1], AsGregorian(e)[2], AsGregorian(e)[3]) = AsShamsi(e)
           /\ e = LastDay => Y = LastGYear
  BY <1>1
<1>3. PICK i \in 0..11, j \in 1..31 : AsGregorian(e) = <<Y, i + 1, j>>
  BY <1>2, GFields
<1>4. PICK m \in 1..12 : m = i + 1
  BY SMT
<1>5. /\ AsGregorian(e)[1] = Y /\ AsGregorian(e)[2] = m /\ AsGregorian(e)[3] = j
      /\ AsGregorian(e) = <<Y, m, j>>
  BY <1>3, <1>4
<1> QED BY <1>2, <1>5

(* Two digits in BCD, and back *)
LEMMA Digits2 ==
  ASSUME NEW n \in 0..99
  PROVE  /\ BCD(n) \div 16 = n \div 10 /\ BCD(n) % 16 = n % 10
         /\ Digits(BCD(n), 16) = n
         /\ n < 40 => Digits(BCD(n), 4) = n
         /\ (BCD(n) \div 16) * 10 + (BCD(n) % 16) = n
<1>1. PICK a \in 0..9, b \in 0..9 : n = 10 * a + b
  <2>1. n \div 10 \in 0..9 /\ (n % 10) \in 0..9 /\ n = 10 * (n \div 10) + (n % 10)
    BY SMT
  <2> QED BY <2>1
<1>2. n \div 10 = a /\ n % 10 = b
  BY <1>1, SMT
<1>3. BCD(n) = 16 * a + b
  BY <1>2, SMT DEF BCD
<1>4. PICK r \in Int : r = 16 * a + b
  OBVIOUS
<1>5. r \div 16 = a /\ r % 16 = b
  BY <1>4, SMT
<1>6. a % 16 = a /\ (n < 40 => a % 4 = a)
  BY <1>1, SMT
<1>7. Digits(r, 16) = n /\ (n < 40 => Digits(r, 4) = n) /\ (r \div 16) * 10 + (r % 16) = n
  BY <1>1, <1>5, <1>6, SMT DEF Digits
<1> QED BY <1>2, <1>3, <1>4, <1>5, <1>7

(* A function on 1..3 is a triple. *)
LEMMA Triple ==
  ASSUME NEW f
  PROVE  [i \in 1..3 |-> f[i]] = <<f[1], f[2], f[3]>>
<1>1. DOMAIN <<f[1], f[2], f[3]>> = 1..3
  OBVIOUS
<1>2. \A i \in 1..3 : <<f[1], f[2], f[3]>>[i] = f[i]
  OBVIOUS
<1> QED BY <1>1, <1>2

(* What is written to the registers as BCD is read back, by the masks of   *)
(* the code and by the chip itself.                                        *)
LEMMA RegistersBack ==
  ASSUME NEW x \in 0..99, NEW m \in 1..12, NEW j \in 1..31
  PROVE  /\ Fields(Registers(<<x, m, j>>)) = <<x, m, j>>
         /\ Counted(Registers(<<x, m, j>>)) = <<x, m, j>>
<1> DEFINE r == Registers(<<x, m, j>>)
<1>1. r[1] = BCD(x) /\ r[2] = BCD(m) /\ r[3] = BCD(j)
  BY DEF Registers, Field
<1>2. m \in 0..99 /\ m < 40 /\ j \in 0..99 /\ j < 40
  OBVIOUS
<1>3. Digits(r[1], 16) = x /\ Digits(r[3], 4) = j
  BY <1>1, <1>2, Digits2
<1>4. Digits(r[2], 2) = m
  <2>1. BCD(m) \div 16 = m \div 10 /\ BCD(m) % 16 = m % 10
    BY <1>2, Digits2
  <2>2. (m \div 10) % 2 = m \div 10 /\ (m \div 10) * 10 + (m % 10) = m
    BY SMT
  <2> QED BY <1>1, <2>1, <2>2 DEF Digits
<1>5. Fields(r) = <<x, m, j>>
  BY <1>3, <1>4 DEF Fields
<1>6. /\ (BCD(x) \div 16) * 10 + (BCD(x) % 16) = x
      /\ (BCD(m) \div 16) * 10 + (BCD(m) % 16) = m
      /\ (BCD(j) \div 16) * 10 + (BCD(j) % 16) = j
  BY <1>2, Digits2
<1>7. Counted(r) = <<x, m, j>>
  <2> DEFINE c == Counted(r)
  <2>1. c = [i \in 1..3 |-> (r[i] \div 16) * 10 + (r[i] % 16)]
    BY DEF Counted, Field
  <2>2. c[1] = x /\ c[2] = m /\ c[3] = j
    BY <1>1, <1>6, <2>1
  <2>3. c = [i \in 1..3 |-> c[i]]
    BY <2>1
  <2> HIDE DEF c
  <2>4. c = <<c[1], c[2], c[3]>>
    BY <2>3, Triple
  <2>5. c = <<x, m, j>>
    BY <2>2, <2>4
  <2> QED BY <2>5 DEF c
<1> QED BY <1>5, <1>7

(* A day as the chip, the clients and the system clock have it *)
LEMMA OnTheDay ==
  ASSUME NEW e \in TheDays
  PROVE  /\ Fields(AsRegisters(e)) = Short(AsGregorian(e))
         /\ Counted(AsRegisters(e)) = Short(AsGregorian(e))
         /\ Shown(Short(AsGregorian(e))) = AsShamsi(e)
         /\ SystemDate(Short(AsGregorian(e))) = AsGregorian(e)
<1>1. PICK Y \in GYears, m \in 1..12, j \in 1..31 :
           /\ AsGregorian(e) = <<Y, m, j>>
           /\ M2Sh(Y, m, j) = AsShamsi(e)
  BY GTriple
<1>2. PICK x \in 0..99 : x = Y - 2000 /\ x + 2000 = Y /\ 2000 + x = Y
  BY SMT DEF GYears
<1>3. Short(AsGregorian(e)) = <<x, m, j>>
  BY <1>1, <1>2 DEF Short
<1>4. /\ Fields(AsRegisters(e)) = Short(AsGregorian(e))
      /\ Counted(AsRegisters(e)) = Short(AsGregorian(e))
  BY <1>3, RegistersBack, Zenon DEF AsRegisters
<1>5. Shown(Short(AsGregorian(e))) = AsShamsi(e)
  BY <1>1, <1>2, <1>3 DEF Shown
<1>6. SystemDate(Short(AsGregorian(e))) = AsGregorian(e)
  BY <1>1, <1>2, <1>3 DEF SystemDate
<1> QED BY <1>4, <1>5, <1>6

(* And the day after *)
LEMMA TheNextDay ==
  ASSUME NEW e \in TheDays, Short(AsGregorian(e))[1] <= LastYear
  PROVE  /\ e + 1 \in TheDays
         /\ NextGregorian(AsGregorian(e)) = AsGregorian(e + 1)
         /\ NextShamsi(AsShamsi(e)) = AsShamsi(e + 1)
         /\ Registers([AsGregorian(e + 1) EXCEPT ![1] = @ % 100]) = AsRegisters(e + 1)
<1>1. PICK Y \in GYears, m \in 1..12, j \in 1..31 :
           /\ AsGregorian(e) = <<Y, m, j>>
           /\ e = LastDay => Y = LastGYear
  BY GTriple
<1>2. e # LastDay
  <2>1. Y - 2000 <= LastYear
    BY <1>1 DEF Short
  <2> QED BY <1>1, <2>1, LastYearAssumption, SMT DEF LastGYear, GYears
<1>3. e + 1 \in TheDays
  BY <1>2, SMT DEF TheDays, LastDay
<1>4. NextGregorian(AsGregorian(e)) = AsGregorian(e + 1)
  BY <1>2, GStep
<1>5. NextShamsi(AsShamsi(e)) = AsShamsi(e + 1)
  <2>1. PICK n \in Int : n = 146018 + e /\ n + 1 = 146018 + (e + 1)
    BY SMT DEF TheDays
  <2> QED BY <2>1, SStep, SMT DEF AsShamsi
<1>6. Registers([AsGregorian(e + 1) EXCEPT ![1] = @ % 100]) = AsRegisters(e + 1)
  <2>1. PICK y \in GYears, p \in 1..12, q \in 1..31 : AsGregorian(e + 1) = <<y, p, q>>
    BY <1>3, GTriple
  <2>2. y % 100 = y - 2000
    BY SMT DEF GYears
  <2> QED BY <2>1, <2>2 DEF AsRegisters, Short
<1> QED BY <1>3, <1>4, <1>5, <1>6

(* The first day *)
LEMMA First ==
  \E e \in TheDays : AsShamsi(e) = <<1379, 1, 1>> /\ AsGregorian(e) = FirstDay
<1>1. PICK e \in Int, k \in 0..24, k1 \in 0..8, y \in 0..3, d \in Nat, d1 \in Nat, b \in Int :
        e = 79 /\ k = 0 /\ k1 = 1 /\ y = 0 /\ d = 79 /\ d1 = 0 /\ b = 12
  BY SMT
<1>2. e \in TheDays
  BY <1>1 DEF TheDays, LastDay
<1>3. AsShamsi(e) = JDate(1379, 0)
  <2>1. 146018 + e = 12053 * b + 1461 * k1 + Before(y) + d1 /\ d1 < Length(y) /\ k1 # 8
    BY <1>1, SMT DEF Before, Length
  <2>2. 979 + 33 * b + 4 * k1 + y = 1379
    BY <1>1, SMT
  <2>3. ShamsiOf(146018 + e) = JDate(979 + 33 * b + 4 * k1 + y, d1)
    BY <2>1, ShamsiOfDay, SMT
  <2> QED BY <1>1, <2>2, <2>3, SMT DEF AsShamsi
<1>4. JDate(1379, 0) = <<1379, 1, 1>>
  BY ShamsiCalendar, NewYear DEF JDate
<1>5. AsGregorian(e) = GDate(2000, 79)
  <2>1. 730485 + e = 730485 + 1461 * k + Before(y) + d /\ d < Length(y)
    BY <1>1, SMT DEF Before, Length
  <2>2. 2000 + 4 * k + y = 2000
    BY <1>1, SMT
  <2>3. GregorianOf(730485 + e) = GDate(2000 + 4 * k + y, d)
    BY <2>1, GregorianOfDay, SMT
  <2> QED BY <1>1, <2>2, <2>3, SMT DEF AsGregorian
<1>6. GDate(2000, 79) = FirstDay
  <2> DEFINE D == Days(LeapMonths)
  <2>1. Months(2000) = LeapMonths /\ YearLength(2000) = 366
    BY SMT DEF Months, YearLength, Gregorian
  <2>2. Calendar(LeapMonths, 366)
    BY <2>1, GregorianCalendar
  <2>3. LeapStarts(D)
    BY LeapDays
  <2>4. D[2] <= 79 /\ 79 < D[3] /\ 79 - D[2] + 1 = 20
    <3> HIDE DEF D
    <3> QED BY <2>3 DEF LeapStarts
  <2>5. DateIn(2000, LeapMonths, 79) = <<2000, 2 + 1, 79 - D[2] + 1>>
    BY <2>2, <2>4, DateOfDay DEF End
  <2> QED BY <2>1, <2>4, <2>5 DEF GDate, FirstDay
<1> QED BY <1>2, <1>3, <1>4, <1>5, <1>6

(* Every Shamsi date of the hundred years is one the chip holds *)
LEMMA DayHeld ==
  ASSUME NEW e \in TheDays
  PROVE  Held(AsShamsi(e))
<1>0. e \in Int /\ 0 <= e /\ e <= 36524
  BY SMT DEF TheDays, LastDay
<1>n. PICK n \in Int : n = 146018 + e
  BY <1>0
<1>a. PICK b \in Int : \E k \in 0..8 : \E y \in 0..3 : \E d \in Nat : JDay(n, b, k, y, d)
  BY JDays
<1>b. PICK k \in 0..8 : \E y \in 0..3 : \E d \in Nat : JDay(n, b, k, y, d)
  BY <1>a
<1>c. PICK y \in 0..3 : \E d \in Nat : JDay(n, b, k, y, d)
  BY <1>b
<1>1. PICK d \in Nat : JDay(n, b, k, y, d)
  BY <1>c
<1>2. PICK Y \in Int : Y = 979 + 33 * b + 4 * k + y
  OBVIOUS
<1>3. ShamsiLength(Y) = CycleLength(k, y) /\ (k = 8 => y = 0)
  BY <1>1, <1>2, JLength DEF JDay, CycleLength
<1>4. d < CycleLength(k, y) /\ CycleLength(k, y) \in {365, 366}
  BY <1>1, BeforeNext, SMT DEF JDay, CycleLength
<1>5. AsShamsi(e) = JDate(Y, d)
  BY <1>1, <1>2, <1>n, ShamsiOfDay DEF JDay, AsShamsi
<1> DEFINE D == Days(j_days_in_month)
           L == ShamsiLength(Y)
<1>6. Calendar(j_days_in_month, L) /\ L \in Nat /\ d \in 0..(L - 1)
  BY <1>3, <1>4, ShamsiCalendar DEF ShamsiLength
<1>7. PICK i \in 0..11 : D[i] <= d /\ d < End(j_days_in_month, L, i)
  BY <1>6, DayInMonth
<1>8. PICK m \in 1..12 : m = i + 1
  BY SMT
<1>9. D[i] \in Nat
  BY <1>6 DEF Calendar
<1>10. PICK j \in Nat \ {0} : j = d - D[i] + 1
  <2>1. d - D[i] + 1 \in Nat \ {0}
    BY <1>7, <1>9, SMT
  <2> QED BY <2>1
<1>11. AsShamsi(e) = <<Y, m, j>>
  BY <1>5, <1>6, <1>7, <1>8, <1>10, DateOfDay DEF JDate
<1>12. j <= ShamsiMonth(Y, m)
  <2>1. ShamsiMonth(Y, i + 1) = End(j_days_in_month, L, i) - D[i]
    BY ShamsiMonthDays
  <2>2. End(j_days_in_month, L, i) \in Nat
    BY <1>6 DEF Calendar
  <2> DEFINE E == End(j_days_in_month, L, i)
             M == ShamsiMonth(Y, m)
  <2>3. M = E - D[i] /\ E \in Nat /\ d < E
    BY <1>7, <1>8, <2>1, <2>2
  <2> HIDE DEF D, E, M
  <2>4. j <= M
    BY <1>9, <1>10, <2>3, SMT
  <2> QED BY <2>4 DEF M
<1>13. ShamsiMonth(Y, m) \in 1..31
  BY SMT DEF ShamsiMonth, j_days_in_month
<1>14. 1378 <= Y /\ Y <= 1478 /\ (Y = 1378 => d >= 286) /\ (Y = 1478 => d <= 286)
  <2>1. 12053 * b + 1461 * k + Before(y) + d = 146018 + e /\ d <= 365
        /\ Before(y) = (IF y = 0 THEN 0 ELSE 365 * y + 1)
    BY <1>1, <1>4, <1>n, SMT DEF JDay, CycleLength, Before
  <2>2. b \in 12..15
    BY <1>0, <2>1, SMT
  <2>3. d < Length(y) /\ (k = 8 => y = 0)
    BY <1>1 DEF JDay
  <2> QED BY <1>0, <1>2, <2>1, <2>2, <2>3, SMT DEF Length
<1>15. /\ d >= 286 => m > 10 \/ (m = 10 /\ j >= 11)
       /\ d <= 286 => m < 10 \/ (m = 10 /\ j <= 11)
  <2>1. ShamsiStarts(D)
    BY ShamsiDays
  <2>2. i = 11 \/ d < D[i + 1]
    BY <1>7 DEF End
  <2> HIDE DEF D
  <2> QED BY <1>7, <1>8, <1>10, <2>1, <2>2, SMT DEF ShamsiStarts
<1>16. j \in 1..31
  BY <1>12, <1>13
<1> QED BY <1>11, <1>12, <1>14, <1>15, <1>16, SMT DEF Held

-----------------------------------------------------------------------------
(* The threads: what each step does *)

STEPS == {"idle", "put", "copy", "set", "get", "fill", "load", "done"}
IsTriple(s) == s = <<s[1], s[2], s[3]>>
IsThread(r) ==
    /\ r = [step |-> r.step, pos |-> r.pos, regs |-> r.regs, date |-> r.date, got |-> r.got,
            asked |-> r.asked, night |-> r.night, clean |-> r.clean]
    /\ r.step \in STEPS /\ r.pos \in Field /\ IsTriple(r.got)
    /\ r.night \in BOOLEAN /\ r.clean \in BOOLEAN

Types ==
    /\ thread = [t \in Threads |-> thread[t]]
    /\ \A t \in Threads : IsThread(thread[t])
    /\ IsTriple(DS1307_Str)

(* What a step of t does to another thread, unless a clash or midnight *)
KeptBy(u) ==
    /\ thread'[u].step = thread[u].step
    /\ thread'[u].pos = thread[u].pos
    /\ thread'[u].regs = thread[u].regs
    /\ thread'[u].date = thread[u].date
    /\ thread'[u].got = thread[u].got
    /\ thread'[u].asked = thread[u].asked

(* A triple in which one field changes. *)
LEMMA TripleExcept ==
  ASSUME NEW s, IsTriple(s), NEW p \in Field, NEW v
  PROVE  /\ IsTriple([s EXCEPT ![p] = v])
         /\ [s EXCEPT ![p] = v][p] = v
         /\ \A i \in Field : i # p => [s EXCEPT ![p] = v][i] = s[i]
<1>1. DOMAIN s = 1..3
  <2>1. DOMAIN <<s[1], s[2], s[3]>> = 1..3
    OBVIOUS
  <2> QED BY <2>1 DEF IsTriple
<1>2. s = [i \in 1..3 |-> s[i]]
  BY <1>1, Triple DEF IsTriple
<1> DEFINE f == [s EXCEPT ![p] = v]
<1>3. f = [i \in 1..3 |-> f[i]]
  BY <1>2
<1>4. f = <<f[1], f[2], f[3]>>
  BY <1>3, Triple
<1>5. f[p] = v /\ \A i \in 1..3 : i # p => f[i] = s[i]
  BY <1>1 DEF Field
<1> QED BY <1>4, <1>5 DEF IsTriple, Field

(* Triples with the same fields are the same. *)
LEMMA TripleEqual ==
  ASSUME NEW a, NEW b, IsTriple(a), IsTriple(b), \A i \in Field : a[i] = b[i]
  PROVE  a = b
<1>1. a[1] = b[1] /\ a[2] = b[2] /\ a[3] = b[3]
  BY DEF Field
<1> QED BY <1>1 DEF IsTriple

(* The fields of an idle thread. *)
LEMMA IdleIs ==
  /\ IsThread(Idle)
  /\ Idle.step = "idle" /\ Idle.pos = 1 /\ Idle.date = Unknown /\ Idle.asked = Unknown
BY DEF Idle, IsThread, IsTriple, STEPS, Field, Unknown

(* Onward *)
Moved(r, s, next) ==
    /\ IF r.pos < 3 THEN s.pos = r.pos + 1 /\ s.step = r.step ELSE s.pos = 1 /\ s.step = next
    /\ s.regs = r.regs /\ s.date = r.date /\ s.got = r.got /\ s.asked = r.asked
    /\ s.night = r.night /\ s.clean = r.clean

(* What Onward does to a thread. *)
LEMMA OnwardMoves ==
  ASSUME NEW r, IsThread(r), NEW next \in STEPS
  PROVE  IsThread(Onward(r, next)) /\ Moved(r, Onward(r, next), next)
<1>1. CASE r.pos < 3
  <2>1. r.pos + 1 \in Field
    BY <1>1 DEF IsThread, Field
  <2>2. Onward(r, next) = [step |-> r.step, pos |-> r.pos + 1, regs |-> r.regs, date |-> r.date,
             got |-> r.got, asked |-> r.asked, night |-> r.night, clean |-> r.clean]
    BY <1>1 DEF Onward, IsThread
  <2> QED BY <1>1, <2>1, <2>2 DEF IsThread, Moved
<1>2. CASE ~(r.pos < 3)
  <2>2. Onward(r, next) = [step |-> next, pos |-> 1, regs |-> r.regs, date |-> r.date,
             got |-> r.got, asked |-> r.asked, night |-> r.night, clean |-> r.clean]
    BY <1>2 DEF Onward, IsThread
  <2> QED BY <1>2, <2>2 DEF IsThread, Moved, Field
<1> QED BY <1>1, <1>2

OnlyThread(t) == \A u \in Threads : u # t => thread'[u] = thread[u]

(* A step that changes the record of one thread. *)
LEMMA OneThread ==
  ASSUME Types, NEW t \in Threads, NEW r, IsThread(r), thread' = [thread EXCEPT ![t] = r],
         IsTriple(DS1307_Str')
  PROVE  Types' /\ thread'[t] = r /\ OnlyThread(t)
<1>1. DOMAIN thread = Threads
  BY DEF Types
<1>2. thread'[t] = r /\ \A u \in Threads : u # t => thread'[u] = thread[u]
  BY <1>1
<1>3. thread' = [u \in Threads |-> thread'[u]]
  BY <1>1
<1>4. \A u \in Threads : IsThread(thread'[u])
  BY <1>2 DEF Types
<1> QED BY <1>2, <1>3, <1>4 DEF Types, OnlyThread

(* The record of a busy thread after midnight. *)
LEMMA MidnightRecord ==
  ASSUME NEW r, IsThread(r), NEW n, NEW c
  PROVE  [r EXCEPT !.night = n, !.clean = c]
           = [step |-> r.step, pos |-> r.pos, regs |-> r.regs, date |-> r.date, got |-> r.got,
              asked |-> r.asked, night |-> n, clean |-> c]
<1> DEFINE q == [step |-> r.step, pos |-> r.pos, regs |-> r.regs, date |-> r.date, got |-> r.got,
                 asked |-> r.asked, night |-> n, clean |-> r.clean]
<1>1. [r EXCEPT !.night = n] = q
  BY DEF IsThread
<1>2. [q EXCEPT !.clean = c]
           = [step |-> r.step, pos |-> r.pos, regs |-> r.regs, date |-> r.date, got |-> r.got,
              asked |-> r.asked, night |-> n, clean |-> c]
  OBVIOUS
<1>3. [r EXCEPT !.night = n, !.clean = c] = [[r EXCEPT !.night = n] EXCEPT !.clean = c]
  OBVIOUS
<1> HIDE DEF q
<1> QED BY <1>1, <1>2, <1>3

(* The record of a thread that has read the chip. *)
LEMMA GetRecord ==
  ASSUME NEW r, IsThread(r), NEW x, NEW y
  PROVE  [r EXCEPT !.step = "fill", !.regs = x, !.asked = y]
           = [step |-> "fill", pos |-> r.pos, regs |-> x, date |-> r.date, got |-> r.got,
              asked |-> y, night |-> r.night, clean |-> r.clean]
<1> DEFINE p == [step |-> "fill", pos |-> r.pos, regs |-> r.regs, date |-> r.date, got |-> r.got,
                 asked |-> r.asked, night |-> r.night, clean |-> r.clean]
           q == [step |-> "fill", pos |-> r.pos, regs |-> x, date |-> r.date, got |-> r.got,
                 asked |-> r.asked, night |-> r.night, clean |-> r.clean]
<1>1. [r EXCEPT !.step = "fill"] = p
  BY DEF IsThread
<1>2. [p EXCEPT !.regs = x] = q
  OBVIOUS
<1>3. [q EXCEPT !.asked = y]
           = [step |-> "fill", pos |-> r.pos, regs |-> x, date |-> r.date, got |-> r.got,
              asked |-> y, night |-> r.night, clean |-> r.clean]
  OBVIOUS
<1>4. [r EXCEPT !.step = "fill", !.regs = x, !.asked = y]
        = [[[r EXCEPT !.step = "fill"] EXCEPT !.regs = x] EXCEPT !.asked = y]
  OBVIOUS
<1> HIDE DEF p, q
<1> QED BY <1>1, <1>2, <1>3, <1>4

(* What PutField does. *)
LEMMA PutEffect ==
  ASSUME Types, NEW t \in Threads, PutField(t)
  PROVE  /\ Types' /\ OnlyThread(t)
         /\ Moved(thread[t], thread'[t], "copy")
         /\ DS1307_Str'[thread[t].pos] = Put(thread[t].date)[thread[t].pos]
         /\ \A i \in Field : i # thread[t].pos => DS1307_Str'[i] = DS1307_Str[i]
<1>1. IsThread(thread[t]) /\ "copy" \in STEPS
  BY DEF Types, STEPS
<1>2. IsThread(Onward(thread[t], "copy")) /\ Moved(thread[t], Onward(thread[t], "copy"), "copy")
  BY <1>1, OnwardMoves
<1>3. thread' = [thread EXCEPT ![t] = Onward(thread[t], "copy")]
  BY DEF PutField, Types
<1>4. /\ IsTriple(DS1307_Str')
      /\ DS1307_Str'[thread[t].pos] = Put(thread[t].date)[thread[t].pos]
      /\ \A i \in Field : i # thread[t].pos => DS1307_Str'[i] = DS1307_Str[i]
  <2>1. DS1307_Str' = [DS1307_Str EXCEPT ![thread[t].pos] = Put(thread[t].date)[thread[t].pos]]
    BY DEF PutField
  <2>2. IsTriple(DS1307_Str) /\ thread[t].pos \in Field
    BY <1>1 DEF Types, IsThread
  <2>3. PICK p \in Field : p = thread[t].pos
    BY <2>2
  <2>v. PICK v : v = Put(thread[t].date)[p]
    OBVIOUS
  <2>4. DS1307_Str' = [DS1307_Str EXCEPT ![p] = v]
    BY <2>1, <2>3, <2>v
  <2>5. /\ IsTriple([DS1307_Str EXCEPT ![p] = v])
        /\ [DS1307_Str EXCEPT ![p] = v][p] = v
        /\ \A i \in Field : i # p => [DS1307_Str EXCEPT ![p] = v][i] = DS1307_Str[i]
    BY <2>2, TripleExcept
  <2> QED BY <2>3, <2>v, <2>4, <2>5
<1> QED BY <1>2, <1>3, <1>4, OneThread

(* What FillField does. *)
LEMMA FillEffect ==
  ASSUME Types, NEW t \in Threads, FillField(t)
  PROVE  /\ Types' /\ OnlyThread(t)
         /\ Moved(thread[t], thread'[t], "load")
         /\ DS1307_Str'[thread[t].pos] = Fields(thread[t].regs)[thread[t].pos]
         /\ \A i \in Field : i # thread[t].pos => DS1307_Str'[i] = DS1307_Str[i]
<1>1. IsThread(thread[t]) /\ "load" \in STEPS
  BY DEF Types, STEPS
<1>2. IsThread(Onward(thread[t], "load")) /\ Moved(thread[t], Onward(thread[t], "load"), "load")
  BY <1>1, OnwardMoves
<1>3. thread' = [thread EXCEPT ![t] = Onward(thread[t], "load")]
  BY DEF FillField, Types
<1>4. /\ IsTriple(DS1307_Str')
      /\ DS1307_Str'[thread[t].pos] = Fields(thread[t].regs)[thread[t].pos]
      /\ \A i \in Field : i # thread[t].pos => DS1307_Str'[i] = DS1307_Str[i]
  <2>1. DS1307_Str' = [DS1307_Str EXCEPT ![thread[t].pos] = Fields(thread[t].regs)[thread[t].pos]]
    BY DEF FillField
  <2>2. IsTriple(DS1307_Str) /\ thread[t].pos \in Field
    BY <1>1 DEF Types, IsThread
  <2>3. PICK p \in Field : p = thread[t].pos
    BY <2>2
  <2>v. PICK v : v = Fields(thread[t].regs)[p]
    OBVIOUS
  <2>4. DS1307_Str' = [DS1307_Str EXCEPT ![p] = v]
    BY <2>1, <2>3, <2>v
  <2>5. /\ IsTriple([DS1307_Str EXCEPT ![p] = v])
        /\ [DS1307_Str EXCEPT ![p] = v][p] = v
        /\ \A i \in Field : i # p => [DS1307_Str EXCEPT ![p] = v][i] = DS1307_Str[i]
    BY <2>2, TripleExcept
  <2> QED BY <2>3, <2>v, <2>4, <2>5
<1> QED BY <1>2, <1>3, <1>4, OneThread

(* A thread takes a field of DS1307_Str and goes on *)
Took(r, s, next) ==
    /\ IF r.pos < 3 THEN s.pos = r.pos + 1 /\ s.step = r.step ELSE s.pos = 1 /\ s.step = next
    /\ s.regs = r.regs /\ s.date = r.date /\ s.asked = r.asked
    /\ s.night = r.night /\ s.clean = r.clean
    /\ s.got[r.pos] = DS1307_Str[r.pos]
    /\ \A i \in Field : i # r.pos => s.got[i] = r.got[i]

AfterCopy(r) == IF r.step = "copy" THEN "set" ELSE "done"

(* What CopyField does. *)
LEMMA CopyEffect ==
  ASSUME Types, NEW t \in Threads, CopyField(t)
  PROVE  /\ Types' /\ OnlyThread(t)
         /\ thread[t].step \in {"copy", "load"}
         /\ Took(thread[t], thread'[t], AfterCopy(thread[t]))
         /\ UNCHANGED DS1307_Str
<1> DEFINE r == thread[t]
           got == [r.got EXCEPT ![r.pos] = DS1307_Str[r.pos]]
           s == [step |-> r.step, pos |-> r.pos, regs |-> r.regs, date |-> r.date, got |-> got,
                 asked |-> r.asked, night |-> r.night, clean |-> r.clean]
           next == AfterCopy(r)
<1>1. IsThread(r) /\ next \in STEPS
  BY DEF Types, STEPS, AfterCopy
<1>2. /\ IsTriple(got) /\ got[r.pos] = DS1307_Str[r.pos]
      /\ \A i \in Field : i # r.pos => got[i] = r.got[i]
  <2>1. IsTriple(r.got) /\ r.pos \in Field
    BY <1>1 DEF IsThread
  <2> QED BY <2>1, TripleExcept
<1>3. [r EXCEPT !.got[r.pos] = DS1307_Str[r.pos]] = s
  <2>1. [r EXCEPT !.got[r.pos] = DS1307_Str[r.pos]] = [r EXCEPT !.got = got]
    OBVIOUS
  <2>2. [r EXCEPT !.got = got] = s
    <3> HIDE DEF got
    <3> QED BY <1>1 DEF IsThread
  <2> QED BY <2>1, <2>2
<1>4. IsThread(s)
  <2> HIDE DEF got
  <2> QED BY <1>1, <1>2 DEF IsThread
<1>5. IsThread(Onward(s, next)) /\ Moved(s, Onward(s, next), next)
  BY <1>1, <1>4, OnwardMoves
<1>6. thread' = [thread EXCEPT ![t] = Onward(s, next)]
  BY <1>3 DEF CopyField, AfterCopy, At
<1>7. IsTriple(DS1307_Str') /\ UNCHANGED DS1307_Str /\ r.step \in {"copy", "load"}
  BY DEF CopyField, Types, At
<1>8. Types' /\ OnlyThread(t) /\ thread'[t] = Onward(s, next)
  BY <1>5, <1>6, <1>7, OneThread
<1>9. Took(r, Onward(s, next), next)
  <2> HIDE DEF got, next
  <2> QED BY <1>2, <1>5 DEF Moved, Took
<1> QED BY <1>7, <1>8, <1>9

SetTo(r, s) ==
    /\ s.step = "get" /\ s.pos = r.pos /\ s.regs = r.regs /\ s.date = r.date /\ s.asked = r.asked
    /\ s.got = r.got /\ s.night = r.night /\ s.clean = r.clean

(* What SetChip does to the threads. *)
LEMMA SetEffect ==
  ASSUME Types, NEW t \in Threads, SetChip(t)
  PROVE  Types' /\ OnlyThread(t) /\ SetTo(thread[t], thread'[t])
<1> DEFINE r == thread[t]
           s == [step |-> "get", pos |-> r.pos, regs |-> r.regs, date |-> r.date, got |-> r.got,
                 asked |-> r.asked, night |-> r.night, clean |-> r.clean]
<1>1. IsThread(r)
  BY DEF Types
<1>2. [r EXCEPT !.step = "get"] = s /\ IsThread(s)
  BY <1>1 DEF IsThread, STEPS
<1>3. thread' = [thread EXCEPT ![t] = s]
  BY <1>2 DEF SetChip
<1>4. IsTriple(DS1307_Str')
  BY DEF SetChip, Types
<1>5. Types' /\ OnlyThread(t) /\ thread'[t] = s
  BY <1>2, <1>3, <1>4, OneThread
<1> QED BY <1>5 DEF SetTo

GotChip(r, s) ==
    /\ s.step = "fill" /\ s.pos = r.pos /\ s.regs = chip /\ s.date = r.date /\ s.asked = today
    /\ s.got = r.got /\ s.night = r.night /\ s.clean = r.clean

(* What GetChip does to the threads. *)
LEMMA GetEffect ==
  ASSUME Types, NEW t \in Threads, GetChip(t)
  PROVE  Types' /\ OnlyThread(t) /\ GotChip(thread[t], thread'[t])
<1> DEFINE r == thread[t]
           s == [step |-> "fill", pos |-> r.pos, regs |-> chip, date |-> r.date, got |-> r.got,
                 asked |-> today, night |-> r.night, clean |-> r.clean]
<1>1. IsThread(r)
  BY DEF Types
<1>2. [r EXCEPT !.step = "fill", !.regs = chip, !.asked = today] = s /\ IsThread(s)
  <2>2. [r EXCEPT !.step = "fill", !.regs = chip, !.asked = today] = s
    BY <1>1, GetRecord
  <2>3. IsThread(s)
    BY <1>1 DEF IsThread, STEPS
  <2> QED BY <2>2, <2>3
<1>3. thread' = [thread EXCEPT ![t] = s]
  BY <1>2 DEF GetChip, Types
<1>4. IsTriple(DS1307_Str')
  BY DEF GetChip, Types
<1>5. Types' /\ OnlyThread(t) /\ thread'[t] = s
  BY <1>2, <1>3, <1>4, OneThread
<1> QED BY <1>5 DEF GotChip

(* What Leave does to the threads. *)
LEMMA LeaveEffect ==
  ASSUME Types, NEW t \in Threads, Leave(t)
  PROVE  Types' /\ OnlyThread(t) /\ thread'[t] = Idle
<1>1. IsTriple(DS1307_Str')
  BY DEF Leave, Types, IsTriple, Unknown
<1> QED BY <1>1, IdleIs, OneThread DEF Leave

(* What Restart does to the threads. *)
LEMMA RestartEffect ==
  ASSUME Types, Restart
  PROVE  Types' /\ \A t \in Threads : thread'[t] = Idle
BY IdleIs DEF Restart, Types, IsTriple, Unknown

Came(s, d, fit) ==
    /\ s.step = FirstStep(d) /\ s.pos = 1 /\ s.date = d /\ s.asked = Unknown /\ s.clean = fit
    /\ s.night = FALSE

Clash(t, d) == \E u \in Others(t) : d # Unknown \/ Writing(u) \/ Old(u)

(* What Enter does to the threads. *)
LEMMA EnterEffect ==
  ASSUME Types, NEW t \in Threads, NEW d, NEW proper \in BOOLEAN, Enter(t, d, proper),
         UNCHANGED DS1307_Str
  PROVE  /\ Types'
         /\ thread[t].step = "idle"
         /\ Came(thread'[t], d, proper /\ ~Clash(t, d))
         /\ \A u \in Threads : u # t =>
               /\ KeptBy(u) /\ thread'[u].night = thread[u].night
               /\ thread'[u].clean = (thread[u].clean /\ (Clash(t, d) => u \notin Others(t)))
<1> DEFINE clash == Clash(t, d)
<1>1. clash \in BOOLEAN
  BY DEF Clash
<1>2. thread[t].step = "idle"
      /\ thread' = [u \in Threads |->
                        IF u = t THEN [Idle EXCEPT !.step = FirstStep(d), !.date = d,
                                                   !.clean = proper /\ ~clash]
                        ELSE [thread[u] EXCEPT !.clean = @ /\ (clash => u \notin Others(t))]]
  BY DEF Enter, Clash
<1> HIDE DEF clash
<1> DEFINE n == [step |-> FirstStep(d), pos |-> 1, regs |-> Unknown, date |-> d, got |-> Unknown,
                 asked |-> Unknown, night |-> FALSE, clean |-> (proper /\ ~clash)]
<1>3. thread'[t] = n
  BY <1>2 DEF Idle
<1>4. IsThread(n) /\ Came(n, d, proper /\ ~clash)
  <2>1. FirstStep(d) \in STEPS
    BY DEF FirstStep, STEPS
  <2>2. (proper /\ ~clash) \in BOOLEAN
    OBVIOUS
  <2> DEFINE fit == proper /\ ~clash
  <2>3. fit \in BOOLEAN
    OBVIOUS
  <2> HIDE DEF fit
  <2> QED BY <2>1, <2>3 DEF IsThread, Came, Field, IsTriple, Unknown
<1>5. ASSUME NEW u \in Threads, u # t
      PROVE  /\ IsThread(thread'[u]) /\ KeptBy(u) /\ thread'[u].night = thread[u].night
             /\ thread'[u].clean = (thread[u].clean /\ (clash => u \notin Others(t)))
  <2> DEFINE r == thread[u]
             c == r.clean /\ (clash => u \notin Others(t))
             s == [step |-> r.step, pos |-> r.pos, regs |-> r.regs, date |-> r.date, got |-> r.got,
                   asked |-> r.asked, night |-> r.night, clean |-> c]
  <2>1. thread'[u] = [r EXCEPT !.clean = c]
    BY <1>2, <1>5
  <2>2. c \in BOOLEAN /\ IsThread(r)
    BY DEF Types, IsThread
  <2>3. [r EXCEPT !.clean = c] = s /\ IsThread(s)
    <3> HIDE DEF c
    <3> QED BY <2>2 DEF IsThread
  <2> QED BY <2>1, <2>3 DEF KeptBy
<1>6. Types'
  BY <1>2, <1>3, <1>4, <1>5 DEF Types
<1> QED BY <1>2, <1>3, <1>4, <1>5, <1>6 DEF clash

(* What Midnight does to the threads. *)
LEMMA MidnightEffect ==
  ASSUME Types, Midnight
  PROVE  /\ Types'
         /\ \A t \in Threads : ~thread[t].night
         /\ \A t \in Threads :
               /\ KeptBy(t)
               /\ thread[t].step # "idle" => thread'[t].night
               /\ thread'[t].clean /\ thread[t].step # "idle" => thread[t].clean /\ Others(t) = {}
<1>1. /\ \A t \in Threads : ~thread[t].night
      /\ thread' = [t \in Threads |->
                    IF thread[t].step = "idle" THEN thread[t]
                    ELSE [thread[t] EXCEPT !.night = TRUE, !.clean = @ /\ Others(t) = {}]]
      /\ DS1307_Str' = DS1307_Str
  BY DEF Midnight, At
<1>2. ASSUME NEW t \in Threads
      PROVE  /\ IsThread(thread'[t]) /\ KeptBy(t)
             /\ thread[t].step # "idle" => thread'[t].night
             /\ thread'[t].clean /\ thread[t].step # "idle" => thread[t].clean /\ Others(t) = {}
  <2>1. CASE thread[t].step = "idle"
    BY <1>1, <2>1 DEF KeptBy, Types
  <2>2. CASE thread[t].step # "idle"
    <3> DEFINE r == thread[t]
               c == r.clean /\ Others(t) = {}
               s == [step |-> r.step, pos |-> r.pos, regs |-> r.regs, date |-> r.date,
                     got |-> r.got, asked |-> r.asked, night |-> TRUE, clean |-> c]
    <3>1. thread'[t] = [r EXCEPT !.night = TRUE, !.clean = c]
      BY <1>1, <2>2
    <3>2. c \in BOOLEAN /\ IsThread(r)
      BY DEF Types, IsThread
    <3>3. [r EXCEPT !.night = TRUE, !.clean = c] = s /\ IsThread(s)
      <4> HIDE DEF c
      <4>2. [r EXCEPT !.night = TRUE, !.clean = c] = s
        BY <3>2, MidnightRecord
      <4>3. IsThread(s)
        BY <3>2 DEF IsThread
      <4> QED BY <4>2, <4>3
    <3> QED BY <2>2, <3>1, <3>3 DEF KeptBy
  <2> QED BY <2>1, <2>2
<1>3. Types'
  BY <1>1, <1>2 DEF Types
<1> QED BY <1>1, <1>2, <1>3

-----------------------------------------------------------------------------
(* The invariant *)

(* A held date is the date of one day; what a write of it puts there *)
LEMMA PutHeld ==
  ASSUME NEW d, Held(d)
  PROVE  \E e \in TheDays : d = AsShamsi(e) /\ Put(d) = Short(AsGregorian(e))
<1>1. PICK e \in TheDays : OfDay(d, e)
  BY HeldDay
<1>2. PICK Y \in GYears, m \in 1..12, j \in 1..31 : AsGregorian(e) = <<Y, m, j>>
  BY GTriple
<1>3. (Y - 2000) % 256 = Y - 2000
  BY SMT DEF GYears
<1>4. Put(d) = <<(AsGregorian(e)[1] - 2000) % 256, AsGregorian(e)[2], AsGregorian(e)[3]>>
  BY <1>1 DEF Put, OfDay
<1>5. Put(d) = Short(AsGregorian(e))
  BY <1>2, <1>3, <1>4 DEF Short
<1> QED BY <1>1, <1>5 DEF OfDay

(* No day has the date of the day before, and every day has one. *)
LEMMA DaysDiffer ==
  ASSUME NEW e \in TheDays, e + 1 \in TheDays
  PROVE  AsShamsi(e) # Unknown /\ AsShamsi(e + 1) # AsShamsi(e)
<1>1. Held(AsShamsi(e))
  BY DayHeld
<1>2. PICK s : s = AsShamsi(e)
  OBVIOUS
<1>3. /\ s = <<s[1], s[2], s[3]>> /\ s[1] \in Int /\ s[2] \in Int /\ s[3] \in Int
      /\ s[1] # 0
  <2>1. s \in (1378..1478) \X (1..12) \X (1..31)
    BY <1>1, <1>2 DEF Held
  <2> QED BY <2>1, SMT
<1>4. s # Unknown
  BY <1>3 DEF Unknown
<1>5. NextShamsi(s) = AsShamsi(e + 1)
  <2>1. PICK n \in Int : n = 146018 + e /\ n + 1 = 146018 + (e + 1)
    BY SMT DEF TheDays
  <2> QED BY <1>2, <2>1, SStep, SMT DEF AsShamsi
<1>6. NextShamsi(s) # s
  <2>1. CASE s[3] < ShamsiMonth(s[1], s[2])
    <3>1. NextShamsi(s) = [s EXCEPT ![3] = s[3] + 1]
      BY <1>4, <2>1 DEF NextShamsi
    <3>2. [<<s[1], s[2], s[3]>> EXCEPT ![3] = s[3] + 1][3] = s[3] + 1
      OBVIOUS
    <3>3. NextShamsi(s)[3] = s[3] + 1
      BY <1>3, <3>1, <3>2
    <3> QED BY <1>3, <3>3
  <2>2. CASE ~(s[3] < ShamsiMonth(s[1], s[2])) /\ s[2] < 12
    <3>1. NextShamsi(s) = <<s[1], s[2] + 1, 1>>
      BY <1>4, <2>2 DEF NextShamsi
    <3> QED BY <1>3, <3>1
  <2>3. CASE ~(s[3] < ShamsiMonth(s[1], s[2])) /\ ~(s[2] < 12)
    <3>1. NextShamsi(s) = <<s[1] + 1, 1, 1>>
      BY <1>4, <2>3 DEF NextShamsi
    <3> QED BY <1>3, <3>1
  <2> QED BY <2>1, <2>2, <2>3
<1> QED BY <1>2, <1>4, <1>5, <1>6

(* What a thread is about; what it is to find in DS1307_Str, and whether  *)
(* anything is known of that                                               *)
HasRead(t) == thread[t].step \in {"fill", "load", "done"}
Putting(t) == thread[t].step \in {"put", "copy", "set"}
Goal(t)    == IF Putting(t) THEN Put(thread[t].date) ELSE Fields(thread[t].regs)
Known(t)   == thread[t].clean /\ (Putting(t) \/ (HasRead(t) /\ thread[t].asked # Unknown))
Current(t) == thread[t].asked \in {Unknown, today}

(* The fields of its record, by the step it is at *)
PhaseOf(t) ==
    /\ ~HasRead(t) => thread[t].asked = Unknown
    /\ thread[t].step \in {"get", "set", "done"} => thread[t].pos = 1
    /\ Putting(t) => Writing(t)

(* It has read the date of day e.  Unless the date has been lost since,    *)
(* this is today, or yesterday if midnight came meanwhile                  *)
OnDay(t, e) ==
    /\ thread[t].asked = AsShamsi(e) /\ thread[t].regs = AsRegisters(e)
    /\ \/ today = Unknown
       \/ today = AsShamsi(e) /\ chip = AsRegisters(e)
       \/ /\ thread[t].night /\ e + 1 \in TheDays
          /\ today = AsShamsi(e + 1) /\ chip = AsRegisters(e + 1)

ReadOf(t) ==
    HasRead(t) =>
        IF thread[t].asked = Unknown THEN today = Unknown ELSE \E e \in TheDays : OnDay(t, e)

(* A clean thread that writes is alone; one that reads is with readers     *)
(* that have read nothing yet or read the same date                        *)
ApartOf(t) ==
    thread[t].clean /\ thread[t].step # "idle" =>
        /\ Writing(t) => Others(t) = {} /\ Held(thread[t].date)
        /\ \A u \in Others(t) : ~Writing(u) /\ Current(t) /\ Current(u)

(* What is known of DS1307_Str, field by field, is what it wants there, so *)
(* that it copies no date of which half is another's                       *)
StrOf(t) ==
    Known(t) =>
        /\ thread[t].step \in {"put", "fill"} =>
              \A i \in Field : i < thread[t].pos => DS1307_Str[i] = Goal(t)[i]
        /\ thread[t].step \in {"copy", "load"} =>
              \A i \in Field : /\ DS1307_Str[i] = Goal(t)[i]
                               /\ i < thread[t].pos => thread[t].got[i] = Goal(t)[i]
        /\ thread[t].step \in {"set", "done"} =>
              \A i \in Field : thread[t].got[i] = Goal(t)[i]

(* The DS1307 and the clients are on the same day *)
ChipOnDay == today # Unknown => \E e \in TheDays : today = AsShamsi(e) /\ chip = AsRegisters(e)

Phases == \A t \in Threads : PhaseOf(t)
Reads  == \A t \in Threads : ReadOf(t)
Apart  == \A t \in Threads : ApartOf(t)
Strs   == \A t \in Threads : StrOf(t)

ClockInv ==
    /\ Types /\ Phases /\ ChipOnDay /\ Reads /\ Apart /\ Strs /\ SystemAgrees

(* A thread that another step leaves alone keeps its phase. *)
LEMMA PhaseKept ==
  ASSUME NEW u, PhaseOf(u), KeptBy(u)
  PROVE  PhaseOf(u)'
BY DEF PhaseOf, KeptBy, HasRead, Putting, Writing

(* It keeps what it has read, while the chip and the date stay. *)
LEMMA ReadKept ==
  ASSUME NEW u, ReadOf(u), KeptBy(u), thread'[u].night = thread[u].night, UNCHANGED <<chip, today>>
  PROVE  ReadOf(u)'
<1>1. \A e : OnDay(u, e) => OnDay(u, e)'
  BY DEF OnDay, KeptBy
<1> QED BY <1>1 DEF ReadOf, KeptBy, HasRead

(* It keeps what it knows of DS1307_Str, while that stays. *)
LEMMA StrKept ==
  ASSUME NEW u, StrOf(u), KeptBy(u), thread'[u].clean => thread[u].clean, UNCHANGED DS1307_Str
  PROVE  StrOf(u)'
<1>1. Goal(u)' = Goal(u) /\ (Known(u)' => Known(u))
  BY DEF Goal, Known, Putting, HasRead, KeptBy
<1> QED BY <1>1 DEF StrOf, KeptBy

(* No clash comes from threads that only go on or leave. *)
LEMMA ApartKept ==
  ASSUME Apart, UNCHANGED today,
         \A v \in Threads : thread'[v].step # "idle" =>
            /\ thread[v].step # "idle"
            /\ thread'[v].date = thread[v].date
            /\ thread'[v].clean => thread[v].clean
            /\ thread'[v].asked \in {thread[v].asked, today}
  PROVE  Apart'
<1> SUFFICES ASSUME NEW t \in Threads, thread'[t].clean, thread'[t].step # "idle"
             PROVE  /\ Writing(t)' => Others(t)' = {} /\ Held(thread[t].date)'
                    /\ \A u \in Others(t)' : ~Writing(u)' /\ Current(t)' /\ Current(u)'
  BY DEF Apart, ApartOf
<1>1. ApartOf(t) /\ thread[t].clean /\ thread[t].step # "idle" /\ thread'[t].date = thread[t].date
  BY DEF Apart
<1>2. Others(t)' \subseteq Others(t)
  BY DEF Others
<1>3. Writing(t)' => Others(t)' = {} /\ Held(thread[t].date)'
  BY <1>1, <1>2 DEF ApartOf, Writing
<1>4. ASSUME NEW u \in Others(t)'
      PROVE  ~Writing(u)' /\ Current(t)' /\ Current(u)'
  <2>1. u \in Others(t) /\ u \in Threads /\ thread'[u].step # "idle"
    BY <1>2 DEF Others
  <2>2. ~Writing(u) /\ Current(t) /\ Current(u)
    BY <1>1, <2>1 DEF ApartOf
  <2> QED BY <2>1, <2>2 DEF Writing, Current
<1> QED BY <1>3, <1>4

(* Whoever knows what it reads is alone if it writes *)
LEMMA ApartAlone ==
  ASSUME Apart, NEW t \in Threads, OnlyThread(t), Writing(t), thread[t].step # "idle",
         thread'[t].step # "idle" =>
            thread'[t].date = thread[t].date /\ thread'[t].clean = thread[t].clean
  PROVE  Apart'
<1> SUFFICES ASSUME NEW v \in Threads, thread'[v].clean, thread'[v].step # "idle"
             PROVE  Others(v)' = {} /\ Held(thread[v].date)'
  BY DEF Apart, ApartOf
<1>1. v = t
  <2> SUFFICES ASSUME v # t PROVE FALSE
    OBVIOUS
  <2>1. thread[v].clean /\ thread[v].step # "idle" /\ t \in Others(v)
    BY DEF OnlyThread, Others
  <2> QED BY <2>1 DEF Apart, ApartOf
<1>2. Others(t) = {} /\ Held(thread[t].date)
  BY <1>1 DEF Apart, ApartOf
<1>3. Others(t)' = {}
  BY <1>2 DEF Others, OnlyThread
<1> QED BY <1>1, <1>2, <1>3

(* A clean writer has nobody beside it, a clean reader no writer *)
LEMMA NoWriterBeside ==
  ASSUME Apart, NEW t \in Threads, NEW u \in Threads, u # t, thread[t].step # "idle", Writing(t),
         thread[u].step # "idle"
  PROVE  ~thread[u].clean /\ ~thread[t].clean
<1>1. t \in Others(u) /\ u \in Others(t)
  BY DEF Others
<1> QED BY <1>1 DEF Apart, ApartOf

(* Who has read the date of today has the registers of the chip. *)
LEMMA ReadsChip ==
  ASSUME NEW t, HasRead(t), ReadOf(t), thread[t].asked = today, today # Unknown
  PROVE  thread[t].regs = chip
<1>1. PICK e \in TheDays : OnDay(t, e)
  BY DEF ReadOf
<1> QED BY <1>1, DaysDiffer DEF OnDay

-----------------------------------------------------------------------------
(* The steps keep the invariant *)

Ahead(u) == thread[u].step \in {"get", "fill", "load", "done"}

(* The system clock agrees as before if no writer on its way to it gives up. *)
LEMMA AgreesKept ==
  ASSUME SystemAgrees, UNCHANGED <<chip, system, today>>,
         \A u \in Threads : Writing(u) /\ Ahead(u) => thread'[u].date = thread[u].date /\ Ahead(u)'
  PROVE  SystemAgrees'
BY DEF SystemAgrees, Writing, Ahead

(* A step of one thread leaves the others alone. *)
LEMMA OthersKept ==
  ASSUME NEW t \in Threads, OnlyThread(t), NEW u \in Threads, u # t
  PROVE  KeptBy(u) /\ thread'[u].night = thread[u].night /\ thread'[u].clean = thread[u].clean
BY DEF OnlyThread, KeptBy

(* A field of DS1307_Str changes to what u needs there *)
LEMMA StrFits ==
  ASSUME NEW u, StrOf(u), KeptBy(u), thread'[u].clean => thread[u].clean,
         Known(u) => \A i \in Field : DS1307_Str'[i] \in {DS1307_Str[i], Goal(u)[i]}
  PROVE  StrOf(u)'
<1>1. Goal(u)' = Goal(u) /\ (Known(u)' => Known(u))
  BY DEF Goal, Known, Putting, HasRead, KeptBy
<1> QED BY <1>1 DEF StrOf, KeptBy

(* PutField keeps the invariant: a clean writer puts its date while nobody *)
(* else is there.                                                          *)
LEMMA PutKeeps ==
  ASSUME ClockInv, NEW t \in Threads, PutField(t)
  PROVE  ClockInv'
<1>0. /\ Types /\ Phases /\ ChipOnDay /\ Reads /\ Apart /\ Strs /\ SystemAgrees
      /\ thread[t].step = "put" /\ UNCHANGED <<chip, system, today>>
  BY DEF ClockInv, PutField, At
<1>1. /\ Types' /\ OnlyThread(t)
      /\ Moved(thread[t], thread'[t], "copy")
      /\ DS1307_Str'[thread[t].pos] = Put(thread[t].date)[thread[t].pos]
      /\ \A i \in Field : i # thread[t].pos => DS1307_Str'[i] = DS1307_Str[i]
  BY <1>0, PutEffect
<1>2. Writing(t) /\ thread[t].asked = Unknown
  BY <1>0 DEF Phases, PhaseOf, Putting, HasRead
<1>3. /\ thread'[t].step \in {"put", "copy"} /\ thread'[t].date = thread[t].date
      /\ thread'[t].asked = Unknown /\ thread'[t].clean = thread[t].clean
  BY <1>0, <1>1, <1>2 DEF Moved
<1>4. Phases'
  <2>1. PhaseOf(t)'
    BY <1>2, <1>3 DEF PhaseOf, HasRead, Putting, Writing
  <2> QED BY <1>0, <1>1, <2>1, OthersKept, PhaseKept DEF Phases
<1>5. Reads'
  <2>1. ReadOf(t)'
    BY <1>3 DEF ReadOf, HasRead
  <2> QED BY <1>0, <1>1, <2>1, OthersKept, ReadKept DEF Reads
<1>6. Apart'
  BY <1>0, <1>1, <1>2, <1>3, ApartKept DEF OnlyThread
<1>7. ASSUME NEW u \in Threads, u # t
      PROVE  StrOf(u)'
  <2>1. StrOf(u) /\ KeptBy(u) /\ thread'[u].clean = thread[u].clean
    BY <1>0, <1>1, <1>7, OthersKept DEF Strs
  <2>2. ~Known(u)
    BY <1>0, <1>2, <1>7, NoWriterBeside DEF Known, Putting, HasRead
  <2> QED BY <2>1, <2>2, StrFits
<1>8. StrOf(t)'
  <2> SUFFICES ASSUME Known(t)' PROVE StrOf(t)'
    BY DEF StrOf
  <2>1. Known(t) /\ Goal(t) = Put(thread[t].date) /\ Goal(t)' = Put(thread[t].date)
    BY <1>0, <1>3 DEF Known, Putting, Goal
  <2>2. \A i \in Field : i < thread[t].pos => DS1307_Str[i] = Goal(t)[i]
    BY <1>0, <2>1 DEF Strs, StrOf
  <2>4. thread[t].pos \in Field
    BY <1>0 DEF Types, IsThread
  <2>3. \A i \in Field : i <= thread[t].pos => DS1307_Str'[i] = Goal(t)'[i]
    <3>1. \A i \in Field : i = thread[t].pos \/ i < thread[t].pos \/ ~(i <= thread[t].pos)
      BY <2>4 DEF Field
    <3> QED BY <1>1, <2>1, <2>2, <3>1
  <2>5. CASE thread[t].pos < 3
    <3>1. thread'[t].pos = thread[t].pos + 1 /\ thread'[t].step = "put"
      BY <1>0, <1>1, <2>5 DEF Moved
    <3>2. \A i \in Field : i < thread'[t].pos => DS1307_Str'[i] = Goal(t)'[i]
      BY <2>3, <2>4, <3>1 DEF Field
    <3> QED BY <3>1, <3>2 DEF StrOf
  <2>6. CASE ~(thread[t].pos < 3)
    <3>1. thread'[t].pos = 1 /\ thread'[t].step = "copy"
      BY <1>0, <1>1, <2>6 DEF Moved
    <3>2. \A i \in Field : DS1307_Str'[i] = Goal(t)'[i] /\ ~(i < 1)
      BY <2>3, <2>4, <2>6 DEF Field
    <3> QED BY <3>1, <3>2 DEF StrOf
  <2> QED BY <2>5, <2>6
<1>9. SystemAgrees'
  BY <1>0, <1>1, AgreesKept DEF OnlyThread, Ahead
<1>10. ChipOnDay'
  BY <1>0 DEF ChipOnDay
<1> QED BY <1>1, <1>4, <1>5, <1>6, <1>7, <1>8, <1>9, <1>10 DEF ClockInv, Strs

(* FillField keeps the invariant: who else fills DS1307_Str writes the     *)
(* same there.                                                             *)
LEMMA FillKeeps ==
  ASSUME ClockInv, NEW t \in Threads, FillField(t)
  PROVE  ClockInv'
<1>0. /\ Types /\ Phases /\ ChipOnDay /\ Reads /\ Apart /\ Strs /\ SystemAgrees
      /\ thread[t].step = "fill" /\ UNCHANGED <<chip, system, today>>
  BY DEF ClockInv, FillField, At
<1>1. /\ Types' /\ OnlyThread(t)
      /\ Moved(thread[t], thread'[t], "load")
      /\ DS1307_Str'[thread[t].pos] = Fields(thread[t].regs)[thread[t].pos]
      /\ \A i \in Field : i # thread[t].pos => DS1307_Str'[i] = DS1307_Str[i]
  BY <1>0, FillEffect
<1>3. /\ thread'[t].step \in {"fill", "load"} /\ thread'[t].date = thread[t].date
      /\ thread'[t].asked = thread[t].asked /\ thread'[t].clean = thread[t].clean
      /\ thread'[t].regs = thread[t].regs /\ thread'[t].night = thread[t].night
  BY <1>0, <1>1 DEF Moved
<1>4. Phases'
  <2>1. PhaseOf(t)'
    BY <1>3 DEF PhaseOf, HasRead, Putting, Writing
  <2> QED BY <1>0, <1>1, <2>1, OthersKept, PhaseKept DEF Phases
<1>5. Reads'
  <2>1. ReadOf(t)'
    <3>1. \A e : OnDay(t, e) => OnDay(t, e)'
      BY <1>0, <1>3 DEF OnDay
    <3> QED BY <1>0, <1>3, <3>1 DEF Reads, ReadOf, HasRead
  <2> QED BY <1>0, <1>1, <2>1, OthersKept, ReadKept DEF Reads
<1>6. Apart'
  BY <1>0, <1>1, <1>3, ApartKept DEF OnlyThread
<1>7. ASSUME NEW u \in Threads, u # t
      PROVE  StrOf(u)'
  <2>1. StrOf(u) /\ KeptBy(u) /\ thread'[u].clean = thread[u].clean
    BY <1>0, <1>1, <1>7, OthersKept DEF Strs
  <2>2. ASSUME Known(u)
        PROVE  \A i \in Field : DS1307_Str'[i] \in {DS1307_Str[i], Goal(u)[i]}
    <3>1. t \in Others(u) /\ thread[u].clean /\ thread[u].step # "idle"
      BY <1>0, <1>7, <2>2 DEF Others, Known, Putting, HasRead
    <3>2. ~Putting(u) /\ Current(u) /\ Current(t)
      BY <1>0, <3>1 DEF Apart, ApartOf, Phases, PhaseOf
    <3>3. HasRead(u) /\ thread[u].asked # Unknown /\ thread[u].asked = today
      BY <2>2, <3>2 DEF Known, Current
    <3>4. HasRead(t) /\ thread[t].asked = today
      BY <1>0, <3>2, <3>3 DEF HasRead, Current, Reads, ReadOf
    <3>5. thread[t].regs = chip /\ thread[u].regs = chip
      BY <1>0, <3>3, <3>4, ReadsChip DEF Reads
    <3>6. Goal(u) = Fields(thread[t].regs)
      BY <3>2, <3>5 DEF Goal
    <3> QED BY <1>1, <3>6
  <2> QED BY <2>1, <2>2, StrFits
<1>8. StrOf(t)'
  <2> SUFFICES ASSUME Known(t)' PROVE StrOf(t)'
    BY DEF StrOf
  <2>1. Known(t) /\ Goal(t) = Fields(thread[t].regs) /\ Goal(t)' = Fields(thread[t].regs)
    BY <1>0, <1>3 DEF Known, Putting, Goal, HasRead
  <2>2. \A i \in Field : i < thread[t].pos => DS1307_Str[i] = Goal(t)[i]
    BY <1>0, <2>1 DEF Strs, StrOf
  <2>4. thread[t].pos \in Field
    BY <1>0 DEF Types, IsThread
  <2>3. \A i \in Field : i <= thread[t].pos => DS1307_Str'[i] = Goal(t)'[i]
    <3>1. \A i \in Field : i = thread[t].pos \/ i < thread[t].pos \/ ~(i <= thread[t].pos)
      BY <2>4 DEF Field
    <3> QED BY <1>1, <2>1, <2>2, <3>1
  <2>5. CASE thread[t].pos < 3
    <3>1. thread'[t].pos = thread[t].pos + 1 /\ thread'[t].step = "fill"
      BY <1>0, <1>1, <2>5 DEF Moved
    <3>2. \A i \in Field : i < thread'[t].pos => DS1307_Str'[i] = Goal(t)'[i]
      BY <2>3, <2>4, <3>1 DEF Field
    <3> QED BY <3>1, <3>2 DEF StrOf
  <2>6. CASE ~(thread[t].pos < 3)
    <3>1. thread'[t].pos = 1 /\ thread'[t].step = "load"
      BY <1>0, <1>1, <2>6 DEF Moved
    <3>2. \A i \in Field : DS1307_Str'[i] = Goal(t)'[i] /\ ~(i < 1)
      BY <2>3, <2>4, <2>6 DEF Field
    <3> QED BY <3>1, <3>2 DEF StrOf
  <2> QED BY <2>5, <2>6
<1>9. SystemAgrees'
  BY <1>0, <1>1, <1>3, AgreesKept DEF OnlyThread, Ahead
<1>10. ChipOnDay'
  BY <1>0 DEF ChipOnDay
<1> QED BY <1>1, <1>4, <1>5, <1>6, <1>7, <1>8, <1>9, <1>10 DEF ClockInv, Strs

(* CopyField keeps the invariant. *)
LEMMA CopyKeeps ==
  ASSUME ClockInv, NEW t \in Threads, CopyField(t)
  PROVE  ClockInv'
<1>0. /\ Types /\ Phases /\ ChipOnDay /\ Reads /\ Apart /\ Strs /\ SystemAgrees
      /\ UNCHANGED <<chip, system, today>>
  BY DEF ClockInv, CopyField
<1>1. /\ Types' /\ OnlyThread(t)
      /\ thread[t].step \in {"copy", "load"}
      /\ Took(thread[t], thread'[t], AfterCopy(thread[t]))
      /\ UNCHANGED DS1307_Str
  BY <1>0, CopyEffect
<1>3. /\ thread[t].step = "copy" => thread'[t].step \in {"copy", "set"}
      /\ thread[t].step = "load" => thread'[t].step \in {"load", "done"}
      /\ thread'[t].step \in {"set", "done"} => thread'[t].pos = 1
      /\ thread'[t].date = thread[t].date
      /\ thread'[t].asked = thread[t].asked /\ thread'[t].clean = thread[t].clean
      /\ thread'[t].regs = thread[t].regs /\ thread'[t].night = thread[t].night
  BY <1>1 DEF Took, AfterCopy
<1>2. (HasRead(t)' <=> HasRead(t)) /\ (Putting(t)' <=> Putting(t)) /\ thread'[t].step # "get"
  BY <1>1, <1>3 DEF HasRead, Putting
<1>4. Phases'
  <2>1. PhaseOf(t)'
    BY <1>0, <1>2, <1>3 DEF Phases, PhaseOf, Writing
  <2> QED BY <1>0, <1>1, <2>1, OthersKept, PhaseKept DEF Phases
<1>5. Reads'
  <2>1. ReadOf(t)'
    <3>1. \A e : OnDay(t, e) => OnDay(t, e)'
      BY <1>0, <1>3 DEF OnDay
    <3> QED BY <1>0, <1>2, <1>3, <3>1 DEF Reads, ReadOf
  <2> QED BY <1>0, <1>1, <2>1, OthersKept, ReadKept DEF Reads
<1>6. Apart'
  BY <1>0, <1>1, <1>3, ApartKept DEF OnlyThread
<1>7. ASSUME NEW u \in Threads, u # t
      PROVE  StrOf(u)'
  BY <1>0, <1>1, <1>7, OthersKept, StrKept DEF Strs
<1>8. StrOf(t)'
  <2> SUFFICES ASSUME Known(t)' PROVE StrOf(t)'
    BY DEF StrOf
  <2>1. Known(t) /\ Goal(t)' = Goal(t)
    BY <1>2, <1>3 DEF Known, Goal
  <2>4. thread[t].pos \in Field
    BY <1>0 DEF Types, IsThread
  <2>2. \A i \in Field : /\ DS1307_Str'[i] = Goal(t)'[i]
                         /\ i <= thread[t].pos => thread'[t].got[i] = Goal(t)'[i]
    <3>1. \A i \in Field : /\ DS1307_Str[i] = Goal(t)[i]
                           /\ i < thread[t].pos => thread[t].got[i] = Goal(t)[i]
      BY <1>0, <1>1, <2>1 DEF Strs, StrOf
    <3>2. /\ thread'[t].got[thread[t].pos] = DS1307_Str[thread[t].pos]
          /\ \A i \in Field : i # thread[t].pos => thread'[t].got[i] = thread[t].got[i]
      BY <1>1 DEF Took
    <3>3. \A i \in Field : i = thread[t].pos \/ i < thread[t].pos \/ ~(i <= thread[t].pos)
      BY <2>4 DEF Field
    <3> QED BY <1>1, <2>1, <3>1, <3>2, <3>3
  <2>5. CASE thread[t].pos < 3
    <3>1. thread'[t].pos = thread[t].pos + 1 /\ thread'[t].step \in {"copy", "load"}
      BY <1>1, <2>5 DEF Took
    <3>2. \A i \in Field : /\ DS1307_Str'[i] = Goal(t)'[i]
                           /\ i < thread'[t].pos => thread'[t].got[i] = Goal(t)'[i]
      BY <2>2, <2>4, <3>1 DEF Field
    <3> QED BY <3>1, <3>2 DEF StrOf
  <2>6. CASE ~(thread[t].pos < 3)
    <3>1. thread'[t].step \in {"set", "done"}
      BY <1>1, <2>6 DEF Took, AfterCopy
    <3>2. \A i \in Field : thread'[t].got[i] = Goal(t)'[i]
      BY <2>2, <2>4, <2>6 DEF Field
    <3> QED BY <3>1, <3>2 DEF StrOf
  <2> QED BY <2>5, <2>6
<1>9. SystemAgrees'
  <2>1. Ahead(t) => Ahead(t)'
    BY <1>1, <1>3 DEF Ahead
  <2> QED BY <1>0, <1>1, <1>3, <2>1, AgreesKept DEF OnlyThread, Ahead
<1>10. ChipOnDay'
  BY <1>0 DEF ChipOnDay
<1> QED BY <1>1, <1>4, <1>5, <1>6, <1>7, <1>8, <1>9, <1>10 DEF ClockInv, Strs

(* Nothing is said of who reads when the date is not known *)
LEMMA ReadLost ==
  ASSUME NEW u, ReadOf(u), KeptBy(u), today' = Unknown
  PROVE  ReadOf(u)'
<1>1. \A e : OnDay(u, e) => OnDay(u, e)'
  BY DEF OnDay, KeptBy
<1> QED BY <1>1 DEF ReadOf, KeptBy, HasRead

(* SetChip keeps the invariant: what a clean writer has put is its date. *)
LEMMA SetKeeps ==
  ASSUME ClockInv, NEW t \in Threads, SetChip(t)
  PROVE  ClockInv'
<1>0. /\ Types /\ Phases /\ ChipOnDay /\ Reads /\ Apart /\ Strs /\ SystemAgrees
      /\ thread[t].step = "set" /\ UNCHANGED <<DS1307_Str, system>>
      /\ chip' = Registers(thread[t].got)
      /\ today' = IF thread[t].clean THEN thread[t].date ELSE Unknown
  BY DEF ClockInv, SetChip, At
<1>1. Types' /\ OnlyThread(t) /\ SetTo(thread[t], thread'[t])
  BY SetEffect DEF ClockInv
<1>2. Writing(t) /\ thread[t].asked = Unknown /\ thread[t].pos = 1 /\ Putting(t)
  BY <1>0 DEF Phases, PhaseOf, Putting, HasRead
<1>3. /\ thread'[t].step = "get" /\ thread'[t].date = thread[t].date /\ thread'[t].pos = 1
      /\ thread'[t].asked = Unknown /\ thread'[t].clean = thread[t].clean
  BY <1>1, <1>2 DEF SetTo
<1>4. Phases'
  <2>1. PhaseOf(t)'
    BY <1>3 DEF PhaseOf, HasRead, Putting
  <2> QED BY <1>0, <1>1, <2>1, OthersKept, PhaseKept DEF Phases
<1>5. Reads'
  <2>1. ReadOf(t)'
    BY <1>3 DEF ReadOf, HasRead
  <2>2. ASSUME NEW u \in Threads, u # t
        PROVE  ReadOf(u)'
    <3>1. ReadOf(u) /\ KeptBy(u)
      BY <1>0, <1>1, <2>2, OthersKept DEF Reads
    <3>2. CASE thread[t].clean
      <4>1. thread[u].step = "idle"
        BY <1>0, <1>2, <2>2, <3>2, NoWriterBeside
      <4> QED BY <3>1, <4>1 DEF ReadOf, HasRead, KeptBy
    <3>3. CASE ~thread[t].clean
      BY <1>0, <3>1, <3>3, ReadLost
    <3> QED BY <3>2, <3>3
  <2> QED BY <2>1, <2>2 DEF Reads
<1>6. Apart'
  BY <1>0, <1>1, <1>2, <1>3, ApartAlone
<1>7. Strs'
  <2>1. StrOf(t)'
    BY <1>3 DEF StrOf
  <2>2. \A u \in Threads : u # t => StrOf(u)'
    BY <1>0, <1>1, OthersKept, StrKept DEF Strs
  <2> QED BY <2>1, <2>2 DEF Strs
<1>8. SystemAgrees'
  BY <1>2, <1>3 DEF SystemAgrees, Writing
<1>9. ChipOnDay'
  <2> SUFFICES ASSUME thread[t].clean
               PROVE  \E e \in TheDays : today' = AsShamsi(e) /\ chip' = AsRegisters(e)
    BY <1>0 DEF ChipOnDay
  <2>1. Held(thread[t].date)
    BY <1>0, <1>2 DEF Apart, ApartOf
  <2>2. PICK e \in TheDays : /\ thread[t].date = AsShamsi(e)
                             /\ Put(thread[t].date) = Short(AsGregorian(e))
    BY <2>1, PutHeld
  <2>3. \A i \in Field : thread[t].got[i] = Short(AsGregorian(e))[i]
    BY <1>0, <1>2, <2>2 DEF Strs, StrOf, Known, Goal
  <2>4. IsTriple(thread[t].got) /\ IsTriple(Short(AsGregorian(e)))
    BY <1>0 DEF Types, IsThread, IsTriple, Short
  <2>5. thread[t].got = Short(AsGregorian(e))
    BY <2>3, <2>4, TripleEqual
  <2> QED BY <1>0, <2>2, <2>5 DEF AsRegisters
<1> QED BY <1>1, <1>4, <1>5, <1>6, <1>7, <1>8, <1>9 DEF ClockInv

(* GetChip keeps the invariant. *)
LEMMA GetKeeps ==
  ASSUME ClockInv, NEW t \in Threads, GetChip(t)
  PROVE  ClockInv'
<1>0. /\ Types /\ Phases /\ ChipOnDay /\ Reads /\ Apart /\ Strs /\ SystemAgrees
      /\ thread[t].step = "get" /\ UNCHANGED <<DS1307_Str, system, chip, today>>
  BY DEF ClockInv, GetChip, At
<1>1. Types' /\ OnlyThread(t) /\ GotChip(thread[t], thread'[t])
  BY <1>0, GetEffect
<1>3. /\ thread'[t].step = "fill" /\ thread'[t].date = thread[t].date /\ thread'[t].pos = 1
      /\ thread'[t].asked = today /\ thread'[t].clean = thread[t].clean /\ thread'[t].regs = chip
  BY <1>0, <1>1 DEF GotChip, Phases, PhaseOf
<1>4. Phases'
  <2>1. PhaseOf(t)'
    BY <1>3 DEF PhaseOf, HasRead, Putting
  <2> QED BY <1>0, <1>1, <2>1, OthersKept, PhaseKept DEF Phases
<1>5. Reads'
  <2>1. ReadOf(t)'
    BY <1>0, <1>3 DEF ReadOf, ChipOnDay, OnDay
  <2> QED BY <1>0, <1>1, <2>1, OthersKept, ReadKept DEF Reads
<1>6. Apart'
  BY <1>0, <1>1, <1>3, ApartKept DEF OnlyThread
<1>7. Strs'
  <2>1. \A i \in Field : ~(i < 1)
    BY DEF Field
  <2>2. StrOf(t)'
    BY <1>3, <2>1 DEF StrOf
  <2>3. \A u \in Threads : u # t => StrOf(u)'
    BY <1>0, <1>1, OthersKept, StrKept DEF Strs
  <2> QED BY <2>2, <2>3 DEF Strs
<1>8. SystemAgrees'
  BY <1>0, <1>1, <1>3, AgreesKept DEF OnlyThread, Ahead
<1>9. ChipOnDay'
  BY <1>0 DEF ChipOnDay
<1> QED BY <1>1, <1>4, <1>5, <1>6, <1>7, <1>8, <1>9 DEF ClockInv

(* A thread that leaves takes nothing from the others. *)
LEMMA LeaveKeeps ==
  ASSUME Types, Phases, Strs, NEW t \in Threads, Leave(t)
  PROVE  Types' /\ Phases' /\ Strs' /\ OnlyThread(t) /\ thread'[t].step = "idle"
<1>1. Types' /\ OnlyThread(t) /\ thread'[t] = Idle
  BY LeaveEffect
<1>2. thread'[t].step = "idle" /\ thread'[t].asked = Unknown /\ thread'[t].pos = 1
  BY <1>1, IdleIs
<1>3. Phases'
  <2>1. PhaseOf(t)'
    BY <1>2 DEF PhaseOf, HasRead, Putting
  <2> QED BY <1>1, <2>1, OthersKept, PhaseKept DEF Phases
<1>4. Strs'
  <2>1. StrOf(t)'
    BY <1>2 DEF StrOf
  <2>2. ASSUME NEW u \in Threads, u # t
        PROVE  StrOf(u)'
    <3>1. StrOf(u) /\ KeptBy(u) /\ thread'[u].clean = thread[u].clean
      BY <1>1, <2>2, OthersKept DEF Strs
    <3>2. CASE Known(u)
      <4>1. u \in Others(t)
        BY <2>2, <3>2 DEF Others, Known, Putting, HasRead
      <4>2. UNCHANGED DS1307_Str
        BY <4>1 DEF Leave
      <4> QED BY <3>1, <4>2, StrKept
    <3>3. CASE ~Known(u)
      BY <3>1, <3>3, StrFits
    <3> QED BY <3>2, <3>3
  <2> QED BY <2>1, <2>2 DEF Strs
<1> QED BY <1>1, <1>2, <1>3, <1>4

(* Answer keeps the invariant. *)
LEMMA AnswerKeeps ==
  ASSUME ClockInv, NEW t \in Threads, Answer(t)
  PROVE  ClockInv'
<1>0. /\ Types /\ Phases /\ ChipOnDay /\ Reads /\ Apart /\ Strs /\ SystemAgrees
      /\ ~Writing(t) /\ Leave(t) /\ UNCHANGED <<system, chip, today>>
  BY DEF ClockInv, Answer
<1>1. Types' /\ Phases' /\ Strs' /\ OnlyThread(t) /\ thread'[t].step = "idle"
  BY <1>0, LeaveKeeps
<1>5. Reads'
  <2>1. ReadOf(t)'
    BY <1>1 DEF ReadOf, HasRead
  <2> QED BY <1>0, <1>1, <2>1, OthersKept, ReadKept DEF Reads
<1>6. Apart'
  BY <1>0, <1>1, ApartKept DEF OnlyThread
<1>8. SystemAgrees'
  BY <1>0, <1>1, AgreesKept DEF OnlyThread, Ahead
<1>9. ChipOnDay'
  BY <1>0 DEF ChipOnDay
<1> QED BY <1>1, <1>5, <1>6, <1>8, <1>9 DEF ClockInv

(* The system clock gets the date of the chip, though midnight came between *)
LEMMA SystemSet ==
  ASSUME ClockInv, NEW t \in Threads, SetSystem(t), today' # Unknown
  PROVE  system' = SystemDate(Fields(chip))
<1>0. /\ Types /\ Phases /\ Reads /\ Strs
      /\ thread[t].step = "done" /\ thread[t].clean /\ today # Unknown
      /\ system' = IF Old(t) THEN NextGregorian(SystemDate(thread[t].got))
                             ELSE SystemDate(thread[t].got)
  BY DEF ClockInv, SetSystem, At
<1>1. HasRead(t) /\ ~Putting(t) /\ thread[t].asked # Unknown
  BY <1>0 DEF HasRead, Putting, Reads, ReadOf
<1>2. PICK e \in TheDays : OnDay(t, e)
  BY <1>0, <1>1 DEF Reads, ReadOf
<1>3. thread[t].got = Short(AsGregorian(e))
  <2>1. Goal(t) = Short(AsGregorian(e))
    BY <1>1, <1>2, OnTheDay DEF Goal, OnDay
  <2>2. \A i \in Field : thread[t].got[i] = Short(AsGregorian(e))[i]
    BY <1>0, <1>1, <2>1 DEF Strs, StrOf, Known
  <2>3. IsTriple(thread[t].got) /\ IsTriple(Short(AsGregorian(e)))
    BY <1>0 DEF Types, IsThread, IsTriple, Short
  <2> QED BY <2>2, <2>3, TripleEqual
<1>4. SystemDate(thread[t].got) = AsGregorian(e)
  BY <1>3, OnTheDay
<1>5. CASE today = AsShamsi(e) /\ chip = AsRegisters(e)
  <2>1. ~Old(t)
    BY <1>2, <1>5 DEF Old, OnDay
  <2>2. SystemDate(Fields(chip)) = AsGregorian(e)
    BY <1>5, OnTheDay
  <2> QED BY <1>0, <1>4, <2>1, <2>2
<1>6. CASE e + 1 \in TheDays /\ today = AsShamsi(e + 1) /\ chip = AsRegisters(e + 1)
  <2>1. Old(t)
    BY <1>1, <1>2, <1>6, DaysDiffer DEF Old, OnDay
  <2>2. SystemDate(Fields(chip)) = AsGregorian(e + 1)
    BY <1>6, OnTheDay
  <2>3. NextGregorian(AsGregorian(e)) = AsGregorian(e + 1)
    <3>1. e # LastDay
      BY <1>6, SMT DEF TheDays
    <3> QED BY <3>1, GStep
  <2> QED BY <1>0, <1>4, <2>1, <2>2, <2>3
<1> QED BY <1>0, <1>2, <1>5, <1>6 DEF OnDay

(* SetSystem keeps the invariant. *)
LEMMA SystemKeeps ==
  ASSUME ClockInv, NEW t \in Threads, SetSystem(t)
  PROVE  ClockInv'
<1>0. /\ Types /\ Phases /\ ChipOnDay /\ Reads /\ Apart /\ Strs /\ SystemAgrees
      /\ thread[t].step = "done" /\ Writing(t) /\ Leave(t) /\ UNCHANGED chip
      /\ today' \in {today, Unknown}
  BY DEF ClockInv, SetSystem, At
<1>1. Types' /\ Phases' /\ Strs' /\ OnlyThread(t) /\ thread'[t].step = "idle"
  BY <1>0, LeaveKeeps
<1>5. Reads'
  <2>1. ReadOf(t)'
    BY <1>1 DEF ReadOf, HasRead
  <2> QED BY <1>0, <1>1, <2>1, OthersKept, ReadKept, ReadLost DEF Reads
<1>6. Apart'
  BY <1>0, <1>1, ApartAlone
<1>8. SystemAgrees'
  BY <1>0, SystemSet DEF SystemAgrees
<1>9. ChipOnDay'
  BY <1>0 DEF ChipOnDay
<1> QED BY <1>1, <1>5, <1>6, <1>8, <1>9 DEF ClockInv

(* Who comes clashes with the others, or is known to read what they read. *)
LEMMA EnterKeeps ==
  ASSUME ClockInv, NEW t \in Threads, NEW d, NEW proper \in BOOLEAN, Enter(t, d, proper),
         proper /\ d # Unknown => Held(d), UNCHANGED <<chip, DS1307_Str, system, today>>
  PROVE  ClockInv'
<1>0. Types /\ Phases /\ ChipOnDay /\ Reads /\ Apart /\ Strs /\ SystemAgrees
  BY DEF ClockInv
<1>1. /\ Types'
      /\ thread[t].step = "idle"
      /\ Came(thread'[t], d, proper /\ ~Clash(t, d))
      /\ \A u \in Threads : u # t =>
            /\ KeptBy(u) /\ thread'[u].night = thread[u].night
            /\ thread'[u].clean = (thread[u].clean /\ (Clash(t, d) => u \notin Others(t)))
  BY <1>0, EnterEffect
<1>2. /\ thread'[t].step = IF d = Unknown THEN "get" ELSE "put"
      /\ thread'[t].date = d /\ thread'[t].pos = 1 /\ thread'[t].asked = Unknown
      /\ thread'[t].clean => proper /\ ~Clash(t, d)
  BY <1>1 DEF Came, FirstStep
<1>3. \A u \in Threads : u # t => (thread'[u].clean => thread[u].clean)
  BY <1>1
<1>4. Phases'
  <2>1. PhaseOf(t)'
    BY <1>2 DEF PhaseOf, HasRead, Putting, Writing
  <2> QED BY <1>0, <1>1, <2>1, PhaseKept DEF Phases
<1>5. Reads'
  <2>1. ReadOf(t)'
    BY <1>2 DEF ReadOf, HasRead
  <2> QED BY <1>0, <1>1, <2>1, ReadKept DEF Reads
<1>6. Strs'
  <2>1. \A i \in Field : ~(i < 1)
    BY DEF Field
  <2>2. StrOf(t)'
    BY <1>2, <2>1 DEF StrOf
  <2>3. \A u \in Threads : u # t => StrOf(u)'
    BY <1>0, <1>1, <1>3, StrKept DEF Strs
  <2> QED BY <2>2, <2>3 DEF Strs
<1>7. Apart'
  <2> SUFFICES ASSUME NEW v \in Threads, thread'[v].clean, thread'[v].step # "idle"
               PROVE  /\ Writing(v)' => Others(v)' = {} /\ Held(thread[v].date)'
                      /\ \A u \in Others(v)' : ~Writing(u)' /\ Current(v)' /\ Current(u)'
    BY DEF Apart, ApartOf
  <2>1. \A u \in Threads : u # t => (Writing(u)' <=> Writing(u)) /\ (Current(u)' <=> Current(u))
    BY <1>1 DEF KeptBy, Writing, Current
  <2>2. Current(t)' /\ (Writing(t)' <=> d # Unknown)
    BY <1>2 DEF Current, Writing
  <2>3. CASE v = t
    <3>1. Others(t)' = Others(t)
      BY <1>1 DEF Others, KeptBy
    <3>2. proper /\ \A u \in Others(t) : d = Unknown /\ ~Writing(u) /\ ~Old(u)
      BY <1>2, <2>3 DEF Clash
    <3>3. \A u \in Others(t) : ~Writing(u)' /\ Current(u)'
      BY <2>1, <3>2 DEF Others, Old, Current
    <3>4. Writing(t)' => Others(t) = {} /\ Held(thread[t].date)'
      BY <1>2, <2>2, <3>2
    <3> QED BY <2>2, <2>3, <3>1, <3>3, <3>4
  <2>4. CASE v # t
    <3>1. /\ thread[v].clean /\ thread[v].step # "idle" /\ v \in Others(t) /\ ~Clash(t, d)
      BY <1>1, <2>4 DEF Others, KeptBy
    <3>2. d = Unknown /\ ~Writing(v) /\ ~Old(v)
      BY <3>1 DEF Clash
    <3>3. Current(v)' /\ ~Writing(v)' /\ ~Writing(t)'
      BY <2>1, <2>2, <2>4, <3>2 DEF Old, Current
    <3>4. ASSUME NEW u \in Others(v)', u # t
          PROVE  ~Writing(u)' /\ Current(u)'
      <4>1. u \in Others(v) /\ u \in Threads
        BY <1>1, <3>4 DEF Others, KeptBy
      <4>2. ~Writing(u) /\ Current(u)
        BY <1>0, <3>1, <4>1 DEF Apart, ApartOf
      <4> QED BY <2>1, <3>4, <4>1, <4>2
    <3> QED BY <2>2, <3>3, <3>4
  <2> QED BY <2>3, <2>4
<1>8. SystemAgrees'
  BY <1>0, <1>1, AgreesKept DEF KeptBy, Ahead
<1>9. ChipOnDay'
  BY <1>0 DEF ChipOnDay
<1> QED BY <1>1, <1>4, <1>5, <1>6, <1>7, <1>8, <1>9 DEF ClockInv

(* Read keeps the invariant. *)
LEMMA ReadKeeps ==
  ASSUME ClockInv, NEW t \in Threads, Read(t)
  PROVE  ClockInv'
BY EnterKeeps DEF Read

(* Write keeps the invariant. *)
LEMMA WriteKeeps ==
  ASSUME ClockInv, NEW t \in Threads, Write(t)
  PROVE  ClockInv'
<1>1. UNCHANGED <<chip, DS1307_Str, system, today>>
  BY DEF Write
<1>2. CASE \E d \in WriteDates : Enter(t, d, Held(d))
  <2>1. PICK d \in WriteDates : Enter(t, d, Held(d))
    BY <1>2
  <2>2. Held(d) \in BOOLEAN
    BY DEF Held
  <2> QED BY <1>1, <2>1, <2>2, EnterKeeps
<1>3. CASE \E d \in WriteDates \cup {Blank} : Enter(t, d, FALSE)
  BY <1>1, <1>3, EnterKeeps
<1> QED BY <1>2, <1>3 DEF Write

(* At midnight the chip, the system clock and the clients go on together *)
DayGone(e) ==
    /\ e + 1 \in TheDays /\ today' = AsShamsi(e + 1) /\ chip' = AsRegisters(e + 1)
    /\ system = SystemDate(Fields(chip)) => system' = SystemDate(Fields(chip'))

(* Midnight does that on every day but the last of the hundred years. *)
LEMMA AfterMidnight ==
  ASSUME Midnight, NEW e \in TheDays, today = AsShamsi(e), chip = AsRegisters(e)
  PROVE  DayGone(e)
<1>1. /\ Counted(chip)[1] <= LastYear
      /\ chip' = Registers([NextGregorian(SystemDate(Counted(chip))) EXCEPT ![1] = @ % 100])
      /\ today' = NextShamsi(today) /\ system' = NextGregorian(system)
  BY DEF Midnight
<1>2. /\ Counted(chip) = Short(AsGregorian(e)) /\ Fields(chip) = Short(AsGregorian(e))
      /\ SystemDate(Short(AsGregorian(e))) = AsGregorian(e)
  BY OnTheDay
<1>3. Short(AsGregorian(e))[1] <= LastYear
  BY <1>1, <1>2
<1>4. /\ e + 1 \in TheDays
      /\ NextGregorian(AsGregorian(e)) = AsGregorian(e + 1)
      /\ NextShamsi(AsShamsi(e)) = AsShamsi(e + 1)
      /\ Registers([AsGregorian(e + 1) EXCEPT ![1] = @ % 100]) = AsRegisters(e + 1)
  BY <1>3, TheNextDay
<1>5. chip' = AsRegisters(e + 1) /\ today' = AsShamsi(e + 1)
  BY <1>1, <1>2, <1>4
<1>6. SystemDate(Fields(chip'))  = AsGregorian(e + 1)
  BY <1>4, <1>5, OnTheDay
<1>7. system = SystemDate(Fields(chip)) => system' = AsGregorian(e + 1)
  BY <1>1, <1>2, <1>4
<1> QED BY <1>4, <1>5, <1>6, <1>7 DEF DayGone

(* Midnight keeps the invariant. *)
LEMMA MidnightKeeps ==
  ASSUME ClockInv, Midnight
  PROVE  ClockInv'
<1>0. /\ Types /\ Phases /\ ChipOnDay /\ Reads /\ Apart /\ Strs /\ SystemAgrees
      /\ today # Unknown /\ UNCHANGED DS1307_Str
  BY DEF ClockInv, Midnight
<1>1. /\ Types'
      /\ \A t \in Threads : ~thread[t].night
      /\ \A t \in Threads :
            /\ KeptBy(t)
            /\ thread[t].step # "idle" => thread'[t].night
            /\ thread'[t].clean /\ thread[t].step # "idle" => thread[t].clean /\ Others(t) = {}
  BY <1>0, MidnightEffect
<1>2. ChipOnDay'
  BY <1>0, AfterMidnight DEF ChipOnDay, DayGone
<1>3. Phases'
  BY <1>0, <1>1, PhaseKept DEF Phases
<1>4. ASSUME NEW u \in Threads
      PROVE  ReadOf(u)'
  <2> SUFFICES ASSUME HasRead(u)
               PROVE  thread'[u].asked # Unknown /\ \E e \in TheDays : OnDay(u, e)'
    BY <1>1 DEF ReadOf, HasRead, KeptBy
  <2>1. thread[u].asked # Unknown
    BY <1>0 DEF Reads, ReadOf
  <2>2. PICK e \in TheDays : OnDay(u, e)
    BY <1>0, <2>1 DEF Reads, ReadOf
  <2>3. today = AsShamsi(e) /\ chip = AsRegisters(e)
    BY <1>0, <1>1, <2>2 DEF OnDay
  <2>4. e + 1 \in TheDays /\ today' = AsShamsi(e + 1) /\ chip' = AsRegisters(e + 1)
    BY <2>3, AfterMidnight DEF DayGone
  <2>5. thread'[u].night /\ KeptBy(u)
    BY <1>1 DEF HasRead
  <2> QED BY <2>1, <2>2, <2>4, <2>5 DEF OnDay, KeptBy
<1>5. Apart'
  <2> SUFFICES ASSUME NEW v \in Threads, thread'[v].clean, thread'[v].step # "idle"
               PROVE  Others(v)' = {} /\ (Writing(v)' => Held(thread[v].date)')
    BY DEF Apart, ApartOf
  <2>1. /\ thread[v].step # "idle" /\ thread[v].clean /\ Others(v) = {}
        /\ thread'[v].date = thread[v].date
    BY <1>1 DEF KeptBy
  <2>2. Others(v)' = {}
    BY <1>1, <2>1 DEF Others, KeptBy
  <2> QED BY <1>0, <2>1, <2>2 DEF Apart, ApartOf, Writing
<1>6. ASSUME NEW u \in Threads
      PROVE  StrOf(u)'
  <2>1. CASE thread[u].step = "idle"
    BY <1>1, <2>1 DEF StrOf, KeptBy
  <2>2. CASE thread[u].step # "idle"
    BY <1>0, <1>1, <2>2, StrKept DEF Strs
  <2> QED BY <2>1, <2>2
<1>7. SystemAgrees'
  <2>1. CASE system = SystemDate(Fields(chip))
    BY <1>0, <2>1, AfterMidnight DEF ChipOnDay, SystemAgrees, DayGone
  <2>2. CASE \E t \in Threads : Writing(t) /\ thread[t].step \in {"get", "fill", "load", "done"}
    BY <1>1, <2>2 DEF SystemAgrees, Writing, KeptBy
  <2> QED BY <1>0, <2>1, <2>2 DEF SystemAgrees
<1> QED BY <1>1, <1>2, <1>3, <1>4, <1>5, <1>6, <1>7 DEF ClockInv, Reads, Strs

(* Restart keeps the invariant: main sets the system clock again. *)
LEMMA RestartKeeps ==
  ASSUME ClockInv, Restart
  PROVE  ClockInv'
<1>0. /\ Types /\ ChipOnDay /\ UNCHANGED <<chip, today>>
      /\ system' = SystemDate(Fields(chip))
  BY DEF ClockInv, Restart, BootSystem
<1>1. Types' /\ \A t \in Threads : thread'[t] = Idle
  BY <1>0, RestartEffect
<1>2. \A t \in Threads : /\ thread'[t].step = "idle" /\ thread'[t].pos = 1
                         /\ thread'[t].asked = Unknown
  BY <1>1, IdleIs
<1>3. Phases' /\ Reads' /\ Apart' /\ Strs'
  <2>1. Phases'
    BY <1>2 DEF Phases, PhaseOf, HasRead, Putting
  <2>2. Reads'
    BY <1>2 DEF Reads, ReadOf, HasRead
  <2>3. Apart'
    BY <1>2 DEF Apart, ApartOf
  <2>4. Strs'
    BY <1>2 DEF Strs, StrOf
  <2> QED BY <2>1, <2>2, <2>3, <2>4
<1>4. SystemAgrees' /\ ChipOnDay'
  BY <1>0 DEF SystemAgrees, ChipOnDay
<1> QED BY <1>1, <1>3, <1>4 DEF ClockInv

(* The invariant holds on the first day. *)
LEMMA FirstDayHolds ==
  ASSUME Init
  PROVE  ClockInv
<1>1. /\ thread = [t \in Threads |-> Idle] /\ DS1307_Str = Unknown /\ system = FirstDay
      /\ chip = Registers([FirstDay EXCEPT ![1] = @ - 2000])
  BY DEF Init
<1>2. \A t \in Threads : /\ thread[t].step = "idle" /\ thread[t].pos = 1
                         /\ thread[t].asked = Unknown /\ IsThread(thread[t])
  BY <1>1, IdleIs
<1>3. Types
  BY <1>1, <1>2 DEF Types, IsTriple, Unknown
<1>4. Phases /\ Reads /\ Apart /\ Strs
  <2>1. Phases
    BY <1>2 DEF Phases, PhaseOf, HasRead, Putting
  <2>2. Reads
    BY <1>2 DEF Reads, ReadOf, HasRead
  <2>3. Apart
    BY <1>2 DEF Apart, ApartOf
  <2>4. Strs
    BY <1>2 DEF Strs, StrOf
  <2> QED BY <2>1, <2>2, <2>3, <2>4
<1>5. PICK e \in TheDays : today = AsShamsi(e) /\ AsGregorian(e) = FirstDay
  BY First DEF Init
<1>6. chip = AsRegisters(e)
  <2> DEFINE stored == [FirstDay EXCEPT ![1] = @ - 2000]
  <2>0. chip = Registers(stored)
    BY <1>1
  <2>1. stored = Short(FirstDay)
    BY SMT DEF FirstDay, Short
  <2> HIDE DEF stored
  <2>2. chip = Registers(Short(FirstDay))
    BY <2>0, <2>1
  <2>3. AsRegisters(e) = Registers(Short(FirstDay))
    BY <1>5 DEF AsRegisters
  <2> QED BY <2>2, <2>3
<1>7. SystemDate(Fields(chip)) = FirstDay
  BY <1>5, <1>6, OnTheDay
<1> QED BY <1>1, <1>3, <1>4, <1>5, <1>6, <1>7 DEF ClockInv, ChipOnDay, SystemAgrees

(* The inductive invariant: DS1307, clients and system clock are on the    *)
(* same day of the hundred years, whatever the threads do, at midnight and *)
(* after a restart.                                                        *)
THEOREM ClockKept == Spec => []ClockInv
<1>1. Init => ClockInv
  BY FirstDayHolds
<1>2. ClockInv /\ [Next]_vars => ClockInv'
  <2> SUFFICES ASSUME ClockInv, [Next]_vars PROVE ClockInv'
    OBVIOUS
  <2>1. CASE Midnight
    BY <2>1, MidnightKeeps
  <2>2. CASE Restart
    BY <2>2, RestartKeeps
  <2>3. ASSUME NEW t \in Threads, Read(t) PROVE ClockInv'
    BY <2>3, ReadKeeps
  <2>4. ASSUME NEW t \in Threads, Write(t) PROVE ClockInv'
    BY <2>4, WriteKeeps
  <2>5. ASSUME NEW t \in Threads, PutField(t) PROVE ClockInv'
    BY <2>5, PutKeeps
  <2>6. ASSUME NEW t \in Threads, CopyField(t) PROVE ClockInv'
    BY <2>6, CopyKeeps
  <2>7. ASSUME NEW t \in Threads, SetChip(t) PROVE ClockInv'
    BY <2>7, SetKeeps
  <2>8. ASSUME NEW t \in Threads, GetChip(t) PROVE ClockInv'
    BY <2>8, GetKeeps
  <2>9. ASSUME NEW t \in Threads, FillField(t) PROVE ClockInv'
    BY <2>9, FillKeeps
  <2>10. ASSUME NEW t \in Threads, Answer(t) PROVE ClockInv'
    BY <2>10, AnswerKeeps
  <2>11. ASSUME NEW t \in Threads, SetSystem(t) PROVE ClockInv'
    BY <2>11, SystemKeeps
  <2>12. CASE UNCHANGED vars
    BY <2>12 DEF vars, ClockInv, Types, Phases, PhaseOf, ChipOnDay, Reads, ReadOf, OnDay, Apart,
                 ApartOf, Strs, StrOf, SystemAgrees, HasRead, Putting, Goal, Known, Current,
                 Writing, Others
  <2> QED BY <2>1, <2>2, <2>3, <2>4, <2>5, <2>6, <2>7, <2>8, <2>9, <2>10, <2>11, <2>12 DEF Next
<1> QED BY <1>1, <1>2, PTL DEF Spec

(* Whatever was written and however many midnights have passed, the date   *)
(* that time_now makes of the registers of the DS1307 (M2Sh, the masks of  *)
(* DS1307_Get_Time) is the date last written, counted on by the calendar   *)
(* of the clients.                                                         *)
THEOREM DayIsRight == Spec => []RightDay
<1>1. ClockInv => RightDay
  <2> SUFFICES ASSUME ClockInv, today # Unknown PROVE Shown(Fields(chip)) = today
    BY DEF RightDay
  <2>1. PICK e \in TheDays : today = AsShamsi(e) /\ chip = AsRegisters(e)
    BY DEF ClockInv, ChipOnDay
  <2> QED BY <2>1, OnTheDay
<1> QED BY <1>1, ClockKept, PTL

(* svr_postWrite and time_now are inverse on every date the DS1307 can     *)
(* hold: what SH2M, the cast of the year and BCD make of it, the masks and *)
(* M2Sh make the same date of.                                             *)
THEOREM WriteReadsBack == Spec => []ReadsBack
<1>1. ClockInv => ReadsBack
  <2> SUFFICES ASSUME ClockInv, today # Unknown
               PROVE  Shown(Fields(Registers(Put(today)))) = today
    BY DEF ReadsBack
  <2>1. PICK e \in TheDays : today = AsShamsi(e)
    BY DEF ClockInv, ChipOnDay
  <2>2. PICK w \in TheDays : today = AsShamsi(w) /\ Put(today) = Short(AsGregorian(w))
    BY <2>1, DayHeld, PutHeld
  <2> QED BY <2>2, OnTheDay DEF AsRegisters
<1> QED BY <1>1, ClockKept, PTL

(* main and svr_postWrite leave the system clock (settimeofday) at the     *)
(* date of the DS1307, also when a midnight comes between the two, or the  *)
(* power fails.                                                            *)
THEOREM SystemFollows == Spec => []SystemAgrees
BY ClockKept, PTL DEF ClockInv

(* A client is answered with the date of the moment at which its thread    *)
(* read the chip, though all threads pass it through one DS1307_Str field  *)
(* by field, if no writer clashed with it.                                 *)
THEOREM AnswersToday == Spec => []AnswerIsToday
<1>1. ClockInv => AnswerIsToday
  <2> SUFFICES ASSUME ClockInv, NEW t \in Threads, thread[t].step = "done", thread[t].clean,
                      thread[t].asked # Unknown
               PROVE  Shown(thread[t].got) = thread[t].asked
    BY DEF AnswerIsToday, At
  <2>1. Types /\ Reads /\ Strs /\ HasRead(t) /\ ~Putting(t)
    BY DEF ClockInv, HasRead, Putting
  <2>2. PICK e \in TheDays : OnDay(t, e)
    BY <2>1 DEF Reads, ReadOf
  <2>3. Goal(t) = Short(AsGregorian(e)) /\ thread[t].asked = AsShamsi(e)
    BY <2>1, <2>2, OnTheDay DEF Goal, OnDay
  <2>4. \A i \in Field : thread[t].got[i] = Short(AsGregorian(e))[i]
    BY <2>1, <2>3 DEF Strs, StrOf, Known
  <2>5. IsTriple(thread[t].got) /\ IsTriple(Short(AsGregorian(e)))
    BY <2>1 DEF Types, IsThread, IsTriple, Short
  <2>6. thread[t].got = Short(AsGregorian(e))
    BY <2>4, <2>5, TripleEqual
  <2> QED BY <2>3, <2>6, OnTheDay
<1> QED BY <1>1, ClockKept, PTL
=============================================================================
