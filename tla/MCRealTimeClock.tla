---------------------------- MODULE MCRealTimeClock ----------------------------
(* Two threads, and the hundred years of the DS1307 from the first day of  *)
(* 1379.  They come on the last day of 2025, when midnight changes every   *)
(* field, and write that day, the last one of a leap year of the clients'  *)
(* calendar and the last but one of the hundred years.                     *)
EXTENDS RealTimeClock

MCThreads == {"tcp", "iec"}
MCBusy    == {<<1404, 10, 10>>}
MCDates   == {<<1404, 10, 10>>, <<1403, 12, 30>>, <<1478, 10, 10>>}
=============================================================================
