------------------------------ MODULE Calendar ------------------------------
(***************************************************************************)
(* Calendar to epoch conversion of port/time_real_uc386dos.c, used by the  *)
(* certificate checks: days_from_civil, mktime and epoch_now, in the       *)
(* 32-bit arithmetic of the target.                                        *)
(*                                                                         *)
(* The state is a date that advances day by day through the years DOS can  *)
(* represent, with a count of the days gone by: the reference.             *)
(***************************************************************************)
EXTENDS Integers

CONSTANTS FirstYear, LastYear    \* years walked through

ASSUME YearsAssumption ==
    FirstYear \in 1970..2099 /\ LastYear \in FirstYear..2099

VARIABLES
    year, month, day,    \* the date of the DOS clock
    count                \* days since 1970-01-01

vars == <<year, month, day, count>>

-----------------------------------------------------------------------------
(* The Gregorian calendar (external) *)

IsLeap(y) == y % 4 = 0 /\ (y % 100 # 0 \/ y % 400 = 0)
MonthDays(y, m) == CASE m = 2 -> IF IsLeap(y) THEN 29 ELSE 28
                     [] m \in {4, 6, 9, 11} -> 30
                     [] OTHER -> 31
YearDays(y) == IF IsLeap(y) THEN 366 ELSE 365

(* Days from 1970-01-01 to the first day of year y. *)
DaysBefore[y \in 1970..LastYear] ==
    IF y = 1970 THEN 0 ELSE DaysBefore[y - 1] + YearDays(y - 1)

Init ==
    /\ year = FirstYear /\ month = 1 /\ day = 1
    /\ count = DaysBefore[FirstYear]

NextDay ==
    /\ count' = count + 1
    /\ \/ /\ day < MonthDays(year, month)
          /\ day' = day + 1
          /\ UNCHANGED <<year, month>>
       \/ /\ day = MonthDays(year, month) /\ month < 12
          /\ day' = 1 /\ month' = month + 1
          /\ UNCHANGED year
       \/ /\ day = MonthDays(year, month) /\ month = 12 /\ year < LastYear
          /\ day' = 1 /\ month' = 1 /\ year' = year + 1

Spec == Init /\ [][NextDay]_vars

-----------------------------------------------------------------------------
(* Fault form: the year of January and February not taken back by one. *)
days_from_civilSameYear(y0, m, d) ==
    LET era == y0 \div 400
        yoe == y0 - era * 400
        m_adj == IF m > 2 THEN m - 3 ELSE m + 9
        doy == (153 * m_adj + 2) \div 5 + d - 1
        doe == yoe * 365 + yoe \div 4 - yoe \div 100 + doy
    IN  era * 146097 + doe - 719468

(* Days from 1970-01-01; years start in March so that the leap day is last. *)
days_from_civil(y0, m, d) ==
    LET y == IF m <= 2 THEN y0 - 1 ELSE y0
        era == y \div 400
        yoe == y - era * 400
        m_adj == IF m > 2 THEN m - 3 ELSE m + 9
        doy == (153 * m_adj + 2) \div 5 + d - 1
        doe == yoe * 365 + yoe \div 4 - yoe \div 100 + doy
    IN  era * 146097 + doe - 719468

(* A 32-bit word is a pair of halves: 86400 = 65536 + 20864. *)
Word(days, secs) ==
    LET low == days * 20864 + secs
    IN  <<(days + low \div 65536) % 65536, low % 65536>>
Signed(w) == IF w[1] < 32768 THEN w[1] ELSE w[1] - 65536
Before(v, w) == Signed(v) < Signed(w) \/ (v[1] = w[1] /\ v[2] < w[2])

(* Fault form: tm_mon passed on as it is, 0 to 11. *)
mktimeMonthFromZero(y, mon, d, hour, min, sec) ==
    Word(days_from_civil(y, mon, d), hour * 3600 + min * 60 + sec)

mktime(y, mon, d, hour, min, sec) ==
    Word(days_from_civil(y, mon + 1, d), hour * 3600 + min * 60 + sec)

(* gettimeofday: raw is what dos_get_datetime filled in. *)
epoch_now(raw) ==
    Word(days_from_civil(raw.year, raw.month, raw.day),
         raw.hour * 3600 + raw.min * 60 + raw.sec)

-----------------------------------------------------------------------------
(* Properties *)

(* days_from_civil counts days: every day of 1980-2099, leap days and the
   ends of months included, has the number of days since 1970-01-01. *)
DaysExact == days_from_civil(year, month, day) = count

(* The last second whose number fits 31 bits is in day 24855, 2038-01-19. *)
LastGoodDay == 24854

(* mktime and gettimeofday agree on every instant and order instants: the last
   second of a day comes just before the first of the next, as long as the
   number fits 31 bits. *)
EpochOrdered ==
    [][count' <= LastGoodDay =>
        LET late == mktime(year, month - 1, day, 23, 59, 59)
            early == mktime(year', month' - 1, day', 0, 0, 0)
        IN  /\ Before(late, early)
            /\ early = epoch_now([year |-> year', month |-> month', day |-> day',
                                  hour |-> 0, min |-> 0, sec |-> 0])]_vars
=============================================================================
