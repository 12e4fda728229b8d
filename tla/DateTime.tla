------------------------------ MODULE DateTime ------------------------------
(***************************************************************************)
(* Dates and times, datetime.c: the days since 1900, the day of the week,  *)
(* comparison, and the addition of minutes with which the end of a load    *)
(* shed is computed.                                                       *)
(***************************************************************************)
EXTENDS Integers, FiniteSetsExt

CONSTANTS
    StartDates,        \* the dates and times the clock is started at
    Minutes,           \* numbers of minutes to add, negative ones as well
    MaxAdds

VARIABLES
    bdatetime,         \* [year, month, day, wday, hour, min]
    elapsed,           \* history: minutes added since the start
    began,             \* history: the date and time it started at
    adds

dtVars == <<bdatetime, elapsed, began, adds>>

BACNET_EPOCH_YEAR == 1900
MaxYear == BACNET_EPOCH_YEAR + 255
DTYears == BACNET_EPOCH_YEAR .. MaxYear

-----------------------------------------------------------------------------
(* The calendar.                                                           *)

datetime_is_leap_year(year) == year % 4 = 0 /\ (year % 100 # 0 \/ year % 400 = 0)

month_days == <<31, 28, 31, 30, 31, 30, 31, 31, 30, 31, 30, 31>>

datetime_month_days(year, month) ==
    CASE month = 2 /\ datetime_is_leap_year(year) -> 29
      [] month \in 1 .. 12 /\ ~(month = 2 /\ datetime_is_leap_year(year)) -> month_days[month]
      [] OTHER -> 0

datetime_ymd_is_valid(year, month, day) ==
    /\ year >= BACNET_EPOCH_YEAR
    /\ day \in 1 .. datetime_month_days(year, month)

\* What the loop over the months before this one adds up.
days_before_month(year, month) == MapThenSumSet(LAMBDA m : datetime_month_days(year, m), 1 .. month - 1)

day_of_year(year, month, day) ==
    IF datetime_ymd_is_valid(year, month, day) THEN days_before_month(year, month) + day ELSE 0

\* What the loop over the years before this one adds up.
days_before_year(year) ==
    365 * (year - BACNET_EPOCH_YEAR)
        + Cardinality({y \in BACNET_EPOCH_YEAR .. year - 1 : datetime_is_leap_year(y)})

days_since_epoch(year, month, day) ==
    IF datetime_ymd_is_valid(year, month, day)
    THEN days_before_year(year) + day_of_year(year, month, day) - 1 ELSE 0

\* The loop over the years stops at this one.
stops_at_year(days, year) ==
    \/ days - days_before_year(year) < 365
    \/ datetime_is_leap_year(year) /\ days - days_before_year(year) = 365

\* Year, month and day: the first year and then the first month at which the
\* loops that subtract their days stop.
days_since_epoch_into_ymd(days) ==
    LET year == CHOOSE y \in DTYears : stops_at_year(days, y)
                                          /\ (y = BACNET_EPOCH_YEAR \/ ~stops_at_year(days, y - 1))
        rest == days - days_before_year(year)
        month == Min({m \in 1 .. 12 : rest < days_before_month(year, m + 1)})
    IN  <<year, month, rest - days_before_month(year, month) + 1>>

\* 1 is Monday, the first of January 1900 was one.
datetime_day_of_week(year, month, day) == 1 + (days_since_epoch(year, month, day) % 7)

-----------------------------------------------------------------------------
(* Comparison and addition.                                                *)

\* The first difference that is not zero decides, the weekday does not count.
first_difference(ds) ==
    IF \A i \in DOMAIN ds : ds[i] = 0 THEN 0
    ELSE ds[CHOOSE i \in DOMAIN ds : ds[i] # 0 /\ \A j \in 1 .. i - 1 : ds[j] = 0]

datetime_compare(d1, d2) ==
    first_difference(<<d1.year - d2.year, d1.month - d2.month, d1.day - d2.day,
                       d1.hour - d2.hour, d1.min - d2.min>>)

minutes_since_midnight(d) == d.hour * 60 + d.min

\* A date and time of days since the epoch and minutes since midnight.
datetime_of(days, minutes) ==
    LET ymd == days_since_epoch_into_ymd(days)
    IN  [year |-> ymd[1], month |-> ymd[2], day |-> ymd[3],
         wday |-> datetime_day_of_week(ymd[1], ymd[2], ymd[3]),
         hour |-> minutes \div 60, min |-> minutes % 60]

sum_same_day(days, minutes, added) ==
    LET whole == IF added < 0 THEN -((-added) \div 1440) ELSE added \div 1440
        total == minutes + added - whole * 1440
    IN  <<days + whole + (IF total < 0 THEN 0 ELSE total \div 1440), total % 1440>>

\* Days and minutes of the sum.  C divides towards zero: what is left of a
\* negative number of minutes is negative.
sum_of(days, minutes, added) ==
    LET whole == IF added < 0 THEN -((-added) \div 1440) ELSE added \div 1440
        rest == added - whole * 1440
    IN  IF rest < 0
        THEN IF -rest > minutes THEN <<days + whole - 1, minutes + 1440 + rest>>
             ELSE <<days + whole, minutes + rest>>
        ELSE <<days + whole + (minutes + rest) \div 1440, (minutes + rest) % 1440>>

datetime_set_values(year, month, day, hour, minute) ==
    [year |-> year, month |-> month, day |-> day,
     wday |-> datetime_day_of_week(year, month, day), hour |-> hour, min |-> minute]

-----------------------------------------------------------------------------
DTInit ==
    /\ bdatetime \in {datetime_set_values(s[1], s[2], s[3], s[4], s[5]) : s \in StartDates}
    /\ began = bdatetime
    /\ elapsed = 0
    /\ adds = 0

\* Not beyond the first and the last year a date can be in.
datetime_add_minutes(minutes) ==
    LET sum == sum_of(days_since_epoch(bdatetime.year, bdatetime.month, bdatetime.day),
                      minutes_since_midnight(bdatetime), minutes)
    IN  /\ adds < MaxAdds
        /\ sum[1] \in 0 .. days_since_epoch(MaxYear - 1, 12, 31)
        /\ bdatetime' = datetime_of(sum[1], sum[2])
        /\ elapsed' = elapsed + minutes
        /\ adds' = adds + 1
        /\ UNCHANGED began

\* The clock is set anew.
SetClock(s) ==
    /\ bdatetime' = datetime_set_values(s[1], s[2], s[3], s[4], s[5])
    /\ began' = bdatetime'
    /\ elapsed' = 0
    /\ adds' = 0

DTNext ==
    \/ \E m \in Minutes : datetime_add_minutes(m)
    \/ \E s \in StartDates : SetClock(s)

DTSpec == DTInit /\ [][DTNext]_dtVars

-----------------------------------------------------------------------------
\* The Gregorian calendar in closed form: the days from the first of March of
\* the year 0, with the months counted from March so that leap days are last.
GregorianDay(d) ==
    LET m == (d.month + 9) % 12
        y == IF d.month > 2 THEN d.year ELSE d.year - 1
    IN  365 * y + y \div 4 - y \div 100 + y \div 400 + (153 * m + 2) \div 5 + d.day - 1

\* Adding minutes, forwards and backwards, over midnight, the end of a month
\* and a leap day, gives the date and time that many minutes away by the
\* Gregorian calendar, always a valid one and with its day of the week (the first
\* of January 1900 was a Monday); datetime_compare orders the two dates as the
\* minutes between them do, and the days since the epoch convert back.
CalendarIsRight ==
    /\ datetime_ymd_is_valid(bdatetime.year, bdatetime.month, bdatetime.day)
    /\ bdatetime.hour \in 0 .. 23 /\ bdatetime.min \in 0 .. 59
    /\ (GregorianDay(bdatetime) - GregorianDay(began)) * 1440
         + minutes_since_midnight(bdatetime) - minutes_since_midnight(began) = elapsed
    /\ bdatetime.wday =
         1 + ((GregorianDay(bdatetime) - GregorianDay([year |-> 1900, month |-> 1, day |-> 1])) % 7)
    /\ adds > 0 =>
         /\ datetime_compare(bdatetime, began) > 0 <=> elapsed > 0
         /\ datetime_compare(bdatetime, began) = 0 <=> elapsed = 0
         /\ days_since_epoch_into_ymd(days_since_epoch(bdatetime.year, bdatetime.month, bdatetime.day))
              = <<bdatetime.year, bdatetime.month, bdatetime.day>>
=============================================================================
