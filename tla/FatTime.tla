------------------------------ MODULE FatTime ------------------------------
(***************************************************************************)
(* The time stamps of a FAT directory entry turned into a TimeSpec         *)
(* (fs/fat32/utility.rs, ShortDirEntry::bit_to_timespec).  A date is its   *)
(* three bit fields.  The 64-bit count of milliseconds is kept as days and *)
(* milliseconds of the day.                                                *)
(***************************************************************************)
EXTENDS Integers, Sequences, FiniteSets

CONSTANTS
    Years,          \* values of the year field, counted from 1980
    Months,         \* values of the month field, 1 to 12 in a valid date
    Days,           \* values of the day field, from 1 in a valid date
    Times           \* values of the time field: [hr, min, sec, tenth]

VARIABLE stamp      \* the date and time that are converted

DAY_PER_YEAR == 365
DAY_PER_MONTH == <<31, 28, 31, 30, 31, 30, 31, 31, 30, 31, 30, 31>>
Unsigned16 == 65536

\* Mutant: centuries are leap years.
LeapYearJulian(year) == year % 4 = 0

LeapYear(year) == year % 4 = 0 /\ (year % 100 # 0 \/ year % 400 = 0)

LeapYearCnt(year) == year \div 4 - year \div 100 + year \div 400

YearToDayCount(year) ==
    LeapYearCnt(year - 1) - LeapYearCnt(1970 - 1) + (year - 1970) * DAY_PER_YEAR

\* The days of the first month months; past December the index panics.
Panicked == -1
MonthToDayCount(month, leap) ==
    LET days[i \in 0 .. 12] ==
            IF i = 0 THEN 0
            ELSE days[i - 1] + DAY_PER_MONTH[i] + (IF i = 2 /\ leap THEN 1 ELSE 0)
    IN  IF month > 12 THEN Panicked ELSE days[month]

\* fat_to_unix_time: month and day are decremented as 16-bit numbers.
FatToUnixTime(s) ==
    LET year == 1980 + s.year
        month == (s.month - 1) % Unsigned16
        day == (s.day - 1) % Unsigned16
        before == MonthToDayCount(month, LeapYear(year))
    IN  [panics |-> before = Panicked,
         days |-> YearToDayCount(year) + before + day,
         ms |-> ((s.hr * 60 + s.min) * 60 + s.sec * 2) * 1000 + s.tenth * 10]

\* unix_time_to_timespec: tv_nsec holds the milliseconds.
UnixTimeToTimespec(t) ==
    [days |-> t.days, sec |-> t.ms \div 1000, tv_nsec |-> t.ms % 1000]

\* bit_to_timespec, of one of the three stamps of an entry.
BitToTimespec(s) == UnixTimeToTimespec(FatToUnixTime(s))

\* The stamps that are converted: there is no state, and nothing happens next.
Stamp(y, m, d, t) ==
    [year |-> y, month |-> m, day |-> d,
     hr |-> t.hr, min |-> t.min, sec |-> t.sec, tenth |-> t.tenth]

Stamps == {Stamp(y, m, d, t) : y \in Years, m \in Months, d \in Days, t \in Times}

-----------------------------------------------------------------------------

\* The calendar, day by day: the day number of the first of January of year y,
\* and the length of a month.
Length(y, m) ==
    IF m = 2 THEN (IF (y % 4 = 0 /\ y % 100 # 0) \/ y % 400 = 0 THEN 29 ELSE 28)
    ELSE IF m \in {4, 6, 9, 11} THEN 30 ELSE 31

DaysBefore(y) ==
    365 * (y - 1970) + Cardinality({k \in 1970 .. y - 1 : Length(k, 2) = 29})

DaysOfMonths(y, m) ==
    LET n[k \in 1 .. 12] == IF k = 1 THEN 0 ELSE n[k - 1] + Length(y, k - 1)
    IN  n[m]

ValidStamp(s) == s.month \in 1 .. 12 /\ s.day \in 1 .. Length(1980 + s.year, s.month)

\* A valid stamp of any year FAT can hold, the non-leap 2100 included, becomes
\* the day counted on the calendar from 1970, and the second of that day.
FatTimeRight ==
    LET t == FatToUnixTime(stamp)
        y == 1980 + stamp.year
    IN  ValidStamp(stamp) =>
            /\ ~t.panics
            /\ t.days = DaysBefore(y) + DaysOfMonths(y, stamp.month) + stamp.day - 1
            /\ BitToTimespec(stamp).sec = stamp.hr * 3600 + stamp.min * 60 + stamp.sec * 2
                                           + stamp.tenth \div 100

=============================================================================
