---------------------------------- MODULE Calendar ----------------------------------
(***************************************************************************)
(* The real-time clock RX8900 as the flight software sets and reads it: RTC.cpp,       *)
(* the conversions of Utility.cpp and DateTime, the registers in RX8900.cpp.  The       *)
(* ground's second goes through gmtime, a year that is 30 too small, a byte that it      *)
(* overflows, and BCD, into a register that is 18 years ahead; the reading takes 18     *)
(* away.  The chip counts the leap years of its own register.                       *)
(*                                                                             *)
(* The unit of time is a day: the time of the day goes through both ways unchanged.      *)
(* The chip, gmtime and mktime are external.                                        *)
(***************************************************************************)
EXTENDS Integers

CONSTANTS FirstYear, LastYear   \* the years of the model: the register of the chip,
                                \* 18 years ahead, has two digits

CalendarConstants ==
    /\ FirstYear \in 2000..2080 /\ LastYear \in FirstYear..2080

VARIABLES today,    \* the true date: [y, m, d]
          rtc       \* the date in the chip, the year in two digits

(* For the properties only.                                                      *)
VARIABLES sound,    \* the chip was set, in a year before 2030
          crossed   \* since then a 28th of February has ended, of an even year

vars == <<today, rtc, sound, crossed>>

-------------------------------------------------------------------------------
(* Dates; d may be a day more than the month has, which mktime takes for the next.       *)
Length(leap, m) ==
    CASE m = 2 -> IF leap THEN 29 ELSE 28
      [] m \in {4, 6, 9, 11} -> 30
      [] OTHER -> 31

NextDay(date, leap) ==
    IF date.d < Length(leap, date.m) THEN [date EXCEPT !.d = @ + 1]
    ELSE IF date.m < 12 THEN [date EXCEPT !.m = @ + 1, !.d = 1]
    ELSE [y |-> date.y + 1, m |-> 1, d |-> 1]

LeapYear(y) == y % 4 = 0

BeforeMonth == <<0, 31, 59, 90, 120, 151, 181, 212, 243, 273, 304, 334>>

(* mktime: the days since 2000-01-01.                                               *)
DayNumber(date) ==
    365 * (date.y - 2000) + (date.y - 2000 + 3) \div 4 + BeforeMonth[date.m]
        + (IF date.m > 2 /\ LeapYear(date.y) THEN 1 ELSE 0) + date.d - 1

-------------------------------------------------------------------------------
Byte(n) == n % 256

bin2bcd(v) == Byte(v + 6 * (v \div 10))

(* Mutant: the digits are read as a binary number.                                  *)
bcdAsBin(b) == b
bcd2bin(b) == Byte(b - 6 * (b \div 16))

(* The two digits of a register, and the register with two digits.                    *)
Digits(b)   == 10 * (b \div 16) + (b % 16)
Register(n) == 16 * (n \div 10) + (n % 10)

(* Convert_UnixTime2UTC: tm_year + 1870.                                            *)
Convert_UnixTime2UTC(date) == [date EXCEPT !.y = @ - 1900 + 1870]

(* DateTime(year, ...): yOff is a byte.                                             *)
DateTime(utc) == [utc EXCEPT !.y = Byte(IF @ >= 2000 THEN @ - 2000 ELSE @)]

adjust(dt) == [dt EXCEPT !.y = Digits(bin2bcd(@))]

now(regs) == [regs EXCEPT !.y = 2000 + Byte(bcd2bin(Register(@)) - 18)]

(* RTC_get_UNIX_TIME, which RTC_init and, every second, RTC_update call.               *)
RTC_get_UNIX_TIME == DayNumber(now(rtc))

-------------------------------------------------------------------------------
Init ==
    /\ today = [y |-> FirstYear, m |-> 1, d |-> 1]
    /\ rtc = [y |-> 0, m |-> 1, d |-> 1]
    /\ sound = FALSE /\ crossed = FALSE

(* A second of the ground, which is right.                                           *)
RTC_UTIME_SET ==
    /\ rtc' = adjust(DateTime(Convert_UnixTime2UTC(today)))
    /\ sound' = (today.y < 2030) /\ crossed' = FALSE
    /\ UNCHANGED today

(* The chip goes on, whether the processor runs or not.                               *)
DayPasses ==
    /\ today' = NextDay(today, LeapYear(today.y)) /\ today'.y <= LastYear
    /\ rtc' = NextDay(rtc, LeapYear(rtc.y))
    /\ crossed' = (crossed \/ (today.m = 2 /\ today.d = 28 /\ today.y % 2 = 0))
    /\ UNCHANGED sound

Next == RTC_UTIME_SET \/ DayPasses

Spec == Init /\ [][Next]_vars

-------------------------------------------------------------------------------
(* The real-time clock, once set, tells the right day until the 28th of a February of an      *)
(* even year is over, and later it is wrong by one day at most: the register is 18 years ahead,    *)
(* which is no multiple of 4, so the chip has its 29th of February in 2022, 2026 and 2030   *)
(* and none in 2024 and 2028 (RX8900.cpp:61-63, 274, 296, Utility.cpp:213).  What is      *)
(* written from 2030 on is not what is read.                                      *)
RTCWithinADay ==
    sound => /\ RTC_get_UNIX_TIME - DayNumber(today) \in -1..1
             /\ ~crossed => RTC_get_UNIX_TIME = DayNumber(today)
===============================================================================
