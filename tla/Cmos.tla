------------------------------- MODULE Cmos --------------------------------
(***************************************************************************)
(* The MC146818 (cmos.rs): a clock derived from the seconds since the epoch *)
(* and bytes of RAM.  The lengths of minute, hour and day are parameters     *)
(* (60, 3600 and 86400 in the code): nothing but civil_time divides by them. *)
(***************************************************************************)
EXTENDS Integers, FiniteSets
CONSTANTS Minute, Hour, Day, Ram    \* Ram: the registers that are stored

Clock == {0, 2, 4, 6, 7, 8, 9, \h32}      \* the registers that are derived
StatusA == 10
StatusB == 11
StatusC == 12
StatusD == 13

New(epoch) == [epoch |-> epoch, elapsed |-> 0, index |-> 0, nmi |-> FALSE,
               ram |-> [r \in Ram |-> CASE r = StatusB -> 2 [] r = StatusD -> \h80
                         [] r = 20 -> \h21 [] OTHER -> 0]]

TickSecond(c) == [c EXCEPT !.elapsed = @ + 1]
Now(c) == c.epoch + c.elapsed

(* days since 1970-01-01 to a date: the year begins in March, so that the    *)
(* leap day ends it, and 400 years (an era) are 146097 days                  *)
Shifted(n) == n + 719468
Era(z)  == z \div 146097
InEra(z) == z - Era(z) * 146097
SlipYearOf(doe) == (doe - doe \div 1460 + doe \div 36524) \div 365
YearOf(doe) == (doe - (doe \div 1460) + (doe \div 36524) - (doe \div 146096)) \div 365
DayOf(doe) == LET y == YearOf(doe) IN doe - (365 * y + (y \div 4) - (y \div 100))
CivilFromDays(n) ==
  LET doe == InEra(Shifted(n))
      doy == DayOf(doe)
      mp  == (5 * doy + 2) \div 153
      m   == IF mp < 10 THEN mp + 3 ELSE mp - 9
      y   == YearOf(doe) + Era(Shifted(n)) * 400
  IN  [year |-> IF m <= 2 THEN y + 1 ELSE y, month |-> m, day |-> doy - ((153 * mp + 2) \div 5) + 1]

CivilTime(t) ==
  LET n == t \div Day  rem == t % Day
  IN  [date |-> CivilFromDays(n), weekday |-> (n + 4) % 7,
       hour |-> rem \div Hour, minute |-> (rem % Hour) \div Minute, second |-> rem % Minute]

ToBcd(v) == 16 * (v \div 10) + (v % 10)
Binary(c) == (c.ram[StatusB] \div 4) % 2 = 1
Encoded(c, v) == IF Binary(c) THEN v ELSE ToBcd(v)

Derived(t) ==
  LET now == CivilTime(t)
  IN  [r \in Clock |-> CASE r = 0    -> now.second      [] r = 2 -> now.minute
                         [] r = 4    -> now.hour        [] r = 6 -> now.weekday + 1
                         [] r = 7    -> now.date.day    [] r = 8 -> now.date.month
                         [] r = 9    -> now.date.year % 100
                         [] r = \h32 -> now.date.year \div 100]

WriteIndex(c, v) == [c EXCEPT !.nmi = v >= 128, !.index = v % 128]
DataRead(c) ==
  CASE c.index \in Clock   -> Encoded(c, Derived(Now(c))[c.index])
    [] c.index = StatusA   -> c.ram[StatusA] % 128
    [] c.index \in Ram \ {StatusA} -> c.ram[c.index]
    [] OTHER               -> 0
(* the causes of an interrupt are cleared by reading them *)
ReadData(c) == IF c.index = StatusC THEN [c EXCEPT !.ram[StatusC] = 0] ELSE c
WriteData(c, v) == IF c.index \in Ram THEN [c EXCEPT !.ram[c.index] = v] ELSE c
=============================================================================
