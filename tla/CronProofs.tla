---------------------------- MODULE CronProofs ----------------------------
(***************************************************************************)
(* The calendar computation repeats after 400 years: with the day-by-day   *)
(* walk of CronCalendar over one such era, what cron expressions match is  *)
(* settled for every time the clock can show.                              *)
(***************************************************************************)
EXTENDS Cron, TLAPS

(* Truncating division and a shift by the divisor. *)
LEMMA ShiftByDivisor ==
  ASSUME NEW d \in Nat, d > 0, NEW z \in Nat
  PROVE  /\ (z + d) \div d = z \div d + 1
         /\ z \div d \in Nat
         /\ z - (z \div d) * d \in Nat
         /\ (z + d) - (z \div d + 1) * d = z - (z \div d) * d
BY SMT

LEMMA EraIsPositive == DaysPerEra \in Nat /\ DaysPerEra > 0
BY SMT DEF DaysPerEra

LEMMA EraIsWholeWeeks ==
  ASSUME NEW days \in Nat
  PROVE  Weekday(days + DaysPerEra) = Weekday(days)
BY SMT DEF Weekday, DaysPerEra

LEMMA YearIsInteger ==
  ASSUME NEW doe \in Nat
  PROVE  year_of_era(doe) \in Int
BY SMT DEF year_of_era

(* The date of a day, from its era and its place in it. *)
DateOf(era, doe) ==
  [year  |-> year_of_era(doe) + era * 400 + (IF month_of(doe) <= 2 THEN 1 ELSE 0),
   month |-> month_of(doe),
   day   |-> day_of_year(doe) - (153 * month_prime(doe) + 2) \div 5 + 1]

LEMMA NextEra ==
  ASSUME NEW era \in Nat, NEW doe \in Nat
  PROVE  /\ DateOf(era + 1, doe).year = DateOf(era, doe).year + 400
         /\ DateOf(era + 1, doe).month = DateOf(era, doe).month
         /\ DateOf(era + 1, doe).day = DateOf(era, doe).day
BY YearIsInteger, SMT DEF DateOf

LEMMA DateFromDays ==
  ASSUME NEW days
  PROVE  LET z == days + 719468
         IN civil_from_days(days)
              = DateOf(z \div DaysPerEra, z - (z \div DaysPerEra) * DaysPerEra)
BY SMT DEF civil_from_days, DateOf

(* The same day of the next era has the same month, day of the month and   *)
(* day of the week, 400 years later: civil_from_days and the weekday       *)
(* formula of matches_unix_ms.                                             *)
THEOREM CalendarRepeats ==
  ASSUME NEW days \in Nat
  PROVE  LET then == civil_from_days(days + DaysPerEra)
             now  == civil_from_days(days)
         IN /\ then.year = now.year + 400
            /\ then.month = now.month
            /\ then.day = now.day
            /\ Weekday(days + DaysPerEra) = Weekday(days)
<1> DEFINE z == days + 719468
           era == z \div DaysPerEra
           doe == z - era * DaysPerEra
<1>1. z \in Nat
  BY SMT
<1>2. (days + DaysPerEra) + 719468 = z + DaysPerEra
  BY EraIsPositive, SMT
<1>3. civil_from_days(days) = DateOf(era, doe)
  BY DateFromDays, SMT
<1>4. civil_from_days(days + DaysPerEra)
        = DateOf((z + DaysPerEra) \div DaysPerEra,
                 (z + DaysPerEra) - ((z + DaysPerEra) \div DaysPerEra) * DaysPerEra)
  BY DateFromDays, <1>2, SMT
<1> HIDE DEF z
<1>5. /\ (z + DaysPerEra) \div DaysPerEra = era + 1
      /\ era \in Nat
      /\ doe \in Nat
      /\ (z + DaysPerEra) - (era + 1) * DaysPerEra = doe
  BY <1>1, EraIsPositive, ShiftByDivisor, SMT
<1>6. civil_from_days(days + DaysPerEra) = DateOf(era + 1, doe)
  BY <1>4, <1>5, SMT
<1> HIDE DEF era, doe
<1> QED BY <1>3, <1>5, <1>6, NextEra, EraIsWholeWeeks, SMT

LEMMA MinuteOfEra ==
  ASSUME NEW minute \in Nat
  PROVE  LET then == minute + DaysPerEra * MinutesPerDay
         IN /\ then \div MinutesPerDay = minute \div MinutesPerDay + DaysPerEra
            /\ then % MinutesPerDay = minute % MinutesPerDay
            /\ minute \div MinutesPerDay \in Nat
BY SMT DEF DaysPerEra, MinutesPerDay

(* An expression matches a minute exactly when it matches the same minute  *)
(* 400 years later: matches_unix_ms.                                       *)
THEOREM SchedulesRepeat ==
  ASSUME NEW expression, NEW minute \in Nat
  PROVE  matches(expression, minute + DaysPerEra * MinutesPerDay)
           <=> matches(expression, minute)
<1> DEFINE then == minute + DaysPerEra * MinutesPerDay
           days == minute \div MinutesPerDay
<1>1. /\ then \div MinutesPerDay = days + DaysPerEra
      /\ then % MinutesPerDay = minute % MinutesPerDay
      /\ days \in Nat
  BY MinuteOfEra
<1> HIDE DEF then, days
<1>2. /\ civil_from_days(days + DaysPerEra).month = civil_from_days(days).month
      /\ civil_from_days(days + DaysPerEra).day = civil_from_days(days).day
      /\ Weekday(days + DaysPerEra) = Weekday(days)
  BY <1>1, CalendarRepeats
<1>3. calendar_day_match(expression, days + DaysPerEra)
        <=> calendar_day_match(expression, days)
  BY <1>2, Zenon DEF calendar_day_match, day_match, weekday_match
<1>4. matches(expression, then)
        <=> /\ contains(expression.minute, (then % MinutesPerDay) % 60)
            /\ contains(expression.hour, (then % MinutesPerDay) \div 60)
            /\ contains(expression.month, civil_from_days(then \div MinutesPerDay).month)
            /\ calendar_day_match(expression, then \div MinutesPerDay)
  BY Zenon DEF matches
<1>5. matches(expression, minute)
        <=> /\ contains(expression.minute, (minute % MinutesPerDay) % 60)
            /\ contains(expression.hour, (minute % MinutesPerDay) \div 60)
            /\ contains(expression.month, civil_from_days(days).month)
            /\ calendar_day_match(expression, days)
  BY Zenon DEF matches, days
<1>6. matches(expression, then) <=> matches(expression, minute)
  BY <1>1, <1>2, <1>3, <1>4, <1>5, Zenon
<1> QED BY <1>6, Zenon DEF then
=============================================================================
