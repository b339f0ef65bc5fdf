------------------------------- MODULE Cron -------------------------------
(***************************************************************************)
(* Cron expressions of crates/tysel-runtime/src/task_ingress.rs: how the   *)
(* five fields are validated, which values they select, and which UTC      *)
(* minutes an expression matches.  A field's text is abstracted to the     *)
(* sequence of its comma-separated components; a component is              *)
(*                                                                         *)
(*   [range |-> <<>> | <<v>> | <<v, w>>,  step |-> <<>> | <<n>>]           *)
(*                                                                         *)
(* for the texts  *   v   v-w  without and with  /n.                       *)
(***************************************************************************)
EXTENDS Integers, Sequences, SequencesExt

Names == {"minute", "hour", "day", "month", "weekday"}

Bounds == [minute |-> <<0, 59>>, hour |-> <<0, 23>>, day |-> <<1, 31>>,
           month |-> <<1, 12>>, weekday |-> <<0, 7>>]

-----------------------------------------------------------------------------
(* Field::parse, for the field of this name.                               *)

parse_number(name, v) == v \in Bounds[name][1] .. Bounds[name][2]

ComponentParses(name, c) ==
  /\ \A v \in ToSet(c.range) \cup ToSet(c.step) : parse_number(name, v)
  /\ c.step # <<0>>
  /\ Len(c.range) = 2 => c.range[1] <= c.range[2]

Values(name, c) ==
  LET start == IF c.range = <<>> THEN Bounds[name][1] ELSE Head(c.range)
      end   == IF c.range = <<>> THEN Bounds[name][2] ELSE Last(c.range)
      step  == IF c.step = <<>> THEN 1 ELSE c.step[1]
  IN {v \in start .. end : (v - start) % step = 0}

Field(name, source) ==
  [allowed  |-> UNION {Values(name, c) : c \in ToSet(source)},
   wildcard |-> source[1].range = <<>>]

FieldParses(name, source) ==
  source # <<>> /\ \A c \in ToSet(source) : ComponentParses(name, c)

(* CronExpression::parse; source gives the text of each field. *)
Parses(source) == \A name \in Names : FieldParses(name, source[name])

parse(source) == [name \in Names |-> Field(name, source[name])]

contains(field, v) == v \in field.allowed

-----------------------------------------------------------------------------
(* civil_from_days.  Days are counted from 1970-01-01, so that every       *)
(* dividend below is a natural number for the days an unsigned clock can   *)
(* show; an era has 400 years and begins on a first of March.              *)

DaysPerEra == 146097

(* The mutant forgets that centuries are not leap years. *)
year_of_era_julian(doe) == (doe - doe \div 1460) \div 365

year_of_era(doe) ==
  (doe - doe \div 1460 + doe \div 36524 - doe \div 146096) \div 365

day_of_year(doe) ==
  LET yoe == year_of_era(doe)
  IN doe - (365 * yoe + yoe \div 4 - yoe \div 100)

month_prime(doe) == (5 * day_of_year(doe) + 2) \div 153

month_of(doe) == month_prime(doe) + (IF month_prime(doe) < 10 THEN 3 ELSE -9)

civil_from_days(days) ==
  LET z   == days + 719468
      era == z \div DaysPerEra
      doe == z - era * DaysPerEra
  IN [year  |-> year_of_era(doe) + era * 400 + (IF month_of(doe) <= 2 THEN 1 ELSE 0),
      month |-> month_of(doe),
      day   |-> day_of_year(doe) - (153 * month_prime(doe) + 2) \div 5 + 1]

Weekday(days) == (days + 4) % 7

-----------------------------------------------------------------------------
(* CronExpression::matches_unix_ms, for a minute counted from the epoch.   *)

MinutesPerDay == 24 * 60

day_match(expression, days) ==
  contains(expression.day, civil_from_days(days).day)

(* The mutant knows Sunday only as 0. *)
weekday_match_zero(expression, days) ==
  contains(expression.weekday, Weekday(days))

weekday_match(expression, days) ==
  \/ contains(expression.weekday, Weekday(days))
  \/ Weekday(days) = 0 /\ contains(expression.weekday, 7)

calendar_day_match(expression, days) ==
  IF expression.day.wildcard \/ expression.weekday.wildcard
  THEN day_match(expression, days) /\ weekday_match(expression, days)
  ELSE day_match(expression, days) \/ weekday_match(expression, days)

matches(expression, minute) ==
  LET days == minute \div MinutesPerDay
      minute_of_day == minute % MinutesPerDay
  IN /\ contains(expression.minute, minute_of_day % 60)
     /\ contains(expression.hour, minute_of_day \div 60)
     /\ contains(expression.month, civil_from_days(days).month)
     /\ calendar_day_match(expression, days)
=============================================================================
