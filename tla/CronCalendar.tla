---------------------------- MODULE CronCalendar ----------------------------
(***************************************************************************)
(* A calendar that counts days the way a reader does, and the cron code of *)
(* crates/tysel-runtime/src/task_ingress.rs held against it day by day.    *)
(*                                                                         *)
(* The code has no state here: it computes a date by integer division.     *)
(* The state is the reference: the number of the day and its date, kept by *)
(* carrying from days into months, years and weeks.                        *)
(***************************************************************************)
EXTENDS Cron

CONSTANTS WalkDays,    \* days of the walk from 1970-01-01
          MatchYears,  \* years in which expressions are matched
          Sources,     \* the expressions
          Minutes      \* the minutes of a day to match them at

VARIABLES today, date

vars == <<today, date>>

Leap(year) == year % 4 = 0 /\ (year % 100 # 0 \/ year % 400 = 0)

DaysIn(year, month) ==
  CASE month = 2               -> IF Leap(year) THEN 29 ELSE 28
    [] month \in {4, 6, 9, 11} -> 30
    [] OTHER                   -> 31

Tomorrow(d) ==
  LET weekday == (d.weekday + 1) % 7
  IN IF d.day < DaysIn(d.year, d.month)
     THEN [d EXCEPT !.day = @ + 1, !.weekday = weekday]
     ELSE IF d.month < 12
     THEN [d EXCEPT !.day = 1, !.month = @ + 1, !.weekday = weekday]
     ELSE [year |-> d.year + 1, month |-> 1, day |-> 1, weekday |-> weekday]

(* The first of January 1970 was a Thursday. *)
Init ==
  /\ today = 0
  /\ date = [year |-> 1970, month |-> 1, day |-> 1, weekday |-> 4]

NextDay ==
  /\ today < WalkDays
  /\ today' = today + 1
  /\ date' = Tomorrow(date)

(* The walk is over. *)
Rest ==
  /\ today = WalkDays
  /\ UNCHANGED vars

Next == NextDay \/ Rest

Spec == Init /\ [][Next]_vars

-----------------------------------------------------------------------------
(* civil_from_days and the weekday formula agree with the calendar.        *)
CalendarAgrees ==
  /\ civil_from_days(today)
       = [year |-> date.year, month |-> date.month, day |-> date.day]
  /\ Weekday(today) = date.weekday

(* What the guide says of a schedule: five fields of lists, ranges and     *)
(* steps, 0 and 7 both Sunday, and the day matches by either day field     *)
(* when both are restricted.  A field that begins with a star is not.      *)
Wanted(name, source, v) ==
  \E i \in DOMAIN source :
    LET c == source[i]
        low == IF c.range = <<>> THEN Bounds[name][1] ELSE c.range[1]
        high == IF c.range = <<>> THEN Bounds[name][2] ELSE c.range[Len(c.range)]
        step == IF c.step = <<>> THEN 1 ELSE c.step[1]
    IN \E k \in 0 .. 59 : v = low + k * step /\ v <= high

Starred(source) == source[1].range = <<>>

Scheduled(source, minute) ==
  LET D == Wanted("day", source.day, date.day)
      W == \E n \in 0 .. 7 :
             n % 7 = date.weekday /\ Wanted("weekday", source.weekday, n)
  IN /\ Wanted("minute", source.minute, minute % 60)
     /\ Wanted("hour", source.hour, minute \div 60)
     /\ Wanted("month", source.month, date.month)
     /\ D \/ W
     /\ (Starred(source.day) \/ Starred(source.weekday)) => D /\ W

(* An accepted expression matches a minute exactly when the calendar says  *)
(* that the guide's reading of it does.                                    *)
MatchesAgree ==
  date.year \in MatchYears => \A source \in Sources, minute \in Minutes :
    Parses(source) =>
      (matches(parse(source), today * MinutesPerDay + minute)
         <=> Scheduled(source, minute))
=============================================================================
