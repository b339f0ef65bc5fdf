--------------------------- MODULE MCCronCalendar ---------------------------
(* A walk of the calendar for TLC.                                         *)
EXTENDS CronCalendar

(* Components: a star, a value, a range; stepped or not. *)
Star == [range |-> <<>>, step |-> <<>>]
StarBy(n) == [range |-> <<>>, step |-> <<n>>]
Only(v) == [range |-> <<v>>, step |-> <<>>]
OnlyBy(v, n) == [range |-> <<v>>, step |-> <<n>>]
From(v, w) == [range |-> <<v, w>>, step |-> <<>>]
FromBy(v, w, n) == [range |-> <<v, w>>, step |-> <<n>>]

DayTexts == {<<Star>>, <<StarBy(2)>>, <<Only(29)>>, <<FromBy(28, 31, 3)>>,
             <<Only(1), Star>>, <<StarBy(32)>>}

WeekdayTexts == {<<Star>>, <<Only(0)>>, <<Only(7)>>, <<From(5, 7)>>,
                 <<StarBy(3)>>, <<From(6, 2)>>, <<StarBy(0)>>}

MonthTexts == {<<Star>>, <<Only(2), Only(12)>>}

TimeTexts == {<<<<OnlyBy(5, 10), From(50, 59)>>, <<FromBy(3, 23, 20)>>>>}

SomeSources ==
  {[minute |-> t[1], hour |-> t[2], day |-> d, month |-> m, weekday |-> w] :
     t \in TimeTexts, d \in DayTexts, m \in MonthTexts, w \in WeekdayTexts}

SomeMinutes == {3 * 60 + 5, 3 * 60 + 15, 23 * 60 + 59, 0}
=============================================================================
