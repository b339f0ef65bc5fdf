\* Every day of 400 years, after which the calendar repeats; expressions are
\* matched in a leap year, a common one and a common century.
CONSTANTS
  WalkDays = 146097
  MatchYears = {1972, 2099, 2100}
  Sources <- SomeSources
  Minutes <- SomeMinutes
SPECIFICATION Spec
INVARIANTS
  CalendarAgrees
  MatchesAgree
