CONSTANTS
  s1 = s1  r1 = r1
  LastDay = 3
  WeekDays = 2
  Mondays <- Weeks
  MonthStarts <- Calendar
  Subs = {s1}
  Videos = {s1}
  Revs = {r1}

SPECIFICATION Spec
INVARIANTS
  SubmissionCountsAreFinal
  RevisionTotalsAreFinal
  RevisionOutcomesOnlyGrow
  WeekAddsUp

