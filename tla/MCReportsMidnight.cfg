SPECIFICATION Spec
INVARIANT SentTodayWasToday
CONSTANTS
  t1 = t1
  t2 = t2
  r1 = r1
  Tasks = {t1, t2}
  Orgs <- MCOrgs
  DaysPerWeek = 3
  HoursPerDay = 2
