\* An event may be set again.
CONSTANTS
  t1 = t1
  t2 = t2
  t3 = t3
  s1 = s1
  s2 = s2
  e1 = e1
  e2 = e2
  Threads = {t1, t2, t3}
  Main = Main
  NULL = NULL
  Sems = {}
  Events = {e1}
  Limit <- MCLimit
  InitUnits <- MCInitUnits
  Requests <- OneTwo
SPECIFICATION SpecSetAgain
INVARIANT ReadyAreSchedulable
