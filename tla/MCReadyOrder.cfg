\* Three threads, two semaphores with a limit of two units, one event.
CONSTANTS
  t1 = t1
  t2 = t2
  t3 = t3
  s1 = s1
  s2 = s2
  e1 = e1
  e2 = e2
  Threads = {t1, t2, t3}
  Main = Main
  NULL = NULL
  Sems = {s1, s2}
  Events = {e1}
  Limit <- MCLimit
  InitUnits <- MCInitUnits
  Requests <- OneTwo
SPECIFICATION FairOrderSpec
INVARIANTS
  ReadyQueueSound
  SwitchTargetLive
  TypeOK
  WaitsSound
  SatisfiableReleased
PROPERTIES
  ReadyFifo
  ReadyRuns
  SemFifo
  EventReleases
  ImplementsUThread
