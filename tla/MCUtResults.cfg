\* Four threads and two values: three can wait for the fourth, or one for another
\* that waits itself.
CONSTANTS
  Threads = {1, 2, 3, 4}
  Values = {x, y}
  Main = Main
  NULL = NULL
SPECIFICATION Spec
INVARIANTS
  ResultsSound
  RightResults
PROPERTY RunEnds
