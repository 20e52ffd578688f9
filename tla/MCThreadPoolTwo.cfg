\* A second thread destroys the pool too.
CONSTANTS
  Workers = {w1, w2}
  Submitters = {s1}
  Destroyers = {d1, d2}
  Work = {x1}
  NULL = NULL
  NoOwner = NoOwner
  Mutexes = {"pool"}
  Conds = {"has_items"}
SPECIFICATION Spec
INVARIANT QueueAlive
