\* Two workers, the two ranges of the adder, and a thread that submits an item
\* of its own at any time.  Four places are the fewest that suffice, and three
\* rounds reuse every one of them.
CONSTANTS
  Workers = {w1, w2}
  Submitters = {main, s1}
  Destroyers = {main}
  Work = {r1, r2, x1}
  Ranges = {r1, r2}
  Signallers = {r1, r2}
  Waiter = main
  main = main
  Places = 4
  Rounds = 3
  NULL = NULL
  NoOwner = NoOwner
  Mutexes = {"pool", "latch"}
  Conds = {"has_items", "done"}
SPECIFICATION MCSpec
INVARIANTS
  ItemsOnce
  PillsLast
  PoolAlive
  SumsReady
PROPERTIES
  ItemsDone
  AdderEnds
