\* Two threads put.
CONSTANTS
  Putters = {p1, p2}
  Getters = {g1}
  Items = {x, y}
  NoItem = NoItem
  Torn = Torn
  Capacity = 2
SPECIFICATION Spec
INVARIANT GetsItems
