\* With the mutex three threads and two places: two threads can wait while the
\* third signals twice. With the semaphores one client and one server, as
\* memchan_cli.c and memchan_srv.c.
CONSTANTS
  Users = {u1, u2, u3}
  Items = {x, y}
  NoItem = NoItem
  NoOwner = NoOwner
  Capacity = 2
  Mutexes = {"lock"}
  Conds = {"hasItems", "hasSpace"}
  Putters = {p1}
  Getters = {g1}
  Torn = Torn
  SemCapacity = 3
SPECIFICATION MCSpec
INVARIANTS
  ChannelSound
  NoLostWakeup
  SemaphoresSound
  GetsItems
PROPERTIES
  ImplementsChannel
  SemImplementsChannel
