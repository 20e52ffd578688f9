\* Three clients, one of which may be killed; the server has two places, and
\* descriptors for two connections or for three.
CONSTANTS
  c1 = c1
  c2 = c2
  c3 = c3
  Clients = {c1, c2, c3}
  Mortal = {c1}
  Tries <- MCTries
  Backlog = 2
  NONE = NONE
  Servers = {"select", "poll", "epoll", "callbacks", "uv", "local", "pool"}
  MaxClients = 2
  NoFile = {2, 3}
  Workers = {w1, w2}
SPECIFICATION Spec
INVARIANTS
  TablesSound
  EchoesOwn
  NeverBlocks
  SurvivesClients
PROPERTIES
  ClosesOnlyGone
  ServiceEnds
  EndsWhenTold
