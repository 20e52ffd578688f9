\* The server with poll alone.
CONSTANTS
  c1 = c1
  c2 = c2
  c3 = c3
  Clients = {c1, c2, c3}
  Mortal = {c1}
  Tries <- MCTries
  Backlog = 2
  NONE = NONE
  Servers = {"poll"}
  MaxClients = 2
  NoFile = {3}
  Workers = {w1}
SPECIFICATION Spec
INVARIANT PollNeverBlocks
