\* Three clients share two places (of shared memory; a fifo has as many as it
\* needs), each sends two requests; the server can be killed twice, or a client,
\* or two of them.
CONSTANTS
  Clients = {c1, c2, c3}
  Tries = 2
  MaxMsgs = 2
  MaxCrashes = 2
  NONE = NONE
SPECIFICATION MCSpec
INVARIANTS
  ClientsEchoed
  ServerStays
PROPERTY ClientsFinish
