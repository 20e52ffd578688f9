\* pgrep creates its queues with one place, the other client has one queue with two.
CONSTANTS
  reader = reader
  filter = filter
  presenter = presenter
  qreader = qreader
  qfilter = qfilter
  qclient = qclient
  m1 = m1
  m2 = m2
  n1 = n1
  Threads = {reader, filter, presenter}
  Main = Main
  NULL = NULL
  Queues = {qreader, qfilter, qclient}
  Size <- MCSize
  Lines = {m1, m2, n1}
  Matching = {m1, m2}
  Items = {m1, m2, n1, NULL}
  MaxLines = 4
SPECIFICATION MCSpec
INVARIANTS
  QueueSound
  PrintsInOrder
  EndsClean
PROPERTIES
  ImplementsChannels
  PipelineTerminates
