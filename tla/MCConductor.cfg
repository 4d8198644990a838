SPECIFICATION Spec
CONSTANTS
  Queued = {q1, q2, q3}
  Streamed = {t1, t2}
  MaxQueueDepth = 1
  NoOne = NoOne
SYMMETRY Symmetry
INVARIANT QueueIsServed
INVARIANT OneExtractor
PROPERTY ImplementsSerialQueue
\* The messages are finite: all may be over and the conductor down.
CHECK_DEADLOCK FALSE
