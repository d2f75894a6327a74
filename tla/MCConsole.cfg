\* A ring of four, lines of three characters, a queue of two: laps shift the
\* lines, mix them, and the queue fills behind a command under way.
CONSTANTS
  Size = 4
  QueueLen = 2
  LineLen = 3
  MaxTyped = 18
SPECIFICATION FairSpec
INVARIANT ReadInOrder
INVARIANT OnlyTyped
INVARIANT Accounted
INVARIANT DropNeedsFlood
PROPERTY EveryLineServed
\* Nobody has to type on.
CHECK_DEADLOCK FALSE
