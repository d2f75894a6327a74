\* Three descriptors, a pool one larger than the mailbox, and the link lost and
\* found again.
CONSTANTS
  N = 3
  PoolSize = 2
  MboxSize = 1
  Frames = 5
  Flaps = 2
SPECIFICATION FairSpec
INVARIANT NoStall
INVARIANT UpIsRunning
INVARIANT SpeedAgrees
PROPERTY InOrder
PROPERTY Drained
\* The frames are bounded, and the board may be left with nothing to do.
CHECK_DEADLOCK FALSE
