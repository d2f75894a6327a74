\* Two descriptors and room for every frame: the buffer of a frame in work.
CONSTANTS
  N = 2
  PoolSize = 4
  MboxSize = 3
  Frames = 4
  Flaps = 0
SPECIFICATION Spec
INVARIANT HeldIntact
\* The frames are bounded, and the board may be left with nothing to do.
CHECK_DEADLOCK FALSE
