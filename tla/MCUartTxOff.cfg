\* The comments' promise on its own: the lost wake-up between the comparison
\* and the increment of _write() violates it.
CONSTANTS
  Size = 3
  MaxWrites = 8
SPECIFICATION Spec
INVARIANT OffOnlyWhenEmpty
CHECK_DEADLOCK FALSE
