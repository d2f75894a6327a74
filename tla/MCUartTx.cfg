CONSTANTS
  Size = 3
  MaxWrites = 8
SPECIFICATION FairSpec
 
 
 
PROPERTY EnabledDrains
\* The tasks stop printing after MaxWrites characters.
CHECK_DEADLOCK FALSE
