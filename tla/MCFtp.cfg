\* Two clients, one of them careless, on the four sockets of the firmware.
CONSTANTS
  Clients = {"a", "b"}
  NoOne = "nobody"
  MaxConn = 4
  Commands <- FtpCommands
  Careless = {"b"}
  FileLen = 2
  UpLen = 1
  Garbage = {1, 4}
  Budget <- FtpBudget
  Mounts = 1
SPECIFICATION FairSpec
INVARIANT TypeOK
INVARIANT ControlSockets
INVARIANT AliasNeedsCause
INVARIANT NoLeak
INVARIANT DeafNeedsCause
PROPERTY RetrWhole
 
 
\* The budget is bounded, clients may stop asking, and the model stops where
\* the server takes another socket for its own.
CHECK_DEADLOCK FALSE
