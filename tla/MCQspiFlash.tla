---------------------------- MODULE MCQspiFlash -----------------------------
(* Instances of QspiFlash for TLC.                                         *)
EXTENDS QspiFlash, TLC

\* The file system and the qFlash task on the same chip.
TwoTasks == "fs" :> {"write"} @@ "qflash" :> {"erase", "program", "chip"}

\* The file system alone.
OneTask == "fs" :> {"write", "read"}
=============================================================================
