---------------------------- MODULE MCFtpServer -----------------------------
(* Model checking of FtpServer: what the clients of MCFtp.cfg ask for, and *)
(* how often.                                                              *)
EXTENDS FtpServer, TLC

FtpCommands ==
  "a" :> {"PASV", "PORT", "RETR", "STOR", "REST"} @@ "b" :> {"NOOP", "LIST", "QUIT"}

FtpBudget == "a" :> 4 @@ "b" :> 2
=============================================================================
