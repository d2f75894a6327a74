---------------------------- MODULE MCTftpServer ----------------------------
(* Model checking of TftpServer: the configurations MCTftp*.cfg choose the *)
(* clients, the length of their files, the pool of pcbs, what the network  *)
(* repeats and which faults the volume and the heap have.                  *)
EXTENDS TftpServer
=============================================================================
