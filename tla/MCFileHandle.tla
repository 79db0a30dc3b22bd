---------------------------- MODULE MCFileHandle ----------------------------
(* The process for the runs of FileHandle: stdin and stdout open at 0 and *)
(* 1, a log file the program has not opened yet, one free descriptor.      *)
EXTENDS FileHandle, TLC

CONSTANTS stdin, stdout, logfile

MCPyFiles == {stdin, stdout, logfile}
MCFileAccess == (stdin :> "r") @@ (stdout :> "w") @@ (logfile :> "w")
MCInitFd == (stdin :> 0) @@ (stdout :> 1) @@ (logfile :> -1)
====
