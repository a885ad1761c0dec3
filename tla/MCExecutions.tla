---------------------------- MODULE MCExecutions ----------------------------
(***************************************************************************)
(* Small instances of Executions for TLC: two commands, the second with    *)
(* the process id of the first.  Commands with different ids share nothing *)
(* that these modules keep, so running them side by side adds no case.     *)
(***************************************************************************)
EXTENDS Executions

CONSTANTS build, server, none, pid1
=============================================================================
