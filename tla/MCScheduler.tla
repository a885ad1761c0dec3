----------------------------- MODULE MCScheduler ----------------------------
(***************************************************************************)
(* Small instances of the scheduler for TLC: four calls, told apart by     *)
(* what a call can do (a shell command can be sandboxed, update_topic goes *)
(* first, an edit is never parallelizable), and two requests, the one of   *)
(* the turn and one made while it runs.                                    *)
(***************************************************************************)
EXTENDS SchedulerProperties

CONSTANTS shell, grep, topic, edit, turn, aside

\* One batch of four calls.
FourInOne == [r \in Requests |-> <<shell, grep, topic, edit>>]

\* A batch of two calls, and one of one call scheduled next to it.
TwoAndOne == [r \in Requests |-> IF r = turn THEN <<shell, grep>> ELSE <<edit>>]
=============================================================================
