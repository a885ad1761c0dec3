--------------------------- MODULE MCMcpManager ---------------------------
(***************************************************************************)
(* Two operations of every kind beside the server's notices.  Two are      *)
(* enough for one to act on what the other has changed.                    *)
(***************************************************************************)
EXTENDS McpManager, TLC

CONSTANTS first, second, none

\* What befalls the server: a connection that breaks, a connection or a question
\* that fails, and a change of its tools.  Behaviours are followed with one of them.
Broken == \E c \in Ops : client[c].live /\ client[c].status = "DISCONNECTED"
OneAtATime ==
  /\ failed => ~Broken /\ version = 0
  /\ Broken => version = 0

Symmetry == Permutations(Ops)
=============================================================================
