--------------------------- MODULE MCModelFallback --------------------------
(***************************************************************************)
(* Small instances of model fallback for TLC: the turn, a sub-agent's chat *)
(* and a utility call, with the names they ask for.                        *)
(***************************************************************************)
EXTENDS ModelFallbackProperties

CONSTANTS pro, flash, lite, custom, none, turn, agent, utility

\* Utility calls ask for flash-lite by its alias, sub-agents for pro.
LiteAndPro == [r \in {agent, utility} |-> IF r = utility THEN {"flashLite"} ELSE {pro}]

\* As above, and loop detection asks for pro too.
AllPro == [r \in {agent, utility} |-> {"pro"}]
=============================================================================
