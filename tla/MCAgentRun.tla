---------------------------- MODULE MCAgentRun ----------------------------
EXTENDS AgentRun

CONSTANTS finish, grep, edit
ThreeCalls == {finish, grep, edit}
=============================================================================
