---------------------------- MODULE MCWorkspaces ----------------------------
\* Two agents.
EXTENDS Workspaces

CONSTANTS A, B

MCAgents == {A, B}
=============================================================================
