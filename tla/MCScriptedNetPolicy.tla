--------------------------- MODULE MCScriptedNetPolicy ---------------------------
EXTENDS ScriptedNet, E2EPhases
MCScript == [governed |-> GovernedPolicy]
MCLag == [governed |-> 1]
================================================================================
