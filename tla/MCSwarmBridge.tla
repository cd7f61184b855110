---------------------------- MODULE MCSwarmBridge ----------------------------
EXTENDS SwarmBridge, TLC
=============================================================================
