-------------------------- MODULE MC_SessionClient --------------------------
EXTENDS SessionClient, TLC
=============================================================================
