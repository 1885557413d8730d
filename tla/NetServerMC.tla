---------------------------- MODULE NetServerMC ----------------------------
EXTENDS NetServer
=============================================================================
