---------------------------- MODULE MCClientState ----------------------------
EXTENDS ClientState
=============================================================================
