--------------------------- MODULE MCSessionList ----------------------------
EXTENDS SessionList
=============================================================================
