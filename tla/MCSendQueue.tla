---------------------------- MODULE MCSendQueue -----------------------------
EXTENDS SendQueue
CONSTANTS e1, e2, e3
MCEntries == {e1, e2, e3}
=============================================================================
