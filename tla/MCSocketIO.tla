----------------------------- MODULE MCSocketIO ------------------------------
EXTENDS SocketIO

MCOps    == {"recv", "send"}
MCCounts == {0, 1, 3, 7}
MCLens   == {0, 1, 2}
=============================================================================
