---------------------------- MODULE MCSocketAddr -----------------------------
EXTENDS SocketAddr

MCOps  == {"listen", "accept", "connect", "socketpair"}
MCLens == {0, 1, 2}

\* A hostile host: no length, the length it was given, or one more.
MCHostLens(l) == {0, l, l + 1}

\* accept(2) on Linux: the peer address fits, or it was truncated and
\* *addrlen holds its full, longer length.
MCAcceptOps == {"accept"}
MCAcceptLens == {1}
MCKernelLens(l) == {l, l + 1}
=============================================================================
