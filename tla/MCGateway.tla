----------------------------- MODULE MCGateway ------------------------------
(* Model-checking instance of Gateway: MAX_UNTRUSTED_STACK_BUF is 2 units  *)
(* and the stack 4 (the code's 1/4 ratio); counts 0, 1, 2 fit the stack    *)
(* and 3 takes the untrusted-heap path, or fills the stack to the last    *)
(* unit so that the RD of the exitless path no longer fits.               *)
EXTENDS Gateway

MCOps == AllOps
MCCounts == {0, 1, 2, 3}

\* The thread OCALLs and a wrapper that resets after them.
MCLeakOps == {"resume", "clone", "close"}
=============================================================================
