------------------------- MODULE MCExitlessOcall ----------------------------
(* Model-checking instance of ExitlessOcall: two enclave threads, one or   *)
(* two RPC workers and a one-slot queue, so that the queue overflows and   *)
(* the fallback to the direct OCALL happens next to the exitless path.     *)
EXTENDS ExitlessOcall

MCResults == {0, 1}
=============================================================================
