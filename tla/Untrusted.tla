------------------------------ MODULE Untrusted ------------------------------
(***************************************************************************)
(* What every OCALL wrapper of enclave_ocalls.c shares: the untrusted      *)
(* stack (USA) of the calling thread as a bump counter, the host-heap      *)
(* buffers it maps with the nested ocall_mmap_untrusted, the boundary      *)
(* checker's classification of a caller buffer, and sgx_copy_to_enclave.   *)
(* Sizes are in abstract units: an argument struct takes MS units and the  *)
(* stack holds StackCap units below the top saved at enclave entry.        *)
(***************************************************************************)
EXTENDS Integers

CONSTANTS
  StackBuf,   \* MAX_UNTRUSTED_STACK_BUF
  StackCap    \* untrusted-stack space below the top saved at enclave entry

ASSUME StackBuf \in Nat /\ StackCap \in Nat

VARIABLES
  used,       \* untrusted-stack units in use
  owned       \* host-heap buffers mapped for this thread and not yet unmapped

MS       == 1     \* size of an ms_ocall_*_t argument struct
EPERM    == -1
HOST_ERR == -5    \* any error code the host returns
Classes  == {"inside", "outside", "straddle"}

\* sgx_alloc_on_ustack: NULL when the remaining space is too small.
CanAlloc(sz) == used + sz <= StackCap

\* sgx_copy_to_enclave(dst, cap, src, len) copies only into a destination
\* entirely inside the enclave, from a source entirely outside it, and at
\* most the destination's capacity; it returns the bytes copied, so a
\* zero-length copy reads as failure.  k and src are BMC classes.
CopyToEnclaveOK(k, cap, src, len) == k = "inside" /\ src = "outside" /\ len <= cap

\* What ocall_mmap_untrusted hands back: a usable host buffer, a pointer
\* that sgx_copy_ptr_to_enclave rejects, a host error, or a positive
\* value that is neither success nor an error.
MmapOutcomes ==
  {[ret |-> 0, mapped |-> TRUE], [ret |-> EPERM, mapped |-> FALSE],
   [ret |-> HOST_ERR, mapped |-> FALSE], [ret |-> 1, mapped |-> FALSE]}

\* ocall_mmap_untrusted: the possible outcomes from the current stack.  It
\* allocates its own argument struct and resets the stack on every path.
MmapUntrusted ==
  IF CanAlloc(MS) THEN MmapOutcomes ELSE {[ret |-> EPERM, mapped |-> FALSE]}

\* sgx_copy_to_ustack(src, size), made after base units were taken in the
\* same wrapper: NULL unless the source lies entirely inside the enclave (a
\* NULL source does not) and the stack has room for it.
CopyToUstackOK(k, base, sz) == k = "inside" /\ CanAlloc(base + sz)

RD == 1   \* size of an rpc_request_t

\* The untrusted-stack space sgx_exitless_ocall takes for itself, from the
\* current stack, when there is an RPC queue: the RD (line 37) and, when the
\* spin times out, the futex arguments (line 76).  Neither allocation is
\* checked: "null" records that one came back NULL and was written through.
RdAlloc    == IF CanAlloc(RD) THEN RD ELSE 0
FutexAlloc == IF used + RdAlloc + MS <= StackCap THEN MS ELSE 0

ExitlessUsage(rpc) ==
  IF rpc
    THEN {[grow |-> RdAlloc, null |-> RdAlloc = 0],
          [grow |-> RdAlloc + FutexAlloc, null |-> RdAlloc = 0 \/ FutexAlloc = 0]}
    ELSE {[grow |-> 0, null |-> FALSE]}

\* ocall_munmap_untrusted of a host-heap buffer: the region is entirely
\* outside the enclave and the call resets the stack; the result is ignored.
MunmapUntrusted ==
  /\ owned' = owned - 1
  /\ used' = 0

=============================================================================
