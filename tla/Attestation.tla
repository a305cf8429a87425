---------------------------- MODULE Attestation -----------------------------
(***************************************************************************)
(* ocall_get_attestation (enclave_ocalls.c): the host returns an          *)
(* sgx_attestation_t whose four blobs (quote, IAS report, IAS signature,   *)
(* IAS certificate chain) are host pointers with host-chosen lengths.  The *)
(* enclave copies the struct in, then for each non-NULL blob mallocs an    *)
(* enclave buffer, copies the blob with sgx_copy_to_enclave, unmaps the    *)
(* host blob, NUL-terminates the two text blobs, and stores its own        *)
(* pointer.  If any copy failed, all four fields are freed.                *)
(*                                                                         *)
(* size_t arithmetic is done modulo 2^Width so that len + 1 can wrap.      *)
(***************************************************************************)
EXTENDS Integers, Sequences

CONSTANTS
  Width,         \* bits of size_t in the model
  StackCap,      \* untrusted-stack space at entry
  MallocMayFail  \* the enclave heap may be exhausted

ASSUME Width \in Nat \ {0} /\ StackCap \in Nat /\ MallocMayFail \in BOOLEAN

SizeMod  == 2 ^ Width
SIZE_MAX == SizeMod - 1
MS       == 1
EPERM    == -1
EACCES   == -13
HOST_ERR == -5

Fields     == <<"quote", "ias_report", "ias_sig", "ias_certs">>
FieldSet   == {Fields[i] : i \in 1..Len(Fields)}
Terminated == {"ias_report", "ias_certs"}   \* allocated with len + 1, then buf[len] = 0

\* A host blob pointer: NULL, a region entirely outside the enclave, or a
\* forged one (inside or straddling) that the boundary checks reject.
HostPtrs == {"null", "outside", "forged"}

VARIABLES
  pc,        \* position in ocall_get_attestation
  retval,
  used,      \* untrusted-stack units in use
  next,      \* index of the next field to copy in
  field,     \* attestation->f: "null", "host" or "enclave"
  heap,      \* the enclave buffer malloc'd for f: "none", "live" or "freed"
  blob,      \* the host pointer the host returned for f
  unmapped,  \* host blobs handed to ocall_munmap_untrusted
  wild       \* the enclave has stored outside any buffer it allocated

vars == <<pc, retval, used, next, field, heap, blob, unmapped, wild>>

\* Bytes malloc is asked for, in size_t arithmetic.
AllocSize(f, len) == IF f \in Terminated THEN (len + 1) % SizeMod ELSE len

\* sgx_copy_to_enclave(buf, len, hostptr, len): the destination must be a
\* region inside the enclave (a NULL buffer, or one whose length runs past
\* the malloc'd size, is not), the source entirely outside, and a return
\* of 0 bytes counts as failure.
CopyInOK(buf, ptr, len, sz) ==
  /\ buf = "ok" /\ ptr = "outside" /\ len > 0
  /\ len <= sz   \* fails only when len + 1 wrapped: [buf, buf + len) leaves the enclave

-----------------------------------------------------------------------------
(* A plausible fault of the failure clean-up, used as a mutant.            *)

\* The clean-up list forgetting ias_sig.
FreeOnFailureSkipsSig ==
  /\ pc = "check"
  /\ heap' = IF retval < 0
               THEN [f \in FieldSet |->
                       IF heap[f] = "live" /\ f /= "ias_sig" THEN "freed" ELSE heap[f]]
               ELSE heap
  /\ pc' = "done"
  /\ UNCHANGED <<retval, used, next, field, blob, unmapped, wild>>

\* The value stored into attestation->f after the copy, with the store of
\* ias_sig's enclave buffer forgotten.
StoredPtrKeepsSig(f, buf) ==
  IF f = "ias_sig" THEN "host" ELSE IF buf = "ok" THEN "enclave" ELSE "null"

-----------------------------------------------------------------------------

\* (Mutant) ms used without the NULL check at 1151.
MarshalNoNullCheck ==
  /\ pc = "start"
  /\ used' = used + MS /\ pc' = "dispatch"
  /\ retval' = EPERM
  /\ UNCHANGED <<next, field, heap, blob, unmapped, wild>>

\* Lines 1147-1158: allocate ms (failure goes to reset with -EPERM) and
\* marshal spid, subkey, report, nonce and linkable.
Marshal ==
  /\ pc = "start"
  /\ IF used + MS <= StackCap
       THEN /\ used' = used + MS /\ pc' = "dispatch"
       ELSE /\ pc' = "reset" /\ UNCHANGED used
  /\ retval' = EPERM
  /\ UNCHANGED <<next, field, heap, blob, unmapped, wild>>

\* retval = sgx_exitless_ocall(OCALL_GET_ATTESTATION, ms).
Dispatch ==
  /\ pc = "dispatch"
  /\ \E r \in {HOST_ERR, 0, 1} : retval' = r
  /\ pc' = "copystruct"
  /\ UNCHANGED <<used, next, field, heap, blob, unmapped, wild>>

\* On success copy ms->ms_attestation into *attestation (an enclave
\* buffer, so the check passes) and reset the untrusted stack so that the
\* nested munmap calls start from its top; on failure go to reset.
CopyStruct ==
  /\ pc = "copystruct"
  /\ IF retval >= 0
       THEN /\ field' = [f \in FieldSet |-> "host"]
            /\ used' = 0 /\ next' = 1 /\ pc' = "fields"
       ELSE /\ pc' = "reset" /\ UNCHANGED <<used, next, field>>
  /\ UNCHANGED <<retval, heap, blob, unmapped, wild>>

\* attestation->f = buf: the enclave pointer malloc returned (maybe NULL).
StoredPtr(f, buf) == IF buf = "ok" THEN "enclave" ELSE "null"

\* One of the four blocks at lines 1174-1210, for field f.  A NULL host
\* pointer skips the block.  Otherwise: malloc len (len + 1 for the text
\* blobs), copy in, unmap the host blob whatever the copy did (munmap
\* refuses a pointer not entirely outside the enclave), store buf[len] = 0
\* for the text blobs, and store the enclave pointer.
CopyBlock(f) ==
  \E ptr \in HostPtrs, len \in 0..SIZE_MAX :
    /\ blob' = [blob EXCEPT ![f] = ptr]
    /\ IF ptr = "null"
         THEN /\ field' = [field EXCEPT ![f] = "null"]
              /\ UNCHANGED <<retval, heap, unmapped, wild>>
         ELSE \E buf \in IF MallocMayFail THEN {"ok", "null"} ELSE {"ok"} :
                LET sz == AllocSize(f, len) IN
                /\ retval' = IF CopyInOK(buf, ptr, len, sz) THEN retval ELSE EACCES
                /\ unmapped' = IF ptr = "outside" THEN unmapped \cup {f} ELSE unmapped
                /\ wild' = (wild \/ (f \in Terminated /\ (buf = "null" \/ len >= sz)))
                /\ field' = [field EXCEPT ![f] = StoredPtr(f, buf)]
                /\ heap' = [heap EXCEPT ![f] = IF buf = "ok" THEN "live" ELSE "none"]

\* Lines 1173-1210: the four blocks in order.
CopyField ==
  /\ pc = "fields"
  /\ CopyBlock(Fields[next])
  /\ next' = next + 1
  /\ pc' = IF next = Len(Fields) THEN "check" ELSE "fields"
  /\ UNCHANGED used

\* Lines 1212-1220: after a failed copy free every non-NULL field; goto out.
FreeOnFailure ==
  /\ pc = "check"
  /\ heap' = IF retval < 0
               THEN [f \in FieldSet |-> IF heap[f] = "live" THEN "freed" ELSE heap[f]]
               ELSE heap
  /\ pc' = "done"
  /\ UNCHANGED <<retval, used, next, field, blob, unmapped, wild>>

\* reset: sgx_reset_ustack(); out: return retval.
Reset ==
  /\ pc = "reset"
  /\ used' = 0
  /\ pc' = "done"
  /\ UNCHANGED <<retval, next, field, heap, blob, unmapped, wild>>

Init ==
  /\ pc = "start" /\ retval = 0 /\ next = 1
  \* the caller may find the untrusted stack already in use, e.g. by the RD
  \* a thread OCALL left on it (lines 549-558)
  /\ used \in 0..StackCap
  /\ field = [f \in FieldSet |-> "null"]
  /\ heap = [f \in FieldSet |-> "none"]
  /\ blob = [f \in FieldSet |-> "null"]
  /\ unmapped = {} /\ wild = FALSE

Next ==
  \/ Marshal \/ Dispatch \/ CopyStruct \/ CopyField \/ FreeOnFailure \/ Reset
  \/ (pc = "done" /\ UNCHANGED vars)   \* the call has returned

Spec == Init /\ [][Next]_vars

-----------------------------------------------------------------------------

TypeOK ==
  /\ pc \in {"start", "dispatch", "copystruct", "fields", "check", "reset", "done"}
  /\ retval \in {0, 1, EPERM, EACCES, HOST_ERR}
  /\ used \in 0..StackCap /\ next \in 1..Len(Fields) + 1
  /\ field \in [FieldSet -> {"null", "host", "enclave"}]
  /\ heap \in [FieldSet -> {"none", "live", "freed"}]
  /\ blob \in [FieldSet -> HostPtrs]
  /\ unmapped \subseteq FieldSet /\ wild \in BOOLEAN

\* P8, success: when the call returns success, no field of *attestation
\* points into host memory; each is NULL or a live enclave buffer.
SuccessFieldsInEnclave ==
  pc = "done" /\ retval >= 0 =>
    \A f \in FieldSet : field[f] = "null" \/ (field[f] = "enclave" /\ heap[f] = "live")

\* P8, failure: when a copy failed, no enclave buffer malloc'd by the call
\* is still allocated, and every genuine host blob was handed back to
\* ocall_munmap_untrusted.
NoLeakOnFailure ==
  pc = "done" /\ retval = EACCES =>
    /\ \A f \in FieldSet : heap[f] /= "live"
    /\ \A f \in FieldSet : blob[f] = "outside" => f \in unmapped

\* The NUL terminator ias_report[len] = 0 / ias_certs[len] = 0 is stored
\* inside the buffer malloc returned.
NoWildWrite == ~wild

=============================================================================
