------------------------------ MODULE Gateway -------------------------------
(***************************************************************************)
(* The OCALL wrappers of enclave_ocalls.c over the untrusted stack (USA)   *)
(* and the untrusted heap, for one enclave thread: the fixed-size template *)
(* (close, fstat, lseek, ...), the string wrappers (open, mkdir, delete,   *)
(* rename, load_debug), getdents, setsockopt, create_process, the thread   *)
(* OCALLs, the large-buffer fallback of ocall_read and ocall_write, and    *)
(* the nested ocall_mmap_untrusted / ocall_munmap_untrusted they call.     *)
(*                                                                         *)
(* Sizes are in abstract units: an argument struct takes MS units, the     *)
(* untrusted stack holds StackCap units, and buffers larger than StackBuf  *)
(* (MAX_UNTRUSTED_STACK_BUF) go to the untrusted heap.  The caller's       *)
(* buffer is classified as the boundary checker (BMC) does: entirely       *)
(* inside the enclave, entirely outside it, or straddling it.  The host is *)
(* untrusted: every value it returns is chosen freely.  Dispatch is        *)
(* one step here (ExitlessOcall models how it waits), but it takes its own *)
(* space on the untrusted stack when there is an RPC queue.                *)
(***************************************************************************)
EXTENDS Untrusted

CONSTANTS
  Ops,        \* wrappers the enclave calls, a subset of AllOps
  Counts,     \* buffer sizes the caller passes
  MaxCalls    \* bound on the OCALLs issued

\* Wrappers of the fixed-size template: ms, dispatch, reset, return.  cpuid
\* and fstat also copy a fixed struct out on retval == 0 (not tracked).
FixedOps == {"close", "fionread", "fsetnonblock", "fchmod", "fsync", "ftruncate",
             "lseek", "shutdown", "eventfd", "cpuid", "fstat"}
PathOps  == {"open", "mkdir", "delete"}   \* ms and one path string
ThreadOps == {"resume", "clone"}          \* sgx_exitless_ocall and nothing else

AllOps == FixedOps \cup PathOps \cup ThreadOps \cup
          {"read", "write", "futex", "gettime", "sleep", "poll", "exit",
           "getdents", "rename", "load_debug", "setsockopt", "create_process"}

ASSUME Ops \subseteq AllOps /\ Counts \subseteq Nat
ASSUME MaxCalls \in Nat

EINTR  == -4
EINVAL == -22

\* Values the host may return from the operation itself.
HostReturns(o, n) ==
  CASE o \in {"read", "write", "getdents"} -> {HOST_ERR, 0, 1, n, n + 1}
    [] o \in {"gettime", "sleep"} -> {EINTR, HOST_ERR, 0, 1}
    [] o = "poll"                 -> {HOST_ERR, 0, 1}
    [] OTHER                      -> {HOST_ERR, 0}

\* Wrappers whose caller buffer, source string or futex word is classified,
\* those where that pointer may be NULL, those that take a size (poll's
\* bytes, setsockopt's optlen, create_process's nargs), and those whose
\* count is the length of a string, strlen + 1.
StrOps     == PathOps \cup {"rename", "load_debug"}
Nullable   == PathOps \cup {"rename", "setsockopt", "create_process"}
Classified == StrOps \cup Nullable \cup {"read", "write", "futex", "poll", "getdents"}
Sized      == {"read", "write", "poll", "getdents", "setsockopt", "create_process"}
SrcClasses == Classes \cup {"null"}
\* The wrappers whose copy-back reads its source pointer from ms, which
\* the host may have rewritten while it held the call.
HostPtrOps == {"read", "getdents", "poll"}

VARIABLES
  pc,          \* position in the current wrapper
  op,          \* the wrapper being executed
  cls,         \* BMC class of the caller's buffer
  count,       \* caller's count
  obuf,        \* obuf: "none" (NULL), "caller" (the caller's own buffer) or "heap"
  msBuf,       \* where ms->ms_buf points: "none", "ustack", "caller" or "heap"
  n,           \* value the host returned for the operation
  ret,         \* the wrapper's return value
  copied,      \* bytes copied into the caller's enclave buffer by this call
  dispatched,  \* the host has executed this call's operation
  nullWrite,   \* the enclave has written through a NULL host pointer
  calls,
  rpc,         \* g_rpc_queue /= NULL, fixed at enclave initialisation
  cls2,        \* rename: class of newpath
  left,        \* create_process: arguments still to copy
  srcs,        \* classes of the enclave buffers copied to the host this call
  base,        \* untrusted-stack units in use when the OCALL began
  hsrc         \* BMC class of the ms pointer the copy-back reads (ms_buf,
               \* ms_dirp, ms_fds) after the host had ms to rewrite

vars == <<pc, op, cls, count, used, obuf, msBuf, n, ret, copied, dispatched,
          owned, nullWrite, calls, rpc, cls2, left, srcs, base, hsrc>>

\* What only Call and the wrappers that copy inputs or loop over arguments
\* change; g_rpc_queue is set once, before any OCALL.
argVars == <<rpc, cls2, left, srcs, base, hsrc>>

-----------------------------------------------------------------------------
(* Plausible faults of the wrappers, each the mutated form of the action  *)
(* of the same shape below.                                                *)

\* sgx_copy_to_enclave given retval as the destination capacity.
ReadCopyOutNoCapCheck ==
  /\ pc = "unmarshal" /\ op = "read"
  /\ IF n > 0
       THEN IF CopyToEnclaveOK(cls, n, hsrc, n)
              THEN /\ copied' = n /\ ret' = n
              ELSE /\ ret' = EPERM /\ UNCHANGED copied
       ELSE /\ ret' = n /\ UNCHANGED copied
  /\ pc' = "out"
  /\ UNCHANGED <<op, cls, count, used, obuf, msBuf, n, dispatched, owned,
                 nullWrite, calls, argVars>>

\* sgx_copy_to_enclave checking only the destination, trusting ms->ms_buf.
ReadCopyOutNoSrcCheck ==
  /\ pc = "unmarshal" /\ op = "read"
  /\ IF n > 0
       THEN IF CopyToEnclaveOK(cls, count, "outside", n)
              THEN /\ copied' = n /\ ret' = n
              ELSE /\ ret' = EPERM /\ UNCHANGED copied
       ELSE /\ ret' = n /\ UNCHANGED copied
  /\ pc' = "out"
  /\ UNCHANGED <<op, cls, count, used, obuf, msBuf, n, dispatched, owned,
                 nullWrite, calls, argVars>>

\* A failed copy-out returning -EPERM straight away, skipping "out".
ReadCopyOutReturns ==
  /\ pc = "unmarshal" /\ op = "read"
  /\ IF n > 0 /\ ~CopyToEnclaveOK(cls, count, hsrc, n)
       THEN /\ ret' = EPERM /\ used' = 0 /\ pc' = "idle" /\ UNCHANGED copied
       ELSE /\ IF n > 0 THEN copied' = n /\ ret' = n
                        ELSE ret' = n /\ UNCHANGED copied
            /\ pc' = "out" /\ UNCHANGED used
  /\ UNCHANGED <<op, cls, count, obuf, msBuf, n, dispatched, owned,
                 nullWrite, calls, argVars>>

\* ocall_write unmapping obuf without the obuf != buf test.
WriteOutUnmapsCaller ==
  /\ pc = "out" /\ op = "write"
  /\ IF obuf /= "none" THEN MunmapUntrusted ELSE used' = 0 /\ UNCHANGED owned
  /\ pc' = "idle"
  /\ UNCHANGED <<op, cls, count, obuf, msBuf, n, ret, copied, dispatched,
                 nullWrite, calls, argVars>>

\* ocall_poll's copy-back failure returning without sgx_reset_ustack.
PollEndNoResetOnFail ==
  /\ pc = "unmarshal" /\ op = "poll"
  /\ pc' = "idle"
  /\ IF n >= 0 /\ ~(CopyToEnclaveOK(cls, count, hsrc, count) /\ count > 0)
       THEN /\ ret' = EPERM /\ UNCHANGED <<copied, used>>
       ELSE /\ ret' = n /\ used' = 0
            /\ copied' = IF n >= 0 THEN count ELSE copied
  /\ UNCHANGED <<op, cls, count, obuf, msBuf, n, dispatched, nullWrite, calls, owned, argVars>>

-----------------------------------------------------------------------------
(* The wrappers                                                            *)

\* A new OCALL from the enclave: the caller picks its arguments.  A string
\* argument's count is strlen + 1, or 0 for a NULL pointer.
Call ==
  /\ pc = "idle"
  /\ calls < MaxCalls
  /\ \E o \in Ops :
     \E k \in (IF o \in Nullable THEN SrcClasses ELSE Classes), k2 \in SrcClasses,
       m \in Counts :
       /\ op' = o
       /\ cls' = IF o \in Classified THEN k ELSE "inside"
       /\ count' = CASE o \in Sized  -> m
                     [] o \in StrOps -> (IF k = "null" THEN 0 ELSE m + 1)
                     [] OTHER        -> 0
       /\ cls2' = IF o = "rename" THEN k2 ELSE "inside"
  /\ pc' = "begin"
  /\ calls' = calls + 1
  /\ obuf' = "none" /\ msBuf' = "none" /\ copied' = 0 /\ dispatched' = FALSE
  /\ left' = 0 /\ srcs' = {} /\ base' = used /\ hsrc' = "outside"
  /\ UNCHANGED <<used, n, ret, owned, nullWrite, rpc>>

\* The fixed-size template up to the dispatch: allocate ms or reset and
\* fail with -EPERM.
FixedBegin ==
  /\ pc = "begin"
  /\ IF CanAlloc(MS)
       THEN /\ used' = used + MS
            /\ pc' = "dispatch"
            /\ UNCHANGED ret
       ELSE /\ used' = 0
            /\ ret' = EPERM
            /\ pc' = "idle"
  /\ UNCHANGED <<op, cls, count, obuf, msBuf, n, copied, dispatched, owned,
                 nullWrite, calls, argVars>>

\* sgx_exitless_ocall (ocall_sleep uses sgx_ocall): the host runs the
\* operation; with an RPC queue the RD, and after a spin timeout the futex
\* arguments, are taken from the untrusted stack, unchecked.
Dispatch ==
  /\ pc = "dispatch"
  /\ \E v \in HostReturns(op, count), u \in ExitlessUsage(rpc /\ op /= "sleep") :
       /\ n' = v
       /\ used' = used + u.grow
       /\ nullWrite' = (nullWrite \/ u.null)
  /\ \E p \in (IF op \in HostPtrOps THEN Classes ELSE {"outside"}) : hsrc' = p
  /\ dispatched' = TRUE
  /\ pc' = "unmarshal"
  /\ UNCHANGED <<op, cls, count, obuf, msBuf, ret, copied, owned, calls,
                 rpc, cls2, left, srcs, base>>

\* The end of the template: reset the stack and return the host's result.
FixedEnd ==
  /\ pc = "unmarshal"
  /\ used' = 0
  /\ ret' = n
  /\ pc' = "idle"
  /\ UNCHANGED <<op, cls, count, obuf, msBuf, n, copied, dispatched, owned,
                 nullWrite, calls, argVars>>

OcallClose        == op = "close" /\ (FixedBegin \/ FixedEnd)
OcallFionread     == op = "fionread" /\ (FixedBegin \/ FixedEnd)
OcallFsetnonblock == op = "fsetnonblock" /\ (FixedBegin \/ FixedEnd)
OcallFchmod       == op = "fchmod" /\ (FixedBegin \/ FixedEnd)
OcallFsync        == op = "fsync" /\ (FixedBegin \/ FixedEnd)
OcallFtruncate    == op = "ftruncate" /\ (FixedBegin \/ FixedEnd)
OcallLseek        == op = "lseek" /\ (FixedBegin \/ FixedEnd)
OcallShutdown     == op = "shutdown" /\ (FixedBegin \/ FixedEnd)
OcallEventfd      == op = "eventfd" /\ (FixedBegin \/ FixedEnd)
OcallCpuid        == op = "cpuid" /\ (FixedBegin \/ FixedEnd)
OcallFstat        == op = "fstat" /\ (FixedBegin \/ FixedEnd)

\* ocall_read: a count above MAX_UNTRUSTED_STACK_BUF is read into a buffer
\* mapped on the untrusted heap first; an error return is passed on.
ReadBegin ==
  /\ pc = "begin" /\ op = "read"
  /\ IF count > StackBuf
       THEN \E m \in MmapUntrusted :
              /\ used' = 0
              /\ IF m.ret < 0
                   THEN /\ ret' = m.ret /\ pc' = "idle"
                        /\ UNCHANGED <<obuf, owned>>
                   ELSE /\ obuf' = IF m.mapped THEN "heap" ELSE "none"
                        /\ owned' = IF m.mapped THEN owned + 1 ELSE owned
                        /\ pc' = "marshal"
                        /\ UNCHANGED ret
       ELSE /\ pc' = "marshal"
            /\ UNCHANGED <<used, ret, obuf, owned>>
  /\ UNCHANGED <<op, cls, count, msBuf, n, copied, dispatched, nullWrite, calls, argVars>>

\* (Mutant) ms allocated before the large buffer is mapped: the nested
\* ocall_mmap_untrusted's sgx_reset_ustack releases it again.
ReadMarshalMmapLast ==
  /\ pc = "marshal" /\ op = "read"
  /\ IF ~CanAlloc(MS)
       THEN /\ ret' = EPERM /\ pc' = "out" /\ UNCHANGED <<used, msBuf>>
       ELSE IF obuf = "heap"
         THEN /\ used' = 0 /\ msBuf' = "heap" /\ pc' = "dispatch"
              /\ UNCHANGED ret
         ELSE IF CanAlloc(MS + count)
           THEN /\ used' = used + MS + count /\ msBuf' = "ustack"
                /\ pc' = "dispatch" /\ UNCHANGED ret
           ELSE /\ used' = used + MS /\ ret' = EPERM /\ pc' = "out"
                /\ UNCHANGED msBuf
  /\ UNCHANGED <<op, cls, count, obuf, n, copied, dispatched, owned, nullWrite, calls, argVars>>

\* ms and, without obuf, the read buffer on the untrusted stack.
ReadMarshal ==
  /\ pc = "marshal" /\ op = "read"
  /\ IF ~CanAlloc(MS)
       THEN /\ ret' = EPERM /\ pc' = "out" /\ UNCHANGED <<used, msBuf>>
       ELSE IF obuf = "heap"
         THEN /\ used' = used + MS /\ msBuf' = "heap" /\ pc' = "dispatch"
              /\ UNCHANGED ret
         ELSE IF CanAlloc(MS + count)
           THEN /\ used' = used + MS + count /\ msBuf' = "ustack"
                /\ pc' = "dispatch" /\ UNCHANGED ret
           ELSE /\ used' = used + MS /\ ret' = EPERM /\ pc' = "out"
                /\ UNCHANGED msBuf
  /\ UNCHANGED <<op, cls, count, obuf, n, copied, dispatched, owned, nullWrite, calls, argVars>>

ReadCopyOut ==
  /\ pc = "unmarshal" /\ op = "read"
  /\ IF n > 0
       THEN IF CopyToEnclaveOK(cls, count, hsrc, n)
              THEN /\ copied' = n /\ ret' = n
              ELSE /\ ret' = EPERM /\ UNCHANGED copied
       ELSE /\ ret' = n /\ UNCHANGED copied
  /\ pc' = "out"
  /\ UNCHANGED <<op, cls, count, used, obuf, msBuf, n, dispatched, owned,
                 nullWrite, calls, argVars>>

\* out: reset the untrusted stack, then unmap the heap buffer.
ReadOut ==
  /\ pc = "out" /\ op = "read"
  /\ IF obuf = "heap" THEN MunmapUntrusted ELSE used' = 0 /\ UNCHANGED owned
  /\ pc' = "idle"
  /\ UNCHANGED <<op, cls, count, obuf, msBuf, n, ret, copied, dispatched,
                 nullWrite, calls, argVars>>

\* ocall_write: a buffer outside the enclave is passed through, a large one
\* inside is copied to a heap buffer (memcpy(obuf, buf, count), whatever
\* obuf is), and a straddling one is refused with -EPERM.
WriteBegin ==
  /\ pc = "begin" /\ op = "write"
  /\ CASE cls = "outside" ->
            /\ obuf' = "caller" /\ pc' = "marshal"
            /\ UNCHANGED <<used, ret, owned, nullWrite>>
       [] cls = "inside" /\ count > StackBuf ->
            \E m \in MmapUntrusted :
              /\ used' = 0
              /\ IF m.ret < 0
                   THEN /\ ret' = m.ret /\ pc' = "idle"
                        /\ UNCHANGED <<obuf, owned, nullWrite>>
                   ELSE /\ obuf' = IF m.mapped THEN "heap" ELSE "none"
                        /\ owned' = IF m.mapped THEN owned + 1 ELSE owned
                        /\ nullWrite' = (nullWrite \/ ~m.mapped)
                        /\ pc' = "marshal"
                        /\ UNCHANGED ret
       [] cls = "inside" ->
            /\ pc' = "marshal"
            /\ UNCHANGED <<used, ret, obuf, owned, nullWrite>>
       [] OTHER ->
            /\ ret' = EPERM /\ pc' = "idle"
            /\ UNCHANGED <<used, obuf, owned, nullWrite>>
  /\ UNCHANGED <<op, cls, count, msBuf, n, copied, dispatched, calls, argVars>>

\* ms, and without obuf a copy of the buffer on the untrusted stack.
WriteMarshal ==
  /\ pc = "marshal" /\ op = "write"
  /\ IF ~CanAlloc(MS)
       THEN /\ ret' = EPERM /\ pc' = "out" /\ UNCHANGED <<used, msBuf>>
       ELSE IF obuf /= "none"
         THEN /\ used' = used + MS /\ msBuf' = obuf /\ pc' = "dispatch"
              /\ UNCHANGED ret
         ELSE IF CanAlloc(MS + count)
           THEN /\ used' = used + MS + count /\ msBuf' = "ustack"
                /\ pc' = "dispatch" /\ UNCHANGED ret
           ELSE /\ used' = used + MS /\ ret' = EPERM /\ pc' = "out"
                /\ UNCHANGED msBuf
  /\ UNCHANGED <<op, cls, count, obuf, n, copied, dispatched, owned, nullWrite, calls, argVars>>

\* retval = sgx_exitless_ocall(OCALL_WRITE, ms), returned as it is.
WriteEnd ==
  /\ pc = "unmarshal" /\ op = "write"
  /\ ret' = n
  /\ pc' = "out"
  /\ UNCHANGED <<op, cls, count, used, obuf, msBuf, n, copied, dispatched,
                 owned, nullWrite, calls, argVars>>

\* out: reset, then unmap obuf unless it is the caller's buffer.
WriteOut ==
  /\ pc = "out" /\ op = "write"
  /\ IF obuf = "heap" THEN MunmapUntrusted ELSE used' = 0 /\ UNCHANGED owned
  /\ pc' = "idle"
  /\ UNCHANGED <<op, cls, count, obuf, msBuf, n, ret, copied, dispatched,
                 nullWrite, calls, argVars>>

\* ocall_futex, lines 607-621: a futex word not entirely outside the
\* enclave is refused with -EINVAL; then ms or -EPERM.
FutexBegin ==
  /\ pc = "begin" /\ op = "futex"
  /\ IF cls /= "outside"
       THEN /\ used' = 0 /\ ret' = EINVAL /\ pc' = "idle"
       ELSE IF CanAlloc(MS)
         THEN /\ used' = used + MS /\ pc' = "dispatch" /\ UNCHANGED ret
         ELSE /\ used' = 0 /\ ret' = EPERM /\ pc' = "idle"
  /\ UNCHANGED <<op, cls, count, obuf, msBuf, n, copied, dispatched, nullWrite, calls, owned, argVars>>

\* ocall_gettime (986-990), ocall_sleep (1007-1013): ms or -EPERM.
GettimeBegin ==
  /\ pc = "begin" /\ op = "gettime"
  /\ IF CanAlloc(MS)
       THEN /\ used' = used + MS /\ pc' = "dispatch" /\ UNCHANGED ret
       ELSE /\ used' = 0 /\ ret' = EPERM /\ pc' = "idle"
  /\ UNCHANGED <<op, cls, count, obuf, msBuf, n, copied, dispatched, nullWrite, calls, owned, argVars>>

SleepBegin ==
  /\ pc = "begin" /\ op = "sleep"
  /\ IF CanAlloc(MS)
       THEN /\ used' = used + MS /\ pc' = "dispatch" /\ UNCHANGED ret
       ELSE /\ used' = 0 /\ ret' = EPERM /\ pc' = "idle"
  /\ UNCHANGED <<op, cls, count, obuf, msBuf, n, copied, dispatched, nullWrite, calls, owned, argVars>>

\* ocall_poll, lines 1030-1046: ms, then a copy of fds (count bytes) on
\* the untrusted stack; either failing is -EPERM.
PollBegin ==
  /\ pc = "begin" /\ op = "poll"
  /\ CASE ~CanAlloc(MS) ->
            /\ used' = 0 /\ ret' = EPERM /\ pc' = "idle" /\ UNCHANGED msBuf
       [] ~CanAlloc(MS + count) ->
            /\ used' = 0 /\ ret' = EPERM /\ pc' = "idle" /\ UNCHANGED msBuf
       [] OTHER ->
            /\ used' = used + MS + count /\ msBuf' = "ustack"
            /\ pc' = "dispatch" /\ UNCHANGED ret
  /\ UNCHANGED <<op, cls, count, obuf, n, copied, dispatched, nullWrite, calls, owned, argVars>>

\* ocall_futex, lines 623-626: reset and return the host's result.
FutexEnd ==
  /\ pc = "unmarshal" /\ op = "futex"
  /\ used' = 0 /\ ret' = n /\ pc' = "idle"
  /\ UNCHANGED <<op, cls, count, obuf, msBuf, n, copied, dispatched, nullWrite, calls, owned, argVars>>

\* (Mutant) ocall_gettime retrying on every error, not only -EINTR.
GettimeEndRetriesOnError ==
  /\ pc = "unmarshal" /\ op = "gettime"
  /\ IF n < 0
       THEN /\ pc' = "dispatch" /\ UNCHANGED <<used, ret>>
       ELSE /\ used' = 0 /\ ret' = n /\ pc' = "idle"
  /\ UNCHANGED <<op, cls, count, obuf, msBuf, n, copied, dispatched, nullWrite, calls, owned, argVars>>

\* ocall_gettime, lines 992-999: -EINTR repeats the OCALL on the same ms;
\* anything else resets and returns (microsec is stored only on 0).
GettimeEnd ==
  /\ pc = "unmarshal" /\ op = "gettime"
  /\ IF n = EINTR
       THEN /\ pc' = "dispatch" /\ UNCHANGED <<used, ret>>
       ELSE /\ used' = 0 /\ ret' = n /\ pc' = "idle"
  /\ UNCHANGED <<op, cls, count, obuf, msBuf, n, copied, dispatched, nullWrite, calls, owned, argVars>>

\* ocall_sleep, lines 1016-1025: the direct OCALL's result is returned;
\* microsec is zeroed on 0 and set to the host's remainder on -EINTR.
SleepEnd ==
  /\ pc = "unmarshal" /\ op = "sleep"
  /\ used' = 0 /\ ret' = n /\ pc' = "idle"
  /\ UNCHANGED <<op, cls, count, obuf, msBuf, n, copied, dispatched, nullWrite, calls, owned, argVars>>

\* ocall_poll, lines 1048-1058: on success copy fds back (a zero-byte or
\* rejected copy is -EPERM); every path resets.
PollEnd ==
  /\ pc = "unmarshal" /\ op = "poll"
  /\ used' = 0 /\ pc' = "idle"
  /\ IF n >= 0 /\ ~(CopyToEnclaveOK(cls, count, hsrc, count) /\ count > 0)
       THEN /\ ret' = EPERM /\ UNCHANGED copied
       ELSE /\ ret' = n
            /\ copied' = IF n >= 0 THEN count ELSE copied
  /\ UNCHANGED <<op, cls, count, obuf, msBuf, n, dispatched, nullWrite, calls, owned, argVars>>

\* ocall_exit, lines 110-112: ms is allocated without a NULL check and
\* written at once.
ExitBegin ==
  /\ pc = "begin" /\ op = "exit"
  /\ IF CanAlloc(MS) THEN used' = used + MS ELSE UNCHANGED used
  /\ nullWrite' = (nullWrite \/ ~CanAlloc(MS))
  /\ pc' = "exit"
  /\ UNCHANGED <<op, cls, count, obuf, msBuf, n, ret, copied, dispatched, calls, owned, argVars>>

\* ocall_exit, lines 118-120: sgx_ocall(OCALL_EXIT, ms) forever.  A host
\* that honours it ends the enclave thread; one that returns gets the
\* call again.
ExitLoop ==
  /\ pc = "exit"
  /\ \E honoured \in BOOLEAN : pc' = IF honoured THEN "exited" ELSE "exit"
  /\ dispatched' = TRUE
  /\ UNCHANGED <<op, cls, count, used, obuf, msBuf, n, ret, copied, nullWrite, calls, owned, argVars>>

\* The path wrappers (open, mkdir, delete): ms, then the path copied onto
\* the untrusted stack; a NULL ms or copy resets and fails with -EPERM.
PathBegin ==
  /\ pc = "begin"
  /\ IF CanAlloc(MS) /\ CopyToUstackOK(cls, MS, count)
       THEN /\ used' = used + MS + count /\ srcs' = {cls}
            /\ pc' = "dispatch" /\ UNCHANGED ret
       ELSE /\ used' = 0 /\ ret' = EPERM /\ pc' = "idle" /\ UNCHANGED srcs
  /\ UNCHANGED <<op, cls, count, obuf, msBuf, n, copied, dispatched, owned,
                 nullWrite, calls, rpc, cls2, left, base, hsrc>>

OcallOpen   == op = "open" /\ (PathBegin \/ FixedEnd)
OcallMkdir  == op = "mkdir" /\ (PathBegin \/ FixedEnd)
OcallDelete == op = "delete" /\ (PathBegin \/ FixedEnd)

\* (Mutant) ocall_rename testing only the copy of oldpath.
RenameChecksOldOnly ==
  /\ pc = "begin"
  /\ LET oldOK == CopyToUstackOK(cls, MS, count)
     IN IF CanAlloc(MS) /\ oldOK
          THEN /\ used' = used + MS + count /\ srcs' = {cls, cls2}
               /\ pc' = "dispatch" /\ UNCHANGED ret
          ELSE /\ used' = 0 /\ ret' = EPERM /\ pc' = "idle" /\ UNCHANGED srcs
  /\ UNCHANGED <<op, cls, count, obuf, msBuf, n, copied, dispatched, owned,
                 nullWrite, calls, rpc, cls2, left, base, hsrc>>

\* ocall_rename: ms, then both paths copied (newpath of length 1) before
\* the one check of the two results.
RenameBegin ==
  /\ pc = "begin"
  /\ LET oldOK == CopyToUstackOK(cls, MS, count)
         oldSz == IF oldOK THEN count ELSE 0
         newOK == CopyToUstackOK(cls2, MS + oldSz, 1)
     IN IF CanAlloc(MS) /\ oldOK /\ newOK
          THEN /\ used' = used + MS + count + 1 /\ srcs' = {cls, cls2}
               /\ pc' = "dispatch" /\ UNCHANGED ret
          ELSE /\ used' = 0 /\ ret' = EPERM /\ pc' = "idle" /\ UNCHANGED srcs
  /\ UNCHANGED <<op, cls, count, obuf, msBuf, n, copied, dispatched, owned,
                 nullWrite, calls, rpc, cls2, left, base, hsrc>>

OcallRename == op = "rename" /\ (RenameBegin \/ FixedEnd)

\* ocall_load_debug: no ms; the command string itself is the argument.
LoadDebugBegin ==
  /\ pc = "begin"
  /\ IF CopyToUstackOK(cls, 0, count)
       THEN /\ used' = used + count /\ srcs' = {cls}
            /\ pc' = "dispatch" /\ UNCHANGED ret
       ELSE /\ used' = 0 /\ ret' = EPERM /\ pc' = "idle" /\ UNCHANGED srcs
  /\ UNCHANGED <<op, cls, count, obuf, msBuf, n, copied, dispatched, owned,
                 nullWrite, calls, rpc, cls2, left, base, hsrc>>

OcallLoadDebug == op = "load_debug" /\ (LoadDebugBegin \/ FixedEnd)

\* ocall_getdents: ms and a size-byte directory buffer on the untrusted
\* stack (no heap fallback), either failing with -EPERM.
GetdentsBegin ==
  /\ pc = "begin"
  /\ IF CanAlloc(MS + count)
       THEN /\ used' = used + MS + count /\ msBuf' = "ustack"
            /\ pc' = "dispatch" /\ UNCHANGED ret
       ELSE /\ used' = 0 /\ ret' = EPERM /\ pc' = "idle" /\ UNCHANGED msBuf
  /\ UNCHANGED <<op, cls, count, obuf, n, copied, dispatched, owned, nullWrite,
                 calls, argVars>>

\* retval > 0: sgx_copy_to_enclave(dirp, size, ms_dirp, retval), -EPERM
\* when it copies nothing; every path resets.
GetdentsEnd ==
  /\ pc = "unmarshal"
  /\ IF n > 0
       THEN IF CopyToEnclaveOK(cls, count, hsrc, n)
              THEN /\ copied' = n /\ ret' = n
              ELSE /\ ret' = EPERM /\ UNCHANGED copied
       ELSE /\ ret' = n /\ UNCHANGED copied
  /\ used' = 0 /\ pc' = "idle"
  /\ UNCHANGED <<op, cls, count, obuf, msBuf, n, dispatched, owned, nullWrite,
                 calls, argVars>>

OcallGetdents == op = "getdents" /\ (GetdentsBegin \/ GetdentsEnd)

\* ocall_setsockopt: ms; optval is copied only when it is non-NULL and
\* optlen > 0, otherwise the host gets NULL and length 0.
SetsockoptBegin ==
  /\ pc = "begin"
  /\ LET copy == cls /= "null" /\ count > 0 IN
     CASE ~CanAlloc(MS) \/ (copy /\ ~CopyToUstackOK(cls, MS, count)) ->
            /\ used' = 0 /\ ret' = EPERM /\ pc' = "idle" /\ UNCHANGED srcs
       [] copy ->
            /\ used' = used + MS + count /\ srcs' = {cls}
            /\ pc' = "dispatch" /\ UNCHANGED ret
       [] OTHER ->
            /\ used' = used + MS /\ pc' = "dispatch" /\ UNCHANGED <<ret, srcs>>
  /\ UNCHANGED <<op, cls, count, obuf, msBuf, n, copied, dispatched, owned,
                 nullWrite, calls, rpc, cls2, left, base, hsrc>>

OcallSetsockopt == op = "setsockopt" /\ (SetsockoptBegin \/ FixedEnd)

\* ocall_create_process, lines 566-576: ms with room for nargs pointers,
\* then the uri unless it is NULL; either failing is -EPERM.
CreateProcessBegin ==
  /\ pc = "begin"
  /\ CASE ~CanAlloc(MS + count) \/ (cls /= "null" /\ ~CopyToUstackOK(cls, MS + count, 1)) ->
            /\ used' = 0 /\ ret' = EPERM /\ pc' = "idle" /\ UNCHANGED <<left, srcs>>
       [] cls /= "null" ->
            /\ used' = used + MS + count + 1 /\ srcs' = {cls}
            /\ left' = count /\ pc' = "args" /\ UNCHANGED ret
       [] OTHER ->
            /\ used' = used + MS + count /\ left' = count /\ pc' = "args"
            /\ UNCHANGED <<ret, srcs>>
  /\ UNCHANGED <<op, cls, count, obuf, msBuf, n, copied, dispatched, owned,
                 nullWrite, calls, rpc, cls2, base, hsrc>>

\* One iteration of the argument loop: a NULL args[i] stays NULL, any
\* other is copied (length 1) or the call resets and fails with -EPERM;
\* after the last one the OCALL is issued.
CreateProcessArg ==
  /\ pc = "args"
  /\ \/ /\ left = 0 /\ pc' = "dispatch"
        /\ UNCHANGED <<used, ret, left, srcs>>
     \/ /\ left > 0
        /\ \E k \in SrcClasses :
             CASE k = "null" ->
                    /\ left' = left - 1 /\ UNCHANGED <<used, ret, srcs, pc>>
               [] CopyToUstackOK(k, 0, 1) ->
                    /\ used' = used + 1 /\ srcs' = srcs \cup {k}
                    /\ left' = left - 1 /\ UNCHANGED <<ret, pc>>
               [] OTHER ->
                    /\ used' = 0 /\ ret' = EPERM /\ pc' = "idle"
                    /\ UNCHANGED <<left, srcs>>
  /\ UNCHANGED <<op, cls, count, obuf, msBuf, n, copied, dispatched, owned,
                 nullWrite, calls, rpc, cls2, base, hsrc>>

\* The pid and procfds are stored on retval == 0 (not tracked); reset.
OcallCreateProcess ==
  op = "create_process" /\ (CreateProcessBegin \/ CreateProcessArg \/ FixedEnd)

\* ocall_resume_thread and ocall_clone_thread return sgx_exitless_ocall's
\* result directly: no ms, and no sgx_reset_ustack.
ThreadBegin ==
  /\ pc = "begin" /\ pc' = "dispatch"
  /\ UNCHANGED <<op, cls, count, used, obuf, msBuf, n, ret, copied, dispatched,
                 owned, nullWrite, calls, argVars>>

ThreadEnd ==
  /\ pc = "unmarshal" /\ ret' = n /\ pc' = "idle"
  /\ UNCHANGED <<op, cls, count, used, obuf, msBuf, n, copied, dispatched,
                 owned, nullWrite, calls, argVars>>

OcallResumeThread == op = "resume" /\ (ThreadBegin \/ ThreadEnd)
OcallCloneThread  == op = "clone" /\ (ThreadBegin \/ ThreadEnd)

-----------------------------------------------------------------------------

Init ==
  /\ pc = "idle" /\ op = "close" /\ cls = "inside" /\ count = 0
  /\ used = 0 /\ obuf = "none" /\ msBuf = "none" /\ n = 0 /\ ret = 0
  /\ copied = 0 /\ dispatched = FALSE /\ owned = 0 /\ nullWrite = FALSE
  /\ calls = 0 /\ rpc \in BOOLEAN /\ cls2 = "inside" /\ left = 0 /\ srcs = {}
  /\ base = 0 /\ hsrc = "outside"

\* No further OCALL: the bound is reached or the enclave thread has exited.
Done == ((pc = "idle" /\ calls = MaxCalls) \/ pc = "exited") /\ UNCHANGED vars

Next ==
  \/ Call \/ Dispatch
  \/ OcallClose \/ OcallFionread \/ OcallFsetnonblock \/ OcallFchmod \/ OcallFsync
  \/ OcallFtruncate \/ OcallLseek \/ OcallShutdown \/ OcallEventfd
  \/ OcallCpuid \/ OcallFstat
  \/ OcallOpen \/ OcallMkdir \/ OcallDelete \/ OcallRename \/ OcallLoadDebug
  \/ OcallGetdents \/ OcallSetsockopt \/ OcallCreateProcess
  \/ OcallResumeThread \/ OcallCloneThread
  \/ ReadBegin \/ ReadMarshal \/ ReadCopyOut \/ ReadOut
  \/ WriteBegin \/ WriteMarshal \/ WriteEnd \/ WriteOut
  \/ FutexBegin \/ FutexEnd \/ GettimeBegin \/ GettimeEnd
  \/ SleepBegin \/ SleepEnd \/ PollBegin \/ PollEnd
  \/ ExitBegin \/ ExitLoop
  \/ Done

Spec == Init /\ [][Next]_vars

\* Every step of a wrapper already called: the enclave thread runs its
\* code to the end, and the host answers each OCALL.  A new OCALL is the
\* caller's choice and gets no fairness.
WrapperSteps == pc /= "idle" /\ Next

\* The host eventually answers gettime with something other than -EINTR;
\* a host that never does holds the thread in the retry loop (line 994).
HostAnswers == Dispatch /\ n' /= EINTR

FairSpec == Spec /\ WF_vars(WrapperSteps) /\ SF_vars(HostAnswers)

-----------------------------------------------------------------------------

TypeOK ==
  /\ pc \in {"idle", "begin", "marshal", "args", "dispatch", "unmarshal", "out",
            "exit", "exited"}
  /\ op \in AllOps /\ cls \in SrcClasses /\ cls2 \in SrcClasses /\ count \in Nat
  /\ used \in 0..StackCap
  /\ obuf \in {"none", "caller", "heap"}
  /\ msBuf \in {"none", "ustack", "caller", "heap"}
  /\ n \in Int /\ ret \in Int /\ copied \in Nat
  /\ dispatched \in BOOLEAN /\ owned \in Nat /\ nullWrite \in BOOLEAN
  /\ calls \in 0..MaxCalls /\ rpc \in BOOLEAN /\ left \in Nat /\ srcs \subseteq SrcClasses
  /\ base \in 0..StackCap /\ hsrc \in Classes

\* P3 (USA hygiene): whenever no OCALL is in progress, on every success
\* and error path of every wrapper and its nested OCALLs, the untrusted
\* stack is back at the top saved at enclave entry.
UstackReset == pc = "idle" => used = 0

\* What the wrappers that call sgx_reset_ustack do keep: no OCALL other
\* than resume_thread and clone_thread returns with the untrusted stack
\* lower than it found it, including an exitless one whose RD and futex
\* arguments sit on the stack and one retried on -EINTR.  (An early
\* return before any allocation, as for a straddling write, leaves it as
\* it was rather than at its top.)
WrappersResetUstack == pc = "idle" /\ op \notin ThreadOps => used <= base

\* Every host-heap buffer a wrapper obtained from ocall_mmap_untrusted has
\* been handed back with ocall_munmap_untrusted by the time it returns.
HeapReleased == pc = "idle" => owned = 0

\* A read or getdents that returns n > 0 has copied exactly n bytes, no more
\* than the caller's count, into a buffer inside the enclave, whatever the
\* host returned; any other return copied nothing.
CopyOutMatchesReturn ==
  pc = "idle" /\ op \in {"read", "getdents"} =>
    IF ret > 0 THEN copied = ret /\ ret <= count /\ cls = "inside"
               ELSE copied = 0

\* The enclave never stores through a NULL host pointer: after a
\* large-buffer fallback, the buffer it copies into is a real mapping.
NoNullWrite == ~nullWrite

\* P1 for inputs: whenever the host runs a wrapper, every enclave buffer
\* it was handed a copy of (a path, optval, uri or argument) lay entirely
\* inside the enclave; a NULL, outside or straddling source never gets a
\* copy through, since each sgx_copy_to_ustack result is checked.
InputsFromEnclave == dispatched => srcs \subseteq {"inside"}

\* The argument struct and the staged buffer the host reads stay allocated
\* on the untrusted stack from the dispatch until the results are read
\* back: no nested OCALL's sgx_reset_ustack (the heap mapping of read and
\* write, line 259) releases them under the host.
ArgsLive ==
  pc \in {"dispatch", "unmarshal"} =>
    /\ op \notin ThreadOps \cup {"load_debug"} => used >= MS
    /\ msBuf = "ustack" => used >= MS + count

\* The enclave copies results only out of host memory: whatever the host
\* wrote into ms->ms_buf, ms_dirp or ms_fds while it held the call, no
\* read, getdents or poll that copied bytes into the caller's buffer took
\* them from a source inside (or straddling) the enclave.
CopiesFromHost == copied > 0 => hsrc = "outside"

\* Every OCALL other than ocall_exit returns to its caller: no wrapper path
\* loops or blocks, ocall_gettime included once the host stops answering
\* -EINTR.
WrapperReturns == (pc = "begin" /\ op /= "exit") ~> (pc = "idle")

=============================================================================
