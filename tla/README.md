# TLA+ models of the SGX OCALL gateway (enclave_ocalls.c)

This directory holds TLA+ models of the trusted-to-untrusted call (OCALL)
layer of the Linux-SGX PAL, `src/Pal/src/host/Linux-SGX/enclave_ocalls.c`.
It also holds the TLC configurations that check them. Each module is written
from the C source. The code that file calls but that is not in this
repository's `src/` is modelled from `spec.md` and marked `spec_modelled` in
`PROJECT.json`. That covers the spinlock primitives (`spinlock.h`), the RPC
queue (`rpcqueue.h`), the untrusted-stack allocator and the boundary checker
(`sgx_copy_to_enclave` and friends), and the untrusted RPC worker loop.

## 1. Inventory

### Components and their state

| Component | Where | State it keeps | Operations |
|---|---|---|---|
| Untrusted-stack allocator (USA) | `sgx_alloc_on_ustack*`, `sgx_reset_ustack`, `sgx_copy_to_ustack` (outside src/) | per-thread bump pointer into host stack, reset to the top saved at enclave entry | alloc, alloc_aligned, copy-to-ustack, reset |
| Boundary memory checker (BMC) | `sgx_is_completely_{within,outside}_enclave`, `sgx_copy_to_enclave`, `sgx_copy_ptr_to_enclave` (outside src/) | none (pure predicates over the fixed enclave range) | classify, checked copy |
| Cross-boundary lock (XBL) | `spinlock_*` (outside src/), used in `sgx_exitless_ocall` | 32-bit word in the RD: UNLOCKED / LOCKED_NO_WAITERS / LOCKED_WITH_WAITERS | init, lock, lock_timeout (spin), cmpxchg, unlock (worker), futex wait/wake |
| Exitless RPC queue (ERQ) | `rpc_enqueue` / `rpc_dequeue` (outside src/), `g_rpc_queue` | bounded ring of RD pointers in host memory; `g_rpc_queue` set once | enqueue (NULL when full), dequeue |
| RPC workers | untrusted runtime (outside src/) | the RD being served | dequeue, run handler, store result, unlock, futex wake |
| Exitless dispatch | `sgx_exitless_ocall` (lines 29-104) | RD `{ocall_index, buffer, lock, result}` on the caller's untrusted stack, local `c` | direct fallback, enqueue, spin, Mutex-2 futex wait loop |
| OCALL wrappers | `ocall_*` (lines 106-1247) | `ms` argument struct on the USA, optional host-heap `obuf` | marshal inputs, dispatch, validate and copy outputs, reset, unmap |
| Attestation copy-in | `ocall_get_attestation` (1143-1227) | four host blobs, four enclave mallocs | copy struct, copy each blob, unmap, free on failure |
| Socket data | `ocall_recv`, `ocall_send` (798-925) | data, address and control buffers on the USA or host heap | threshold test, marshal, dispatch, copy back address, control, data |
| Socket set-up | `ocall_listen`, `ocall_accept`, `ocall_connect`, `ocall_socketpair` (629-796) | address copies on the USA, host-created descriptors | marshal, dispatch, copy back address length / descriptors |
| Crypto façade | `src/Pal/include/lib/pal_crypto.h` | declarations only | out of scope |
| Manifests / container | `mmap-file.manifest.template`, `src/unnamed/part_000` | configuration | none |

### How they interact

An enclave thread calls a wrapper. The wrapper allocates `ms` on its USA and
copies inputs there. Large buffers are instead mapped on the untrusted heap
by a nested `ocall_mmap_untrusted`. The wrapper then calls
`sgx_exitless_ocall`. Without a queue, that function exits the enclave
(`sgx_ocall`). With a queue, it places an RD on the same USA, locks the RD,
and enqueues it. A full queue falls back to the enclave exit. An untrusted
worker dequeues the RD, runs the handler, stores `result` and unlocks. It
wakes the futex if the enclave marked the lock WITH_WAITERS.

The enclave thread spins `RPC_SPINLOCK_TIMEOUT` times on the lock. After
that it sleeps in a futex wait, which is itself a direct OCALL. Back in the
wrapper, outputs are validated and copied into the enclave through the BMC.
The USA is reset, and any heap buffer is unmapped with a nested
`ocall_munmap_untrusted`, which allocates on and resets the same USA.

Shared state crosses the trust boundary in three places:
- the RD's lock and result words, written by both sides;
- the queue;
- the `ms` structs, which the host may rewrite at will.

### What is hard

- **Interleaving** of the enclave thread and a worker on the lock word: spin
  timeout, promotion to WITH_WAITERS, futex compare-and-sleep, wake,
  spurious wake-ups (lines 57-99).
- **Reuse of the RD address**: every OCALL of a thread puts its RD at the same
  untrusted-stack address, and `req->result` is never initialised.
- **Partial failure**: the futex wait can fail (line 92), nested mmap/munmap
  calls can fail, and copies back can fail after the host already acted.
- **Hostile host**: every value the host returns, including positive "errors",
  lengths larger than asked, and pointers, must be treated as adversarial.
- **Resource bounds**: queue full, untrusted stack exhausted (several
  allocations are not checked for NULL), buffers above
  `MAX_UNTRUSTED_STACK_BUF`.
- **Numeric edges**: unsigned sums of lengths, `len + 1`, and a zero returned
  length read as failure.

### What makes each component correct

- XBL / exitless dispatch:
  - the result returned is the one the worker wrote for this call (P5);
  - no RD is aliased by a worker after its OCALL returned;
  - every OCALL returns (P4).
- ERQ: a full queue falls back to a direct OCALL (P6), and no request is lost.
- USA: reset on every path (P3), and never reset under an allocation still in use.
- Wrappers:
  - straddling buffers are rejected before the host acts (P1);
  - copied lengths are clamped (P2);
  - every heap buffer is unmapped;
  - return values are consistent with what was copied.
- Attestation:
  - on success no field points to host memory;
  - on failure nothing leaks (P8);
  - no write outside an allocation.
- Exit: never returns (P7). The `for (;;)` at 118-120 gives this by its shape,
  so no property restates it.

## 2. Plan

Modules, in order of importance. Each module has an `MC*.tla` instance and one
`.cfg` per run.

1. **ExitlessOcall** (done): the enclave side of `sgx_exitless_ocall` and the
   worker loop. Threads × workers × bounded queue, with a well-behaved or
   failing futex.
2. **Untrusted** (done): the USA counter, the BMC copy predicate and the
   nested `ocall_mmap_untrusted` / `ocall_munmap_untrusted`, shared by the
   wrapper modules below.
3. **Gateway** (done): every wrapper outside the socket and attestation
   modules. That covers the fixed-size template (close, fionread,
   fsetnonblock, fchmod, fsync, ftruncate, lseek, shutdown, eventfd, cpuid
   and fstat), the path wrappers (open, mkdir, delete), rename, load_debug,
   getdents, setsockopt, create_process, the thread OCALLs, read, write,
   futex, gettime, sleep, poll and exit.
4. **SocketIO** (done): `recv` and `send`.
5. **SocketAddr** (done): `listen`, `accept`, `connect`, `socketpair`.
6. **Attestation** (done): `ocall_get_attestation`.
7. **Exitless stack usage** (done inside Gateway): every dispatch takes the
   RD and, after a spin timeout, the futex arguments from the same USA, using
   `ExitlessUsage` of Untrusted. A full composition with ExitlessOcall's lock
   protocol is not built, because the two questions are independent: the lock
   protocol does not depend on the stack depth, and the stack depth depends
   only on whether the spin timed out.
8. **OcallService** (done): the abstract service. ExitlessOcall refines it
   through `INSTANCE ... WITH`, and `ASpec` is checked as a PROPERTY under
   the well-behaved futex.
9. **BMC** (done as contracts in Untrusted): every BMC operation the code
   calls, over abstract regions. A range-arithmetic module is not built,
   because the BMC's code is not in this repository and the spec gives only
   the contracts.

The project has at most twelve runs, and all twelve are used. Several divergences
found while modelling are therefore recorded as hazards with a note (section
5) rather than as runs of their own.

## 3. Modules

### ExitlessOcall.tla (`sgx_exitless_ocall` and the RPC worker)

| Variable | Code |
|---|---|
| `pc[t]` | position of enclave thread `t` in `sgx_exitless_ocall` |
| `calls[t]` | number of the current OCALL (ghost, bounded by `MaxCalls`) |
| `spins[t]` | iterations left of `spinlock_lock_timeout` |
| `c[t]` | the local `c` |
| `lock[t]`, `result[t]` | `req->lock` and `req->result` at thread `t`'s untrusted-stack slot. The slot is the same for every call, because the stack is reset after each OCALL. `result` starts as any value (uninitialised host memory). |
| `resultFor[t]` | ghost: which OCALL's handler wrote `result[t]` |
| `queue` | the RDs enqueued and not yet dequeued |
| `wpc[w]`, `wreq[w]` | worker `w`'s loop position and the RD it holds |

| Action | Code |
|---|---|
| `StartOcall` | lines 29-45: choose the path on `g_rpc_queue`, allocate the RD, take its lock |
| `Enqueue` | 47-54: a full queue goes to `DirectOcall` |
| `Spin` | one `spinlock_lock_timeout` iteration (line 57) |
| `TimedOut` | 66-74 |
| `Promote` | 81-86: the WITH_WAITERS shortcut or the cmpxchg |
| `FutexWait` | 88-91: the host kernel's compare-and-sleep |
| `FutexFail` | 92-93: return -EPERM |
| `SpuriousWake` | a futex wait returning 0 with no wake |
| `Recheck` | 95-96 |
| `Return` | 103 |
| `Dequeue`, `Execute`, `Unlock`, `Wake` | the worker (spec §4.3 step 2) |

**Fairness.** Enclave threads and workers are OS threads, so each gets weak
fairness on its own steps. A sleeping thread has no enabled step of its own
and is woken only by a worker's `Wake`. Spurious wake-ups and futex failures
are possible but not promised, so they get no fairness.

### OcallService.tla (what an OCALL promises) and its refinement

`OcallService` gives each thread three things: `st` ("idle", "pending" or
"served"), the result word `res` and the count `ocalls`. Its actions are:

- `Start` issues a call.
- `Serve` runs the host handler once and stores its result.
- `Return` reads the result of a served call.
- `Fallback` completes the call by the direct OCALL.
- `Fail` returns -EPERM.

Weak fairness on `Progress` (Serve, Return or Fallback) says that an issued
call completes.

ExitlessOcall ends with the refinement mapping `ServiceState`:

- `pc = "idle"` maps to "idle".
- A call whose handler has written the result word (`resultFor = calls`)
  maps to "served".
- Anything else maps to "pending".

`res` is the RD's result word and `ocalls` is `calls`. Most concrete steps
are abstract stutters: enqueue, spin, promote, futex, dequeue, unlock and
wake. `Execute` is `Serve`, `Return` is `Return`, and `DirectOcall` is
`Fallback`.

The mapping fails under a hostile futex. The `exitless_futex_fail` run
shows why: a worker's `Execute` for an abandoned call changes the result
word of an idle thread, and the abstract service has no step that does
that.

### Gateway.tla (wrappers, USA, host heap)

This module models one enclave thread; the USA is per thread. Sizes are
abstract units:
- `MS` is the size of an argument struct;
- `StackCap` is the untrusted-stack space;
- `StackBuf` is `MAX_UNTRUSTED_STACK_BUF`.

The caller's buffer class (inside, outside or straddle) and count are chosen
per call. The host picks every return value freely. That includes a positive
`mmap_untrusted` result, a pointer that `sgx_copy_ptr_to_enclave` rejects,
and a length of `count + 1`. `MmapUntrusted` and `MunmapUntrusted` model the
nested OCALLs, including their own allocation and reset. Each wrapper is
split at the points where the code calls out: begin (with nested mmap),
marshal, dispatch, copy-out, and out (reset, then nested munmap). Ghost
variables record:
- `rpc`: whether `g_rpc_queue` is set (chosen at Init, as it is set once);
- `hsrc`: the BMC class of `ms_buf`, `ms_dirp` or `ms_fds` as the host left
  it, read by the copy-back of read, getdents and poll;
- `base`: the stack depth when the current wrapper started, so that "the
  wrapper released what it took" can be stated even when an earlier OCALL
  leaked;
- `cls2`, `left`, `srcs`: rename's second path, create_process's arguments
  still to copy, and the classes of every input the wrapper copied to the
  stack;
- the bytes copied into the caller's buffer;
- whether the host ran the operation;
- the heap buffers owned;
- whether the enclave wrote through a NULL host pointer.

The wrappers that share a shape share a template. Each wrapper is still an
action of its own, named after the C function (`OcallClose`, `OcallOpen`, ...,
`OcallCloneThread`), so that every wrapper appears in the state graph:
- `FixedBegin`/`FixedEnd`: allocate `ms` or return -EPERM; dispatch; reset;
  return the host's value.
- `PathBegin`: the path is copied with `sgx_copy_to_ustack`. It fails for a
  NULL path, for one not entirely inside the enclave, or for a full stack.
- `RenameBegin`: both paths are copied before one combined check.
- `GetdentsBegin`/`GetdentsEnd`: the stack buffer for the entries, and the
  copy back of `retval` bytes only when `retval > 0`.
- `SetsockoptBegin`: the option value is copied only when it is non-NULL and
  its length is non-zero.
- `CreateProcessBegin`/`CreateProcessArg`: one step per argument. A NULL
  argument is skipped, and a failed copy returns -EPERM.
- `ThreadBegin`/`ThreadEnd`: resume_thread and clone_thread return without
  resetting the stack.

`Dispatch` adds to `used` the RD and, after a spin timeout, the futex
arguments that `sgx_exitless_ocall` allocates when there is an RPC queue. A
NULL from either allocation sets `nullWrite`.

**Fairness.** `FairSpec` gives weak fairness to `WrapperSteps`, every
step taken while a wrapper is running. The enclave thread executes its own
code, and the host is assumed to answer each OCALL. No fairness goes to
`Call`: a new OCALL is the caller's choice. `HostAnswers` gets strong
fairness: the host eventually answers `ocall_gettime` with something other
than -EINTR. Nothing in the code forces a host to do that. A host that
never does holds the thread in the retry loop (hazard at line 992), and
`WrapperReturns` excludes that case by assumption.

### Untrusted.tla (shared by the wrapper modules)

`used` is the thread's USA depth and `owned` the host-heap buffers it holds.
`CanAlloc` is `sgx_alloc_on_ustack`'s NULL test, `CopyToEnclaveOK` is
`sgx_copy_to_enclave`'s contract from spec §4.1: the destination is
inside, the source is outside, and the length is within capacity. A
zero-length copy reads as failure at the call sites. The source is the
pointer the wrapper reads back from `ms` after the call. The host can
rewrite that pointer, so in Gateway (`hsrc`) and in SocketIO (`hBad`) it is
the host's choice.
`MmapUntrusted` is the set of outcomes of the nested mmap, including a
positive return that `IS_ERR` does not catch; `MunmapUntrusted` releases one
buffer and resets the stack, as the nested OCALL does.
`CopyToUstackOK` is `sgx_copy_to_ustack`'s contract from the spec.
`RdAlloc`, `FutexAlloc` and `ExitlessUsage` are the two unchecked
allocations of `sgx_exitless_ocall` (lines 37 and 76).

### Gateway.tla, further wrappers

`FutexBegin`/`FutexEnd` (603-626) refuse a futex word not entirely outside
the enclave. `GettimeEnd` repeats the dispatch while the host answers
-EINTR (992-994). `SleepBegin`/`SleepEnd` are the direct OCALL with its
write-back. `PollBegin`/`PollEnd` copy the `fds` array to the stack and back,
with the early -EPERM return at 1051-1053. `ExitBegin`/`ExitLoop` (106-120)
allocate `ms` without a NULL check and loop on `sgx_ocall(OCALL_EXIT)`; a host
that honours the call ends the thread (`pc = "exited"`).

### SocketIO.tla (`ocall_recv`, `ocall_send`)

The call picks the data class and count and optional address and control
buffers with their lengths. `StagedTotal` evaluates the heap threshold as the
C does: `count + addrlen` in `unsigned int` (width `UIntWidth`), then widened
and added to the 64-bit `controllen`. `MarshalArgs` lays out `ms`, address,
control and data on the stack in code order; the control allocation's NULL is
not checked (line 832). `RecvUnmarshal` copies back address, control and data
in that order, each failure returning -EPERM. Host lengths are 0, the
requested length, or one more. `hBad` is the set of ms pointers (address,
control, data) that the host redirected into the enclave.

### SocketAddr.tla (`listen`, `accept`, `connect`, `socketpair`)

`MarshalArgs` allocates `ms` and copies the addresses onto the stack
(`InSize`); `Dispatch` lets the host succeed (creating one descriptor, two
for socketpair), fail, or return an unexpected positive value, and rewrite
the address length to any member of the constant `HostLens(len)`: a hostile
host in `sockaddr_core` (0, `len` or `len + 1`), and in `sockaddr_orphan`
what Linux `accept(2)` reports (`len`, or the full length `len + 1` of a
truncated peer address). `UnmarshalResults` is the copy-back with its early
-EPERM return. `opened` counts the descriptors the host created for the call.
The address copy-back's source is taken to be outside the enclave. The
rewritten-pointer case is checked in Gateway and SocketIO.

### Attestation.tla (`ocall_get_attestation`)

`CopyBlock(f)` is one of the four field blocks at 1174-1210; `CopyField`
runs them in order. Lengths range over all of `size_t` at width `Width`, so
`AllocSize` wraps `len + 1` at `SIZE_MAX`; malloc may fail when
`MallocMayFail`. `wild` records a NUL store outside the malloc'd buffer;
`heap`, `field`, `blob` and `unmapped` record what the enclave allocated,
what `*attestation` points to, what the host handed over and what was
unmapped. `Init` lets the untrusted stack already be in use on entry (as
after a thread OCALL that left its RD on it, 549-558), so the NULL `ms` path
at 1151 is reached.

## 4. Runs

| Run | Config | Expect | What it shows |
|---|---|---|---|
| exitless_core | ExitlessOcall.cfg | pass | 2 threads, 2 workers, queue 1, spin 2, 2 calls each (≈1.2M states, about 2 minutes). Both threads' RDs can be in service at once. Checks `FreshResult` (P5), `NoAliasAfterReturn` and `OcallReturns` (P4). The queue overflows, so both the direct and the exitless paths occur, as do the spin-timeout race, promotion, EAGAIN and spurious wake-ups. |
| exitless_hostile | ExitlessHostile.cfg | pass | Bounds of exitless_core with one worker, but the futex OCALL may fail. Every OCALL still returns. |
| exitless_refines | ExitlessRefines.cfg | pass | Bounds of exitless_core with one worker (≈179k states). Checks `ImplementsService == Service!ASpec`: safety and the abstract fairness under the refinement mapping. |
| exitless_futex_fail | ExitlessFutexFail.cfg | violation | `FreshResult` fails in 14 steps. The futex OCALL fails, so the thread returns -EPERM while the RD is still queued. Its next OCALL puts the RD at the same address. The worker serves the old request, unlocks the new RD, and the new OCALL returns the old result. |
| gateway_core | Gateway.cfg | pass | 3 calls over all 28 Gateway wrappers, with and without an RPC queue. Counts are 0-3, with `StackBuf` 2 and `StackCap` 4 (138,906 states). Checks `WrappersResetUstack` (P3: every wrapper other than the thread OCALLs returns with the stack at or below its starting depth), `HeapReleased`, `CopyOutMatchesReturn` (read and getdents), `InputsFromEnclave` (nothing reaches the host from a NULL, outside or straddling input), `ArgsLive` (ms and the staged buffer stay allocated while the host uses them, the ordering of line 259), `CopiesFromHost` (whatever the host wrote into ms, no bytes were copied from a source inside the enclave), and the liveness property `WrapperReturns` (every OCALL but exit returns) under `FairSpec`. |
| gateway_null_write | GwNoNullWrite.cfg | violation | A positive `mmap_untrusted` return makes `ocall_write` `memcpy` through NULL (line 315); `ocall_send` has the same code at 886-889. The same property also fails through the unchecked RD allocation (line 37), once resume_thread leaks or gettime's -EINTR retries pile up RDs.No run of the project isolates that second route; the trace TLC reports is the write case. |
| gateway_ustack_leak | GwUstackLeak.cfg | violation | With an RPC queue, `ocall_resume_thread` returns with its RD still on the untrusted stack (line 551), against spec I2. |
| socket_core | SocketIO.cfg | pass | 2 calls of recv/send, counts {0,1,3,7}, lengths {0,1,2}, 3-bit `unsigned int`, `StackBuf` 2, `StackCap` 5 (≈425k states). Checks `UstackReset`, `HeapReleased`, `RecvOutputsBounded` (spec §4.5 recv), and `RecvCopiesFromHost` (a successful recv copied none of its outputs through an ms pointer the host redirected into the enclave). |
| sockaddr_core | SocketAddr.cfg | pass | 2 calls of the four set-up wrappers, lengths {0,1,2}, `StackCap` 3 so that an address copy can exhaust the stack. Checks `AddrLenBounded` and `UstackReset`. |
| sockaddr_orphan | SockOrphan.cfg | violation | Only `accept`, caller length 1, and a host that answers as Linux `accept(2)` does. An accepted peer address longer than the buffer is truncated by the kernel and its full length reported. The copy-back then fails, and the wrapper returns -EPERM while the new descriptor stays open on the host. listen and connect share the code but reach it only through a host that misreports the length. |
| attestation_core | Attestation.cfg | pass | 2-bit `size_t`, malloc may fail, the stack may be in use on entry. Checks `TypeOK`, `SuccessFieldsInEnclave` and `NoLeakOnFailure` (P8). |
| attestation_wild_write | AttWildWrite.cfg | violation | With malloc never failing, a host `ias_report_len` of `SIZE_MAX` makes `malloc(len + 1)` a zero-byte allocation and `ias_report[len] = 0` stores below it (line 1189). |

**Bounds.**
- Two threads and a one-slot queue are the smallest setting in which the
  queue can be full while another thread takes the exitless path. In
  exitless_core, two workers let both threads' RDs be served at once. The
  hostile, refinement and futex-failure runs keep one worker to stay within
  their time budget.
- Two calls per thread are needed for the RD-address reuse.
- A spin bound of 2 lets the worker finish either during the spin or after it.
- Counts 0-3 with `StackBuf` 2 cover the empty buffer, the stack buffer, and
  the heap fallback. A `StackCap` of 4 keeps the code's 1/4 ratio.
- In SocketIO, count 7 with a 3-bit `unsigned int` and address length 1 makes
  `count + addrlen` wrap to 0, the case of line 809. `StackCap` 5 is below
  the wrapped count, as a real untrusted stack is far below 2^32, so the
  wrapped case fails its stack allocation with -EPERM as it would in the
  program.
- In Attestation a 2-bit `size_t` lets the host pick every length including
  `SIZE_MAX`; four fields with three pointer kinds each are enumerated.

Each property has a mutant in `PROJECT.json`: a plausible fault of the mapped
code that TLC must catch.

## 5. Findings

The five runs marked "violation" are findings, listed with their source
lines in `PROJECT.json` under `findings`. Divergences met while modelling
that have no run of their own (hazards with a note in `PROJECT.json`):
- `ocall_read` (283) lets the host read into the staging buffer for a
  straddling destination and rejects it only afterwards. P1 asks for no
  host effect, as `ocall_write` gives at 319.
- `ocall_read` (286) rejects a host length above `count` with -EPERM where
  spec P2 and §4.5 ask for clipping; listen/accept/connect (686) likewise
  reject an over-long address where §4.5 asks for clamping.
- `ocall_write` (340) returns the host's byte count unchecked, and
  `ocall_sleep` (1021) writes back the host's remaining time unchecked.
- `ocall_poll` with `nfds == 0` (1050): the host waits, then the copy back
  of 0 bytes reads as failure and the call returns -EPERM.
- `ocall_socketpair` (647) stores the descriptors only when the host
  returned 0 but passes positive returns on as success.
- `ocall_send` (886-889) has the NULL `memcpy` of `ocall_write`.

## 6. Not modelled, and why

- **Memory ordering.** Lock and result are modelled sequentially consistent.
  The code relies on release/acquire; that ordering is reflected only in the
  worker storing `result` before unlocking.
- **The ring indices of the RPC queue.** The queue is a bounded set; the spec
  requires no FIFO order between threads. The spec gives no slot protocol for the lock-free
  ring beyond "enqueue returns NULL iff full", so a ring model would be
  invention rather than translation.
- **Out-parameter values** of gettime, sleep and the socket options: the
  model tracks whether they are written, not what they hold.
- **Fixed out-structures** (the `stat` of fstat, cpuid's four words,
  create_process' pid and descriptors): they are copied when the host returns
  0, and the model does not track their values.
- **Alignment** of `sgx_alloc_on_ustack_aligned`: all allocations are whole
  units. The allocator is not in this repository, and the spec says only
  "at least 4 bytes". This is why the USA and the ERQ stay "partly" modelled.
- **BMC address arithmetic.** Regions are classes (inside, outside,
  straddle, NULL), not address ranges. The checker's code is not in this
  repository, so an overflow in its range test cannot be translated.
- **Crypto façade and manifests.** These are declarations and configuration
  with no behaviour.

Every state-changing function of `enclave_ocalls.c` is an action of some
module. The lines the map leaves out are comments, blank lines,
declarations and closing braces. `pal_crypto.h` holds only declarations.
What is left above would have to be modelled from code that is not in this
repository, so it is left out rather than invented.
