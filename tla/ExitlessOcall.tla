--------------------------- MODULE ExitlessOcall ----------------------------
(***************************************************************************)
(* The exitless OCALL path of enclave_ocalls.c (sgx_exitless_ocall) and    *)
(* the untrusted RPC workers that serve it.                                *)
(*                                                                         *)
(* An enclave thread builds a request descriptor (RD) on its untrusted     *)
(* stack, takes the RD's three-state lock, enqueues the RD into the RPC    *)
(* queue and waits for a worker to release the lock: first by spinning a   *)
(* bounded number of times, then by "Mutex 2" of Futexes are Tricky, with  *)
(* the futex wait issued as a direct OCALL to the host.  A full queue, or  *)
(* no queue at all, sends the call down the direct (enclave-exit) path.   *)
(*                                                                         *)
(* The untrusted stack is reset when the OCALL returns, so every OCALL of  *)
(* a thread places its RD at the same host address: lock[t] and result[t] *)
(* are the words at that address, shared by all calls of thread t.        *)
(***************************************************************************)
EXTENDS Integers, FiniteSets

CONSTANTS
  Threads,        \* enclave threads issuing OCALLs
  Workers,        \* untrusted RPC worker threads
  QueueSize,      \* capacity of the RPC queue
  SpinBound,      \* RPC_SPINLOCK_TIMEOUT: iterations of the spin phase
  MaxCalls,       \* bound on the OCALLs one thread issues
  Results,        \* values a host handler may return
  Exitless,       \* g_rpc_queue /= NULL
  FutexMayFail    \* the host may fail OCALL_FUTEX with an error other than EAGAIN

ASSUME QueueSize \in Nat \ {0} /\ SpinBound \in Nat \ {0} /\ MaxCalls \in Nat
ASSUME Exitless \in BOOLEAN /\ FutexMayFail \in BOOLEAN

\* Lock word values (spinlock.h)
UNLOCKED     == 0
NO_WAITERS   == 1
WITH_WAITERS == 2
LockStates   == {UNLOCKED, NO_WAITERS, WITH_WAITERS}

NoReq == [thr |-> "none", call |-> 0]
Requests == [thr : Threads, call : 1..MaxCalls]

VARIABLES
  pc,         \* enclave thread: position in the OCALL
  calls,      \* enclave thread: number of the current (or last) OCALL
  spins,      \* enclave thread: spin iterations left
  c,          \* enclave thread: local variable c of sgx_exitless_ocall
  lock,       \* RD lock word at thread t's untrusted-stack slot
  result,     \* RD result word at thread t's untrusted-stack slot
  resultFor,  \* ghost: the OCALL whose handler wrote result[t]
  queue,      \* RPC queue: the RDs enqueued and not yet dequeued
  wpc,        \* worker: position in its loop
  wreq        \* worker: the RD it dequeued

vars == <<pc, calls, spins, c, lock, result, resultFor, queue, wpc, wreq>>

ThreadStates == {"idle", "enqueue", "direct", "spin", "timedout", "promote",
                 "futex", "waiting", "recheck", "acquired"}
WorkerStates == {"idle", "exec", "unlock", "wake"}

\* An RD a worker is still reading or writing (before its unlock).
Owns(w, t) == wpc[w] \in {"exec", "unlock"} /\ wreq[w].thr = t

\* The thread is inside the exitless wait for its current OCALL.
ExitlessWaiting(t) ==
  pc[t] \in {"spin", "timedout", "promote", "futex", "waiting", "recheck"}

-----------------------------------------------------------------------------
(* Plausible faults of the enclave-side code, each the mutated form of the *)
(* action of the same shape below.                                         *)

\* spinlock_lock_timeout counting one iteration too many.
SpinOffByOne(t) ==
  /\ pc[t] = "spin"
  /\ IF lock[t] = UNLOCKED
       THEN /\ lock' = [lock EXCEPT ![t] = NO_WAITERS]
            /\ pc' = [pc EXCEPT ![t] = "acquired"]
            /\ UNCHANGED spins
       ELSE /\ spins' = [spins EXCEPT ![t] = @ - 1]
            /\ pc' = [pc EXCEPT ![t] = IF spins[t] = 0 THEN "timedout" ELSE "spin"]
            /\ UNCHANGED lock
  /\ UNCHANGED <<calls, c, result, resultFor, queue, wpc, wreq>>

\* The return value of spinlock_lock_timeout ignored: timed out = done.
SpinIgnoresTimeout(t) ==
  /\ pc[t] = "spin"
  /\ IF lock[t] = UNLOCKED \/ spins[t] = 1
       THEN /\ lock' = [lock EXCEPT ![t] = NO_WAITERS]
            /\ pc' = [pc EXCEPT ![t] = "acquired"]
            /\ UNCHANGED spins
       ELSE /\ spins' = [spins EXCEPT ![t] = @ - 1]
            /\ pc' = [pc EXCEPT ![t] = "spin"]
            /\ UNCHANGED lock
  /\ UNCHANGED <<calls, c, result, resultFor, queue, wpc, wreq>>

\* The futex OCALL sleeps without comparing the word (wrong ms_val).
FutexWaitUnconditional(t) ==
  /\ pc[t] = "futex"
  /\ pc' = [pc EXCEPT ![t] = "waiting"]
  /\ UNCHANGED <<calls, spins, c, lock, result, resultFor, queue, wpc, wreq>>

\* The loop condition's cmpxchg expecting WITH_WAITERS, not UNLOCKED.
RecheckExpectsWaiters(t) ==
  /\ pc[t] = "recheck"
  /\ IF lock[t] = WITH_WAITERS
       THEN /\ pc' = [pc EXCEPT ![t] = "acquired"]
            /\ UNCHANGED <<c, lock>>
       ELSE /\ c' = [c EXCEPT ![t] = lock[t]]
            /\ pc' = [pc EXCEPT ![t] = "promote"]
            /\ UNCHANGED lock
  /\ UNCHANGED <<calls, spins, result, resultFor, queue, wpc, wreq>>

\* The timed-out cmpxchg's result negated: a lock still held by the worker
\* counts as released, and a released one sends the thread to the futex.
TimedOutNegatedCmpxchg(t) ==
  /\ pc[t] = "timedout"
  /\ IF lock[t] = UNLOCKED
       THEN /\ lock' = [lock EXCEPT ![t] = NO_WAITERS]
            /\ pc' = [pc EXCEPT ![t] = "promote"]
            /\ UNCHANGED c
       ELSE /\ pc' = [pc EXCEPT ![t] = "acquired"]
            /\ UNCHANGED <<c, lock>>
  /\ UNCHANGED <<calls, spins, result, resultFor, queue, wpc, wreq>>

-----------------------------------------------------------------------------
(* Enclave thread                                                          *)

\* Entry of sgx_exitless_ocall: without an RPC queue go straight to the
\* direct OCALL; otherwise allocate the RD, init its lock and take it.
StartOcall(t) ==
  /\ pc[t] = "idle"
  /\ calls[t] < MaxCalls
  /\ calls' = [calls EXCEPT ![t] = @ + 1]
  /\ IF Exitless
       THEN /\ pc' = [pc EXCEPT ![t] = "enqueue"]
            /\ lock' = [lock EXCEPT ![t] = NO_WAITERS]
       ELSE /\ pc' = [pc EXCEPT ![t] = "direct"]
            /\ UNCHANGED lock
  /\ UNCHANGED <<spins, c, result, resultFor, queue, wpc, wreq>>

\* rpc_enqueue; a full queue falls back to the direct OCALL.
Enqueue(t) ==
  /\ pc[t] = "enqueue"
  /\ IF Cardinality(queue) = QueueSize
       THEN /\ pc' = [pc EXCEPT ![t] = "direct"]
            /\ UNCHANGED <<queue, spins>>
       ELSE /\ queue' = queue \cup {[thr |-> t, call |-> calls[t]]}
            /\ spins' = [spins EXCEPT ![t] = SpinBound]
            /\ pc' = [pc EXCEPT ![t] = "spin"]
  /\ UNCHANGED <<calls, c, lock, result, resultFor, wpc, wreq>>

\* sgx_ocall with enclave exit: the host runs the handler synchronously.
DirectOcall(t) ==
  /\ pc[t] = "direct"
  /\ pc' = [pc EXCEPT ![t] = "idle"]
  /\ UNCHANGED <<calls, spins, c, lock, result, resultFor, queue, wpc, wreq>>

\* One iteration of spinlock_lock_timeout: CAS UNLOCKED -> NO_WAITERS.
Spin(t) ==
  /\ pc[t] = "spin"
  /\ IF lock[t] = UNLOCKED
       THEN /\ lock' = [lock EXCEPT ![t] = NO_WAITERS]
            /\ pc' = [pc EXCEPT ![t] = "acquired"]
            /\ UNCHANGED spins
       ELSE /\ spins' = [spins EXCEPT ![t] = @ - 1]
            /\ pc' = [pc EXCEPT ![t] = IF spins[t] = 1 THEN "timedout" ELSE "spin"]
            /\ UNCHANGED lock
  /\ UNCHANGED <<calls, c, result, resultFor, queue, wpc, wreq>>

\* After the spin timed out: c = UNLOCKED; cmpxchg(lock, c, NO_WAITERS).
\* On failure c holds the observed lock value.
TimedOut(t) ==
  /\ pc[t] = "timedout"
  /\ IF lock[t] = UNLOCKED
       THEN /\ lock' = [lock EXCEPT ![t] = NO_WAITERS]
            /\ pc' = [pc EXCEPT ![t] = "acquired"]
            /\ UNCHANGED c
       ELSE /\ c' = [c EXCEPT ![t] = lock[t]]
            /\ pc' = [pc EXCEPT ![t] = "promote"]
            /\ UNCHANGED lock
  /\ UNCHANGED <<calls, spins, result, resultFor, queue, wpc, wreq>>

\* Loop body head: c == WITH_WAITERS or cmpxchg(lock, c, WITH_WAITERS)
\* leads to the futex wait; a failed cmpxchg skips it with c = observed.
Promote(t) ==
  /\ pc[t] = "promote"
  /\ \/ /\ c[t] = WITH_WAITERS
        /\ pc' = [pc EXCEPT ![t] = "futex"]
        /\ UNCHANGED <<c, lock>>
     \/ /\ c[t] /= WITH_WAITERS
        /\ lock[t] = c[t]
        /\ lock' = [lock EXCEPT ![t] = WITH_WAITERS]
        /\ pc' = [pc EXCEPT ![t] = "futex"]
        /\ UNCHANGED c
     \/ /\ c[t] /= WITH_WAITERS
        /\ lock[t] /= c[t]
        /\ c' = [c EXCEPT ![t] = lock[t]]
        /\ pc' = [pc EXCEPT ![t] = "recheck"]
        /\ UNCHANGED lock
  /\ UNCHANGED <<calls, spins, result, resultFor, queue, wpc, wreq>>

\* sgx_ocall(OCALL_FUTEX, WAIT, val = WITH_WAITERS): the host kernel
\* compares the word and either sleeps or returns -EAGAIN.
FutexWait(t) ==
  /\ pc[t] = "futex"
  /\ pc' = [pc EXCEPT ![t] = IF lock[t] = WITH_WAITERS THEN "waiting" ELSE "recheck"]
  /\ UNCHANGED <<calls, spins, c, lock, result, resultFor, queue, wpc, wreq>>

\* The futex OCALL returns an error other than -EAGAIN (a signal's EINTR
\* or a hostile host), before or during the sleep: return -EPERM.
FutexFail(t) ==
  /\ FutexMayFail
  /\ pc[t] \in {"futex", "waiting"}
  /\ pc' = [pc EXCEPT ![t] = "idle"]
  /\ UNCHANGED <<calls, spins, c, lock, result, resultFor, queue, wpc, wreq>>

\* A futex wait may return 0 without a matching wake.
SpuriousWake(t) ==
  /\ pc[t] = "waiting"
  /\ pc' = [pc EXCEPT ![t] = "recheck"]
  /\ UNCHANGED <<calls, spins, c, lock, result, resultFor, queue, wpc, wreq>>

\* Loop condition: c = UNLOCKED; while (!cmpxchg(lock, c, WITH_WAITERS)).
Recheck(t) ==
  /\ pc[t] = "recheck"
  /\ IF lock[t] = UNLOCKED
       THEN /\ lock' = [lock EXCEPT ![t] = WITH_WAITERS]
            /\ pc' = [pc EXCEPT ![t] = "acquired"]
            /\ UNCHANGED c
       ELSE /\ c' = [c EXCEPT ![t] = lock[t]]
            /\ pc' = [pc EXCEPT ![t] = "promote"]
            /\ UNCHANGED lock
  /\ UNCHANGED <<calls, spins, result, resultFor, queue, wpc, wreq>>

\* return req->result; the caller then resets the untrusted stack.
Return(t) ==
  /\ pc[t] = "acquired"
  /\ pc' = [pc EXCEPT ![t] = "idle"]
  /\ UNCHANGED <<calls, spins, c, lock, result, resultFor, queue, wpc, wreq>>

-----------------------------------------------------------------------------
(* Untrusted RPC worker                                                     *)

Dequeue(w) ==
  /\ wpc[w] = "idle"
  /\ \E r \in queue :
       /\ queue' = queue \ {r}
       /\ wreq' = [wreq EXCEPT ![w] = r]
  /\ wpc' = [wpc EXCEPT ![w] = "exec"]
  /\ UNCHANGED <<pc, calls, spins, c, lock, result, resultFor>>

\* Run the handler and store req->result.
Execute(w) ==
  LET t == wreq[w].thr IN
  /\ wpc[w] = "exec"
  /\ \E r \in Results : result' = [result EXCEPT ![t] = r]
  /\ resultFor' = [resultFor EXCEPT ![t] = wreq[w].call]
  /\ wpc' = [wpc EXCEPT ![w] = "unlock"]
  /\ UNCHANGED <<pc, calls, spins, c, lock, queue, wreq>>

\* Store UNLOCKED with release semantics; wake only if there were waiters.
Unlock(w) ==
  LET t == wreq[w].thr IN
  /\ wpc[w] = "unlock"
  /\ lock' = [lock EXCEPT ![t] = UNLOCKED]
  /\ wpc' = [wpc EXCEPT ![w] = IF lock[t] = WITH_WAITERS THEN "wake" ELSE "idle"]
  /\ UNCHANGED <<pc, calls, spins, c, result, resultFor, queue, wreq>>

\* futex(FUTEX_WAKE, 1) on the lock word's address.
Wake(w) ==
  LET t == wreq[w].thr IN
  /\ wpc[w] = "wake"
  /\ pc' = IF pc[t] = "waiting" THEN [pc EXCEPT ![t] = "recheck"] ELSE pc
  /\ wpc' = [wpc EXCEPT ![w] = "idle"]
  /\ UNCHANGED <<calls, spins, c, lock, result, resultFor, queue, wreq>>

-----------------------------------------------------------------------------

Init ==
  /\ pc = [t \in Threads |-> "idle"]
  /\ calls = [t \in Threads |-> 0]
  /\ spins = [t \in Threads |-> 0]
  /\ c = [t \in Threads |-> UNLOCKED]
  /\ lock = [t \in Threads |-> UNLOCKED]
  \* the result word is uninitialised host memory
  /\ result \in [Threads -> Results]
  /\ resultFor = [t \in Threads |-> 0]
  /\ queue = {}
  /\ wpc = [w \in Workers |-> "idle"]
  /\ wreq = [w \in Workers |-> NoReq]

\* Every thread has issued its OCALLs and every worker is idle.
Finished ==
  /\ \A t \in Threads : pc[t] = "idle" /\ calls[t] = MaxCalls
  /\ queue = {}
  /\ \A w \in Workers : wpc[w] = "idle"
  /\ UNCHANGED vars

ThreadStep(t) ==
  \/ StartOcall(t) \/ Enqueue(t) \/ DirectOcall(t) \/ Spin(t) \/ TimedOut(t)
  \/ Promote(t) \/ FutexWait(t) \/ Recheck(t) \/ Return(t)

WorkerStep(w) == Dequeue(w) \/ Execute(w) \/ Unlock(w) \/ Wake(w)

Next ==
  \/ \E t \in Threads : ThreadStep(t) \/ FutexFail(t) \/ SpuriousWake(t)
  \/ \E w \in Workers : WorkerStep(w)
  \/ Finished

\* Threads and workers are OS threads: each keeps running while it can.
\* Spurious wake-ups and futex failures are possible, never promised.
Fairness ==
  /\ \A t \in Threads : WF_vars(ThreadStep(t))
  /\ \A w \in Workers : WF_vars(WorkerStep(w))

Spec == Init /\ [][Next]_vars /\ Fairness

-----------------------------------------------------------------------------

TypeOK ==
  /\ pc \in [Threads -> ThreadStates]
  /\ calls \in [Threads -> 0..MaxCalls]
  /\ spins \in [Threads -> 0..SpinBound]
  /\ c \in [Threads -> LockStates]
  /\ lock \in [Threads -> LockStates]
  /\ result \in [Threads -> Results]
  /\ resultFor \in [Threads -> 0..MaxCalls]
  /\ queue \subseteq Requests /\ Cardinality(queue) <= QueueSize
  /\ wpc \in [Workers -> WorkerStates]
  /\ wreq \in [Workers -> Requests \cup {NoReq}]

\* P5 (XBL safety): when the enclave thread has acquired the RD lock and is
\* about to return req->result, that word was written by the handler of
\* this very OCALL, not left over from an earlier OCALL of the thread whose
\* RD sat at the same untrusted-stack address.
FreshResult ==
  \A t \in Threads : pc[t] = "acquired" => resultFor[t] = calls[t]

\* RD lifetime: an RD queued or owned by a worker belongs to the current
\* OCALL of its thread, and that thread is still waiting in the exitless
\* path, so the untrusted stack holding the RD has not been reset.
NoAliasAfterReturn ==
  /\ \A r \in queue : r.call = calls[r.thr] /\ ExitlessWaiting(r.thr)
  /\ \A w \in Workers, t \in Threads :
       Owns(w, t) => wreq[w].call = calls[t] /\ ExitlessWaiting(t)

\* P4 (XBL liveness): every OCALL an enclave thread starts returns.
OcallReturns == \A t \in Threads : pc[t] /= "idle" ~> pc[t] = "idle"


-----------------------------------------------------------------------------
(* Refinement: the exitless path implements OcallService.  A thread is    *)
(* idle in both; its call is served once the handler of this call wrote   *)
(* the RD's result word; the result word is the one the thread reads.     *)

ServiceState(t) ==
  CASE pc[t] = "idle" -> "idle"
    [] resultFor[t] = calls[t] -> "served"
    [] OTHER -> "pending"

Service == INSTANCE OcallService
             WITH st <- [t \in Threads |-> ServiceState(t)],
                  res <- result,
                  ocalls <- calls

\* The exitless path, the direct fallback and the worker loop together
\* implement OcallService: each handler runs for the thread's current call
\* only, a thread returns req->result only after that handler, and every
\* issued call completes.
ImplementsService == Service!ASpec

=============================================================================
