---------------------------- MODULE OcallService -----------------------------
(***************************************************************************)
(* What an OCALL promises the enclave thread that issues it, whatever path *)
(* sgx_exitless_ocall takes: the host runs the handler for the call at    *)
(* most once, and a call that returns the handler's result word returns   *)
(* it only after the handler of this very call wrote it.  A call may      *)
(* instead complete by the synchronous OCALL with enclave exit (no RPC    *)
(* queue, or a full one), or fail with -EPERM.                            *)
(***************************************************************************)
EXTENDS Naturals

CONSTANTS Threads, Results, MaxCalls

VARIABLES
  st,      \* per thread: "idle", "pending" (issued, not served) or "served"
  res,     \* per thread: the result word the thread will read
  ocalls   \* per thread: OCALLs issued so far

avars == <<st, res, ocalls>>

\* The thread issues a new OCALL.
Start(t) ==
  /\ st[t] = "idle" /\ ocalls[t] < MaxCalls
  /\ st' = [st EXCEPT ![t] = "pending"]
  /\ ocalls' = [ocalls EXCEPT ![t] = @ + 1]
  /\ UNCHANGED res

\* The host handler of the pending call runs once and stores its result.
Serve(t) ==
  /\ st[t] = "pending"
  /\ \E r \in Results : res' = [res EXCEPT ![t] = r]
  /\ st' = [st EXCEPT ![t] = "served"]
  /\ UNCHANGED ocalls

\* The thread returns the result word of its served call.
Return(t) ==
  /\ st[t] = "served"
  /\ st' = [st EXCEPT ![t] = "idle"]
  /\ UNCHANGED <<res, ocalls>>

\* The call completes by the direct OCALL; the result word is not used.
Fallback(t) ==
  /\ st[t] = "pending"
  /\ st' = [st EXCEPT ![t] = "idle"]
  /\ UNCHANGED <<res, ocalls>>

\* The call gives up with -EPERM.
Fail(t) ==
  /\ st[t] \in {"pending", "served"}
  /\ st' = [st EXCEPT ![t] = "idle"]
  /\ UNCHANGED <<res, ocalls>>

Progress(t) == Serve(t) \/ Return(t) \/ Fallback(t)

AInit ==
  /\ st = [t \in Threads |-> "idle"]
  /\ res \in [Threads -> Results]
  /\ ocalls = [t \in Threads |-> 0]

ANext == \E t \in Threads : Start(t) \/ Progress(t) \/ Fail(t)

\* An issued OCALL keeps making progress until it completes.
ASpec == AInit /\ [][ANext]_avars /\ \A t \in Threads : WF_avars(Progress(t))

=============================================================================
