----------------------------- MODULE SocketAddr -----------------------------
(***************************************************************************)
(* The socket set-up wrappers of enclave_ocalls.c for one enclave thread:  *)
(* ocall_listen, ocall_accept and ocall_connect, which hand the host a     *)
(* socket address and copy back the address length and socket options the *)
(* host returns, and ocall_socketpair, which copies back two descriptors.  *)
(* On success each of them has made the host create descriptors for the   *)
(* enclave; the model tracks them to see whether an error return can       *)
(* strand one on the host.                                                 *)
(***************************************************************************)
EXTENDS Untrusted

CONSTANTS
  Ops,        \* subset of {"listen", "accept", "connect", "socketpair"}
  Lens,       \* address lengths the caller passes
  HostLens(_), \* address lengths the host may report for a buffer of length l
  MaxCalls

ASSUME Ops \subseteq {"listen", "accept", "connect", "socketpair"}
ASSUME Lens \subseteq Nat /\ MaxCalls \in Nat

FD == 3   \* a descriptor number the host hands out

VARIABLES
  pc, op,
  addr,      \* the caller passed the address buffer copied back (addr, or
             \* bind_addr for connect) and its length pointer
  len,       \* *addrlen (*bind_addrlen) on entry, 0 without the pointer
  dest,      \* connect: the caller passed a destination address
  n,         \* the host's return value
  hLen,      \* ms_addrlen (ms_bind_addrlen) as the host left it
  ret,
  lenOut,    \* *addrlen after the call
  fdsOut,    \* socketpair: sockfds[] was filled in
  opened,    \* descriptors the host created for this call
  calls

vars == <<pc, op, addr, len, dest, n, hLen, ret, lenOut, fdsOut, opened, calls,
          used, owned>>

callVars == <<op, addr, len, dest, calls>>

\* Host results: an error, or success with a descriptor (listen, accept,
\* connect) or 0 (socketpair), or an unexpected positive value.
HostReturns(o) ==
  IF o = "socketpair" THEN {HOST_ERR, 0, 1} ELSE {HOST_ERR, 0, FD}

\* The host creates descriptors when the operation succeeds.
Created(o, r) == IF r >= 0 THEN (IF o = "socketpair" THEN 2 ELSE 1) ELSE 0

\* Buffers the wrapper copies onto the untrusted stack after ms:
\* listen/accept copy addr when addr && len; connect copies the destination
\* address (length 1 here) and bind_addr, each when the pointer is non-NULL.
InSize(o, a, l, d) ==
  CASE o \in {"listen", "accept"} -> (IF a /\ l > 0 THEN l ELSE 0)
    [] o = "connect" -> (IF d THEN 1 ELSE 0) + (IF a THEN l ELSE 0)
    [] OTHER -> 0

-----------------------------------------------------------------------------
(* Plausible faults, each the mutated form of the definition of the same   *)
(* shape below it.                                                         *)

\* The address copy-back with the capacity taken from the host.
AddrCopyNoCap(cap, hl) == hl > 0

\* The copy-back failure path returning without sgx_reset_ustack.
UnmarshalNoResetOnFail ==
  /\ pc = "unmarshal"
  /\ LET fail == n >= 0 /\ op /= "socketpair" /\ addr /\ len > 0
                 /\ ~(CopyToEnclaveOK("inside", len, "outside", hLen) /\ hLen > 0)
     IN /\ ret' = IF fail THEN EPERM ELSE n
        /\ lenOut' = IF n >= 0 /\ op /= "socketpair" /\ addr /\ len > 0 /\ ~fail
                       THEN hLen ELSE lenOut
        /\ used' = IF fail THEN used ELSE 0
  /\ fdsOut' = (op = "socketpair" /\ n = 0)
  /\ pc' = "idle"
  /\ UNCHANGED <<callVars, n, hLen, opened, owned>>

\* The argument allocation used without its NULL check.
MarshalNoNullCheck ==
  /\ pc = "begin"
  /\ used' = used + MS + InSize(op, addr, len, dest)
  /\ pc' = "dispatch"
  /\ UNCHANGED <<callVars, n, hLen, ret, lenOut, fdsOut, opened, owned>>

-----------------------------------------------------------------------------

\* A new OCALL; len is read through the length pointer, 0 without it.
Call ==
  /\ pc = "idle" /\ calls < MaxCalls
  /\ \E o \in Ops, a, d \in BOOLEAN, l \in Lens :
       /\ op' = o
       /\ addr' = (a /\ o /= "socketpair")
       /\ len' = IF a /\ o /= "socketpair" THEN l ELSE 0
       /\ lenOut' = IF a /\ o /= "socketpair" THEN l ELSE 0
       /\ dest' = (d /\ o = "connect")
  /\ calls' = calls + 1
  /\ pc' = "begin"
  /\ n' = 0 /\ hLen' = 0 /\ ret' = 0 /\ fdsOut' = FALSE /\ opened' = 0
  /\ UNCHANGED <<used, owned>>

\* ms on the untrusted stack, then the addresses copied onto it; a NULL
\* ms or a failed copy resets the stack and returns -EPERM.
MarshalArgs ==
  /\ pc = "begin"
  /\ LET sz == MS + InSize(op, addr, len, dest) IN
       IF CanAlloc(sz)
         THEN /\ used' = used + sz /\ pc' = "dispatch" /\ UNCHANGED ret
         ELSE /\ used' = 0 /\ ret' = EPERM /\ pc' = "idle"
  /\ UNCHANGED <<callVars, n, hLen, lenOut, fdsOut, opened, owned>>

\* sgx_exitless_ocall: the host runs the operation and may rewrite the
\* address length it was given, to any length HostLens allows.
Dispatch ==
  /\ pc = "dispatch"
  /\ \E r \in HostReturns(op), hl \in HostLens(len) :
       /\ n' = r /\ hLen' = hl
       /\ opened' = Created(op, r)
  /\ pc' = "unmarshal"
  /\ UNCHANGED <<callVars, used, ret, lenOut, fdsOut, owned>>

\* sgx_copy_to_enclave(addr, len, ms->ms_addr, ms->ms_addrlen).
AddrCopy(cap, hl) == CopyToEnclaveOK("inside", cap, "outside", hl) /\ hl > 0

\* For retval >= 0: copy the address back when addr && len, failing with
\* -EPERM (after resetting the stack) when the copy returns 0; store the
\* copied length and the socket options; socketpair stores the descriptors
\* only when retval is 0.  Every path resets the stack.
UnmarshalResults ==
  /\ pc = "unmarshal"
  /\ LET back == n >= 0 /\ op /= "socketpair" /\ addr /\ len > 0
         fail == back /\ ~AddrCopy(len, hLen)
     IN /\ ret' = IF fail THEN EPERM ELSE n
        /\ lenOut' = IF back /\ ~fail THEN hLen ELSE lenOut
  /\ fdsOut' = (op = "socketpair" /\ n = 0)
  /\ used' = 0
  /\ pc' = "idle"
  /\ UNCHANGED <<callVars, n, hLen, opened, owned>>

ListenMarshal     == op = "listen" /\ MarshalArgs
AcceptMarshal     == op = "accept" /\ MarshalArgs
ConnectMarshal    == op = "connect" /\ MarshalArgs
SocketpairMarshal == op = "socketpair" /\ MarshalArgs

ListenUnmarshal     == op = "listen" /\ UnmarshalResults
AcceptUnmarshal     == op = "accept" /\ UnmarshalResults
ConnectUnmarshal    == op = "connect" /\ UnmarshalResults
SocketpairUnmarshal == op = "socketpair" /\ UnmarshalResults

Init ==
  /\ pc = "idle" /\ op = "listen" /\ addr = FALSE /\ len = 0 /\ dest = FALSE
  /\ n = 0 /\ hLen = 0 /\ ret = 0 /\ lenOut = 0 /\ fdsOut = FALSE
  /\ opened = 0 /\ calls = 0 /\ used = 0 /\ owned = 0

Done == pc = "idle" /\ calls = MaxCalls /\ UNCHANGED vars

Next ==
  \/ Call \/ Dispatch \/ Done
  \/ ListenMarshal \/ AcceptMarshal \/ ConnectMarshal \/ SocketpairMarshal
  \/ ListenUnmarshal \/ AcceptUnmarshal \/ ConnectUnmarshal \/ SocketpairUnmarshal

Spec == Init /\ [][Next]_vars

-----------------------------------------------------------------------------

TypeOK ==
  /\ pc \in {"idle", "begin", "dispatch", "unmarshal"}
  /\ op \in {"listen", "accept", "connect", "socketpair"}
  /\ addr \in BOOLEAN /\ dest \in BOOLEAN /\ len \in Nat /\ hLen \in Nat
  /\ n \in Int /\ ret \in Int /\ lenOut \in Nat /\ fdsOut \in BOOLEAN
  /\ opened \in 0..2 /\ calls \in 0..MaxCalls /\ used \in 0..StackCap

\* Spec 4.5 listen/accept/connect: a successful call never reports an
\* address longer than the caller's buffer, and the address it reports is
\* one the host actually returned.
AddrLenBounded ==
  pc = "idle" /\ calls > 0 /\ ret >= 0 /\ addr /\ len > 0 =>
    lenOut <= len /\ lenOut = hLen /\ lenOut > 0

\* P3 for the set-up wrappers: every return, including the copy-back
\* failure, leaves the untrusted stack at its top.
UstackReset == pc = "idle" => used = 0

\* Spec 7 (partial output must not leak): when the wrapper returns an
\* error, the host holds no descriptor it created for this call.
NoOrphanSocket == pc = "idle" /\ calls > 0 /\ ret < 0 => opened = 0

=============================================================================
