------------------------------ MODULE SocketIO ------------------------------
(***************************************************************************)
(* ocall_recv and ocall_send (enclave_ocalls.c) for one enclave thread.   *)
(* Both carry a data buffer of count bytes and an optional address and     *)
(* control buffer.  The decision to stage the data on the host heap        *)
(* compares count + addrlen + controllen with MAX_UNTRUSTED_STACK_BUF,     *)
(* where count + addrlen is computed in unsigned int (UIntWidth bits) and  *)
(* only then widened to the uint64_t of controllen.  recv copies back the *)
(* address, the control data and the received bytes through the boundary  *)
(* checker; the host chooses every value it returns.                       *)
(***************************************************************************)
EXTENDS Untrusted

CONSTANTS
  Ops,        \* subset of {"recv", "send"}
  Counts,     \* data sizes the caller passes
  Lens,       \* address and control lengths the caller passes
  UIntWidth,  \* bits of unsigned int
  MaxCalls

ASSUME Ops \subseteq {"recv", "send"} /\ Counts \subseteq Nat /\ Lens \subseteq Nat
ASSUME UIntWidth \in Nat \ {0} /\ MaxCalls \in Nat

UIntMod == 2 ^ UIntWidth

\* (count + addrlen + controllen) as the code evaluates it.
StagedTotal(cnt, alen, clen) == ((cnt + alen) % UIntMod) + clen

\* Lengths the host may write back for a buffer of length l.
HostLens(l) == {0, l, l + 1}

VARIABLES
  pc, op,
  cls,        \* BMC class of the caller's data buffer
  count,
  addr,       \* the caller passed an address buffer (and addrlenptr)
  addrlen,
  ctl,        \* the caller passed a control buffer (and controllenptr)
  ctllen,
  obuf,       \* "none" or "caller" (send of an outside buffer) or "heap"
  msBuf,      \* where ms->ms_buf points: "none", "ustack", "caller" or "heap"
  msAddr,     \* ms->ms_addr is a stack buffer (TRUE) or NULL
  msCtl,      \* ms->ms_control is a stack buffer (TRUE) or NULL
  n, hAddrLen, hCtlLen,   \* retval, ms_addrlen and ms_controllen from the host
  hBad,       \* the ms pointers (ms_addr, ms_control, ms_buf) the host
              \* rewrote to point into the enclave before the copy-back
  ret,
  copied,     \* data bytes copied into the caller's buffer
  addrOut,    \* *addrlenptr after the call
  ctlOut,     \* *controllenptr after the call
  dispatched, nullWrite, calls

vars == <<pc, op, cls, count, addr, addrlen, ctl, ctllen, obuf, msBuf, msAddr,
          msCtl, n, hAddrLen, hCtlLen, ret, copied, addrOut, ctlOut, dispatched,
          nullWrite, calls, used, owned, hBad>>

callVars == <<op, cls, count, addr, addrlen, ctl, ctllen, calls>>
hostVars == <<n, hAddrLen, hCtlLen, dispatched, hBad>>

\* The ms pointers a recv copies back from.
MsPtrs == {"addr", "ctl", "data"}

\* BMC class of the source of the copy-back from ms pointer p.
SrcOf(p) == IF p \in hBad THEN "inside" ELSE "outside"

\* Lines 809-813 / 884-890: map a heap buffer for the data when the total
\* is above the threshold.  An IS_ERR (negative) result returns at once;
\* a positive one leaves obuf NULL.
StageOnHeap(next) ==
  \E m \in MmapUntrusted :
    /\ used' = 0
    /\ IF m.ret < 0
         THEN /\ ret' = m.ret /\ pc' = "idle"
              /\ UNCHANGED <<obuf, owned, nullWrite>>
         ELSE /\ obuf' = IF m.mapped THEN "heap" ELSE "none"
              /\ owned' = IF m.mapped THEN owned + 1 ELSE owned
              /\ nullWrite' = (nullWrite \/ (op = "send" /\ ~m.mapped))
              /\ pc' = next
              /\ UNCHANGED ret

-----------------------------------------------------------------------------
(* Plausible faults, each the mutated form of the definition below it of   *)
(* the same shape.                                                         *)

\* The address copy-back given the host's length as its capacity.
RecvAddrNoCap(cap, src, len) == len > 0

\* The address and control copy-back trusting the pointers in ms.
RecvAddrNoSrcCheck(cap, src, len) == CopyToEnclaveOK("inside", cap, "outside", len) /\ len > 0

\* ocall_send's "out" unmapping obuf even when it is the caller's buffer.
SendOutUnmapsCaller ==
  /\ pc = "out" /\ op = "send"
  /\ IF obuf /= "none" THEN MunmapUntrusted ELSE used' = 0 /\ UNCHANGED owned
  /\ pc' = "idle"
  /\ UNCHANGED <<callVars, hostVars, obuf, msBuf, msAddr, msCtl, ret, copied,
                 addrOut, ctlOut, nullWrite>>

\* ocall_recv's "out" with the reset moved under if (obuf).
RecvOutNoReset ==
  /\ pc = "out" /\ op = "recv"
  /\ IF obuf = "heap" THEN MunmapUntrusted ELSE UNCHANGED <<used, owned>>
  /\ pc' = "idle"
  /\ UNCHANGED <<callVars, hostVars, obuf, msBuf, msAddr, msCtl, ret, copied,
                 addrOut, ctlOut, nullWrite>>

\* ocall_recv's "out" forgetting to unmap the heap buffer.
RecvOutSkipsUnmap ==
  /\ pc = "out" /\ op = "recv"
  /\ used' = 0
  /\ pc' = "idle"
  /\ UNCHANGED <<callVars, hostVars, obuf, msBuf, msAddr, msCtl, ret, copied,
                 addrOut, ctlOut, nullWrite, owned>>

-----------------------------------------------------------------------------

\* A new OCALL: the caller picks its buffers.  addrlen and controllen are
\* read through the pointers, or 0 when they are NULL (lines 805-806).
Call ==
  /\ pc = "idle" /\ calls < MaxCalls
  /\ \E o \in Ops, k \in Classes, c \in Counts, a, b \in BOOLEAN, al, bl \in Lens :
       /\ op' = o /\ cls' = k /\ count' = c
       /\ addr' = a /\ addrlen' = IF a THEN al ELSE 0
       /\ ctl' = b /\ ctllen' = IF b THEN bl ELSE 0
       /\ addrOut' = IF a THEN al ELSE 0
       /\ ctlOut' = IF b THEN bl ELSE 0
  /\ calls' = calls + 1
  /\ pc' = "begin"
  /\ obuf' = "none" /\ msBuf' = "none" /\ msAddr' = FALSE /\ msCtl' = FALSE
  /\ copied' = 0 /\ dispatched' = FALSE
  /\ n' = 0 /\ hAddrLen' = 0 /\ hCtlLen' = 0 /\ ret' = 0 /\ hBad' = {}
  /\ UNCHANGED <<nullWrite, used, owned>>

\* ocall_recv, lines 809-813: the heap fallback for a large receive.
RecvBegin ==
  /\ pc = "begin" /\ op = "recv"
  /\ IF StagedTotal(count, addrlen, ctllen) > StackBuf
       THEN StageOnHeap("marshal")
       ELSE /\ pc' = "marshal" /\ UNCHANGED <<used, ret, obuf, owned, nullWrite>>
  /\ UNCHANGED <<callVars, hostVars, msBuf, msAddr, msCtl, copied, addrOut, ctlOut>>

\* ocall_send, lines 879-894: pass an outside buffer through, stage a large
\* inside one on the heap (memcpy(obuf, buf, count)), refuse a straddling one.
SendBegin ==
  /\ pc = "begin" /\ op = "send"
  /\ CASE cls = "outside" ->
            /\ obuf' = "caller" /\ pc' = "marshal"
            /\ UNCHANGED <<used, ret, owned, nullWrite>>
       [] cls = "inside" /\ StagedTotal(count, addrlen, ctllen) > StackBuf ->
            StageOnHeap("marshal")
       [] cls = "inside" ->
            /\ pc' = "marshal" /\ UNCHANGED <<used, ret, obuf, owned, nullWrite>>
       [] OTHER ->
            /\ ret' = EPERM /\ pc' = "idle"
            /\ UNCHANGED <<used, obuf, owned, nullWrite>>
  /\ UNCHANGED <<callVars, hostVars, msBuf, msAddr, msCtl, copied, addrOut, ctlOut>>

\* ms, then the address and control buffers and, without obuf, the data
\* buffer, each on the untrusted stack in that order (recv allocates them,
\* send copies into them).  A NULL ms, data or address buffer fails with
\* -EPERM; a NULL control buffer is not checked and goes to the host as NULL.
MarshalArgs ==
  /\ pc = "marshal"
  /\ IF ~CanAlloc(MS)
       THEN /\ ret' = EPERM /\ pc' = "out" /\ UNCHANGED <<used, msBuf, msAddr, msCtl>>
       ELSE LET u1 == used + MS
                aOK == addr /\ u1 + addrlen <= StackCap
                u2 == IF aOK THEN u1 + addrlen ELSE u1
                cOK == ctl /\ u2 + ctllen <= StackCap
                u3 == IF cOK THEN u2 + ctllen ELSE u2
                dOK == obuf /= "none" \/ u3 + count <= StackCap
                u4 == IF obuf = "none" /\ dOK THEN u3 + count ELSE u3
            IN /\ used' = u4 /\ msAddr' = aOK /\ msCtl' = cOK
               /\ msBuf' = IF ~dOK THEN "none" ELSE IF obuf = "none" THEN "ustack" ELSE obuf
               /\ IF ~dOK \/ (addr /\ ~aOK)
                    THEN ret' = EPERM /\ pc' = "out"
                    ELSE pc' = "dispatch" /\ UNCHANGED ret
  /\ UNCHANGED <<callVars, hostVars, obuf, copied, addrOut, ctlOut, nullWrite, owned>>

\* ocall_recv, lines 815-835.
RecvMarshal == op = "recv" /\ MarshalArgs

\* ocall_send, lines 896-916.
SendMarshal == op = "send" /\ MarshalArgs

\* sgx_exitless_ocall(OCALL_RECV / OCALL_SEND, ms): the host chooses its
\* return value and, for recv, the lengths and pointers it stores in ms.
Dispatch ==
  /\ pc = "dispatch"
  /\ \E r \in {HOST_ERR, 0, 1, count, count + 1},
        al \in HostLens(addrlen), cl \in HostLens(ctllen), bad \in SUBSET MsPtrs :
       /\ n' = r
       /\ hAddrLen' = IF op = "recv" THEN al ELSE 0
       /\ hCtlLen' = IF op = "recv" THEN cl ELSE 0
       /\ hBad' = IF op = "recv" THEN bad ELSE {}
  /\ dispatched' = TRUE
  /\ pc' = IF op = "recv" THEN "unmarshal" ELSE "out"
  /\ ret' = n'
  /\ UNCHANGED <<callVars, used, obuf, msBuf, msAddr, msCtl, copied, addrOut,
                 ctlOut, nullWrite, owned>>

\* Copy-back of the address (841) and control (850) buffers: the enclave
\* buffer of capacity cap receives the host's len bytes from src.
RecvAddrCopy(cap, src, len) == CopyToEnclaveOK("inside", cap, src, len) /\ len > 0

\* ocall_recv, lines 839-862, for a non-negative retval: the address, then
\* the control data, then the received bytes; the first failure is -EPERM.
RecvUnmarshal ==
  /\ pc = "unmarshal"
  /\ pc' = "out"
  /\ IF n < 0
       THEN UNCHANGED <<ret, copied, addrOut, ctlOut>>
       ELSE LET aFail == addr /\ addrlen > 0 /\ ~RecvAddrCopy(addrlen, SrcOf("addr"), hAddrLen)
                cFail == ctl /\ ctllen > 0 /\ ~RecvAddrCopy(ctllen, SrcOf("ctl"), hCtlLen)
                dFail == n > 0 /\ ~CopyToEnclaveOK(cls, count, SrcOf("data"), n)
            IN /\ addrOut' = IF addr /\ addrlen > 0 /\ ~aFail THEN hAddrLen ELSE addrOut
               /\ ctlOut' = IF ctl /\ ctllen > 0 /\ ~aFail /\ ~cFail THEN hCtlLen ELSE ctlOut
               /\ IF aFail \/ cFail \/ dFail
                    THEN ret' = EPERM /\ UNCHANGED copied
                    ELSE ret' = n /\ copied' = IF n > 0 THEN n ELSE 0
  /\ UNCHANGED <<callVars, hostVars, used, obuf, msBuf, msAddr, msCtl, nullWrite, owned>>

\* out (864-868 / 920-924): reset the stack, then unmap a heap buffer.
RecvOut ==
  /\ pc = "out" /\ op = "recv"
  /\ IF obuf = "heap" THEN MunmapUntrusted ELSE used' = 0 /\ UNCHANGED owned
  /\ pc' = "idle"
  /\ UNCHANGED <<callVars, hostVars, obuf, msBuf, msAddr, msCtl, ret, copied,
                 addrOut, ctlOut, nullWrite>>

SendOut ==
  /\ pc = "out" /\ op = "send"
  /\ IF obuf = "heap" THEN MunmapUntrusted ELSE used' = 0 /\ UNCHANGED owned
  /\ pc' = "idle"
  /\ UNCHANGED <<callVars, hostVars, obuf, msBuf, msAddr, msCtl, ret, copied,
                 addrOut, ctlOut, nullWrite>>

Init ==
  /\ pc = "idle" /\ op = "recv" /\ cls = "inside" /\ count = 0
  /\ addr = FALSE /\ addrlen = 0 /\ ctl = FALSE /\ ctllen = 0
  /\ obuf = "none" /\ msBuf = "none" /\ msAddr = FALSE /\ msCtl = FALSE
  /\ n = 0 /\ hAddrLen = 0 /\ hCtlLen = 0 /\ ret = 0 /\ copied = 0
  /\ addrOut = 0 /\ ctlOut = 0 /\ dispatched = FALSE /\ nullWrite = FALSE
  /\ calls = 0 /\ used = 0 /\ owned = 0 /\ hBad = {}

Done == pc = "idle" /\ calls = MaxCalls /\ UNCHANGED vars

Next ==
  \/ Call \/ RecvBegin \/ SendBegin \/ RecvMarshal \/ SendMarshal \/ Dispatch
  \/ RecvUnmarshal \/ RecvOut \/ SendOut \/ Done

Spec == Init /\ [][Next]_vars

-----------------------------------------------------------------------------

TypeOK ==
  /\ pc \in {"idle", "begin", "marshal", "dispatch", "unmarshal", "out"}
  /\ op \in {"recv", "send"} /\ cls \in Classes /\ count \in Nat
  /\ addr \in BOOLEAN /\ ctl \in BOOLEAN /\ addrlen \in Nat /\ ctllen \in Nat
  /\ obuf \in {"none", "caller", "heap"}
  /\ msBuf \in {"none", "ustack", "caller", "heap"}
  /\ msAddr \in BOOLEAN /\ msCtl \in BOOLEAN
  /\ n \in Int /\ hAddrLen \in Nat /\ hCtlLen \in Nat /\ ret \in Int
  /\ copied \in Nat /\ addrOut \in Nat /\ ctlOut \in Nat
  /\ dispatched \in BOOLEAN /\ nullWrite \in BOOLEAN /\ calls \in 0..MaxCalls
  /\ used \in 0..StackCap /\ owned \in Nat /\ hBad \subseteq MsPtrs

\* P3 (USA hygiene) for recv and send, through the heap fallback, the
\* unchecked control allocation and every early return: no call leaves
\* the untrusted stack below its top.
UstackReset == pc = "idle" => used = 0

\* Every host-heap data buffer is unmapped before recv or send returns,
\* and send never unmaps a caller's own outside buffer.
HeapReleased == pc = "idle" => owned = 0

\* Spec 4.5 recv: a recv that succeeds reports no more than was asked for
\* in each of its three outputs, and the data it reports is the data it
\* copied into an enclave buffer.
RecvOutputsBounded ==
  pc = "idle" /\ op = "recv" /\ calls > 0 /\ ret >= 0 =>
    /\ ret <= count /\ copied = ret
    /\ ret > 0 => cls = "inside"
    /\ addrOut <= addrlen /\ ctlOut <= ctllen

\* A recv that succeeds copied each of its outputs out of host memory:
\* whichever of ms_addr, ms_control and ms_buf the host pointed into the
\* enclave, the enclave did not copy its own memory through it.
RecvCopiesFromHost ==
  pc = "idle" /\ op = "recv" /\ calls > 0 /\ ret >= 0 =>
    /\ addr /\ addrlen > 0 => "addr" \notin hBad
    /\ ctl /\ ctllen > 0 => "ctl" \notin hBad
    /\ ret > 0 => "data" \notin hBad

=============================================================================
