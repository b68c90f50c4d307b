------------------------- MODULE WinFuseReqProofs --------------------------
(***************************************************************************)
(* The memory discipline of internal requests (RequestAccounting), for     *)
(* every value of the constants.  Each request the host handed out is in   *)
(* exactly one place (ReqPlaced): owned by one live context, held by one   *)
(* call in its InternalRequest local, or released.  FuseContextCreate      *)
(* moves it from the host to a context (ReqAdmitCtx) or, when allocation   *)
(* fails, to the call (ReqAdmitStatus); FuseContextDelete releases a       *)
(* context's request, FuseFreeExternal at exit the call's.  FuseIoqDelete  *)
(* releases the requests of all queued contexts at once, and needs the     *)
(* ownership invariant to know that these are all the live contexts.       *)
(***************************************************************************)
EXTENDS WinFuseOwnProofs

\* The clauses of ReqInv besides OwnInv.
ReqParts ==
    FreeOwnsNothing /\ LocalOnStatusPath /\ \A r \in HostReq : ReqPlaced(r)

\* The four places are what RequestAccounting counts.
LEMMA PlacedAccounts ==
    ASSUME NEW r \in HostReq, ReqPlaced(r)
    PROVE  /\ r \in hostQ =>
                 ContextsOwning(r) = {} /\ CallsHolding(r) = {}
                 /\ nfree[r] = 0 /\ nanswer[r] = 0
           /\ r \notin hostQ =>
                 Cardinality(ContextsOwning(r)) + Cardinality(CallsHolding(r))
                   + nfree[r] = 1
           /\ nanswer[r] <= 1
           /\ ContextsOwning(r) # {} => nanswer[r] = 0
<1>1. CASE WithHost(r)
    BY <1>1 DEF WithHost
<1>2. CASE r \notin hostQ /\ OwnedByContext(r)
    <2>1. PICK c \in Ctx : ContextsOwning(r) = {c}
        BY <1>2 DEF OwnedByContext
    <2>2. Cardinality(ContextsOwning(r)) = 1
        BY <2>1, FS_Singleton
    <2>3. Cardinality(CallsHolding(r)) = 0
        BY <1>2, FS_EmptySet DEF OwnedByContext
    <2>. QED
        BY <1>2, <2>1, <2>2, <2>3 DEF OwnedByContext
<1>3. CASE r \notin hostQ /\ HeldByCall(r)
    <2>1. PICK t \in Thread : CallsHolding(r) = {t}
        BY <1>3 DEF HeldByCall
    <2>2. Cardinality(CallsHolding(r)) = 1
        BY <2>1, FS_Singleton
    <2>3. Cardinality(ContextsOwning(r)) = 0
        BY <1>3, FS_EmptySet DEF HeldByCall
    <2>. QED
        BY <1>3, <2>1, <2>2, <2>3 DEF HeldByCall
<1>4. CASE r \notin hostQ /\ Released(r)
    BY <1>4, FS_EmptySet DEF Released
<1>. QED
    BY <1>1, <1>2, <1>3, <1>4 DEF ReqPlaced

LEMMA ReqInvIsAccounting == ReqInv => RequestAccounting
BY PlacedAccounts DEF ReqInv, RequestAccounting

LEMMA ReqInvInit == Init => ReqInv
<1> SUFFICES ASSUME Init PROVE ReqInv
    OBVIOUS
<1>1. OwnInv
    BY OwnInvInit
<1>2. \A r \in HostReq : WithHost(r)
    BY WinFuseAssumption DEF Init, WithHost, ContextsOwning, CallsHolding
<1>. QED
    BY <1>1, <1>2 DEF Init, ReqInv, FreeOwnsNothing, LocalOnStatusPath,
       ReqPlaced

\* A step that moves no request: what owns each request, the frees and the
\* answers stay, and a call enters the status path only with a request
\* it just took (so never here).
LEMMA ReqFrame ==
    ASSUME LocalOnStatusPath, NEW r \in HostReq, ReqPlaced(r),
           local \in [Thread -> HostReq \cup {NoReq}],
           UNCHANGED <<local, hostQ>>,
           nfree'[r] = nfree[r], nanswer'[r] = nanswer[r],
           ContextsOwning(r)' = ContextsOwning(r),
           \A u \in Thread : pc'[u] # pc[u] =>
               pc[u] \notin {"reqstatus", "exit"} /\ pc'[u] # "reqstatus"
    PROVE  ReqPlaced(r)'
<1>1. CallsHolding(r)' = CallsHolding(r)
    BY DEF CallsHolding
<1>2. \A u \in CallsHolding(r) : pc'[u] = "reqstatus" => pc[u] = "reqstatus"
    BY DEF CallsHolding, LocalOnStatusPath
<1>. QED
    BY <1>1, <1>2 DEF ReqPlaced, WithHost, OwnedByContext, HeldByCall,
       Released

\* LocalOnStatusPath carries over a step that leaves the locals alone and
\* moves calls only between points off the status path.
LEMMA LocalFrame ==
    ASSUME LocalOnStatusPath, UNCHANGED local,
           \A u \in Thread : pc'[u] # pc[u] =>
               pc[u] \notin {"reqstatus", "exit"} /\ pc'[u] # "reqstatus"
    PROVE  LocalOnStatusPath'
BY DEF LocalOnStatusPath

\* FuseContextDelete of a context c: if c owned a request, that request is
\* released (with at most the one answer the deleting step delivers);
\* every other request keeps its owners.
LEMMA DeleteReleases ==
    ASSUME NEW c \in Ctx, c \in alloc,
           ireq \in [Ctx -> HostReq \cup {NoReq}],
           nfree \in [HostReq -> Nat], nanswer \in [HostReq -> Nat],
           local \in [Thread -> HostReq \cup {NoReq}],
           DeleteCtx(c),
           NEW r \in HostReq, ReqPlaced(r),
           UNCHANGED <<local, hostQ>>,
           \A u \in Thread : pc'[u] # pc[u] =>
               pc[u] \notin {"reqstatus", "exit"} /\ pc'[u] # "reqstatus",
           LocalOnStatusPath,
           \A q \in HostReq : q # ireq[c] => nanswer'[q] = nanswer[q],
           ireq[c] = r => nanswer'[r] <= nanswer[r] + 1
    PROVE  ReqPlaced(r)'
<1>1. /\ alloc' = alloc \ {c}
      /\ ireq' = [ireq EXCEPT ![c] = NoReq]
      /\ nfree' = IF ireq[c] = NoReq THEN nfree
                  ELSE [nfree EXCEPT ![ireq[c]] = @ + 1]
    BY DEF DeleteCtx
<1>2. ContextsOwning(r)' = ContextsOwning(r) \ {c}
    BY <1>1, WinFuseAssumption DEF ContextsOwning
<1>3. CASE ireq[c] # r
    <2>1. ContextsOwning(r)' = ContextsOwning(r)
        BY <1>2, <1>3 DEF ContextsOwning
    <2>2. nfree'[r] = nfree[r] /\ nanswer'[r] = nanswer[r]
        BY <1>1, <1>3
    <2>. QED
        BY <2>1, <2>2, ReqFrame
<1>4. CASE ireq[c] = r
    <2>1. ContextsOwning(r) = {c}
        <3>1. c \in ContextsOwning(r)
            BY <1>4 DEF ContextsOwning
        <3>2. ~WithHost(r) /\ ~HeldByCall(r) /\ ~Released(r)
            BY <3>1 DEF WithHost, HeldByCall, Released
        <3>3. OwnedByContext(r)
            BY <3>2 DEF ReqPlaced
        <3>. QED
            BY <3>1, <3>3 DEF OwnedByContext
    <2>2. /\ CallsHolding(r) = {}
          /\ nfree[r] = 0 /\ nanswer[r] = 0
          /\ r \notin hostQ
        BY <2>1 DEF ReqPlaced, WithHost, OwnedByContext, HeldByCall,
           Released
    <2>3. ContextsOwning(r)' = {}
        BY <1>2, <2>1
    <2>4. CallsHolding(r)' = {}
        BY <2>2 DEF CallsHolding
    <2>5. nfree'[r] = 1
        BY <1>1, <1>4, <2>2, WinFuseAssumption
    <2>6. nanswer'[r] <= 1
        BY <1>4, <2>2
    <2>. QED
        BY <2>2, <2>3, <2>4, <2>5, <2>6 DEF ReqPlaced, Released
<1>. QED
    BY <1>3, <1>4

\* Forwarding a response answers at most the one request, once.
LEMMA ForwardOne ==
    ASSUME nanswer \in [HostReq -> Nat], NEW q0, NEW ok \in BOOLEAN,
           Forward(q0, ok)
    PROVE  /\ \A q \in HostReq : q # q0 => nanswer'[q] = nanswer[q]
           /\ q0 \in HostReq => nanswer'[q0] <= nanswer[q0] + 1
BY DEF Forward

LEMMA ReqInvNext == ReqInv /\ [Next]_vars => ReqInv'
<1> SUFFICES ASSUME OwnInv, ReqParts, [Next]_vars
             PROVE  ReqParts'
    BY OwnInvNext DEF ReqInv, ReqParts
<1>1. /\ alloc \subseteq Ctx
      /\ ireq \in [Ctx -> HostReq \cup {NoReq}]
      /\ local \in [Thread -> HostReq \cup {NoReq}]
      /\ pc \in [Thread -> PC] /\ pc' \in [Thread -> PC]
      /\ held \in [Thread -> Ctx \cup {NoCtx}]
      /\ hostQ \subseteq HostReq
      /\ nfree \in [HostReq -> Nat] /\ nanswer \in [HostReq -> Nat]
      /\ \A t \in Thread : pc[t] \in {"rspproc", "reqproc"} => held[t] \in Ctx
      /\ \A t \in Thread : pc[t] = "reqstatus" => local[t] \in HostReq
      /\ NoReq \notin HostReq /\ NoCtx \notin Ctx
    BY TypeInvNext, WinFuseAssumption DEF OwnInv, TypeInv, TypeOK,
       ThreadShape
<1>2. /\ FreeOwnsNothing /\ LocalOnStatusPath
      /\ \A r \in HostReq : ReqPlaced(r)
    BY DEF ReqParts
\* A held context is live (CtxOwnership).
<1>3. \A t \in Thread : held[t] \in Ctx => held[t] \in alloc
    BY DEF OwnInv, CtxOwnership
\* Steps that move no request and leave the live contexts alone.
<1>4. ASSUME UNCHANGED <<alloc, ireq, local, hostQ, nfree, nanswer>>,
             \A u \in Thread : pc'[u] # pc[u] =>
                 pc[u] \notin {"reqstatus", "exit"} /\ pc'[u] # "reqstatus"
      PROVE  ReqParts'
    <2>1. FreeOwnsNothing'
        BY <1>2, <1>4 DEF FreeOwnsNothing
    <2>2. LocalOnStatusPath'
        BY <1>2, <1>4, LocalFrame
    <2>3. ASSUME NEW r \in HostReq PROVE ReqPlaced(r)'
        <3>1. ContextsOwning(r)' = ContextsOwning(r)
            BY <1>4 DEF ContextsOwning
        <3>. QED
            BY <1>1, <1>2, <1>4, <3>1, ReqFrame
    <2>. QED
        BY <2>1, <2>2, <2>3 DEF ReqParts
<1>5. ASSUME NEW t \in Thread,
             \/ DaemonPoll(t) \/ DaemonReply(t) \/ DaemonReplay(t)
             \/ RspMatch(t) \/ RspSpurious(t) \/ ReqPop(t) \/ ReqEmpty(t)
      PROVE  ReqParts'
    <2>1. /\ UNCHANGED <<alloc, ireq, local, hostQ, nfree, nanswer>>
          /\ pc' = [pc EXCEPT ![t] = pc'[t]]
          /\ pc[t] \in {"idle", "rsp", "req"}
          /\ pc'[t] \in {"req", "rsp", "rspproc", "exit", "reqproc", "wait",
                         "admit"}
        BY <1>1, <1>5 DEF DaemonPoll, DaemonReply, DaemonReplay, RspMatch,
           RspSpurious, ReqPop, ReqEmpty, AfterRsp, ctxVars, thrVars,
           hostVars
    <2>. QED
        BY <1>1, <2>1, <1>4
<1>6. ASSUME NEW t \in Thread,
             \/ ReqWake(t) \/ ReqCancel(t) \/ ReqAdmitNone(t) \/ ReqExchange(t)
      PROVE  ReqParts'
    <2>1. /\ UNCHANGED <<alloc, ireq, local, hostQ, nfree, nanswer>>
          /\ pc' = [pc EXCEPT ![t] = pc'[t]]
          /\ pc[t] \in {"wait", "admit", "reqproc"}
          /\ pc'[t] \in {"exit", "admit"}
        BY <1>1, <1>6 DEF ReqWake, ReqCancel, ReqAdmitNone, ReqExchange,
           ctxVars, thrVars, hostVars
    <2>. QED
        BY <1>1, <2>1, <1>4
<1>7. CASE Terminated \/ FiniCache \/ UNCHANGED vars
    <2>1. UNCHANGED <<alloc, ireq, local, hostQ, nfree, nanswer, pc>>
        BY <1>7 DEF Terminated, FiniCache, vars, ctxVars, thrVars, hostVars
    <2>. QED
        BY <2>1, <1>4
\* FuseProtoPostForget: a new context at a free address, which owns no
\* request.
<1>8. CASE Expire
    <2>1. PICK c \in Ctx \ alloc : alloc' = alloc \cup {c}
        BY <1>8 DEF Expire
    <2>2. UNCHANGED <<ireq, local, hostQ, nfree, nanswer, pc>>
        BY <1>8 DEF Expire, thrVars, hostVars
    <2>3. ireq[c] = NoReq
        BY <1>2, <2>1 DEF FreeOwnsNothing
    <2>4. FreeOwnsNothing'
        BY <1>2, <2>1, <2>2 DEF FreeOwnsNothing
    <2>5. LocalOnStatusPath'
        BY <1>2, <2>2, LocalFrame
    <2>6. ASSUME NEW r \in HostReq PROVE ReqPlaced(r)'
        <3>1. ContextsOwning(r)' = ContextsOwning(r)
            BY <1>1, <2>1, <2>2, <2>3 DEF ContextsOwning
        <3>. QED
            BY <1>1, <1>2, <2>2, <3>1, ReqFrame
    <2>. QED
        BY <2>4, <2>5, <2>6 DEF ReqParts
\* FuseContextCreate binds a request from the host to a new context.
<1>9. ASSUME NEW t \in Thread, ReqAdmitCtx(t) PROVE ReqParts'
    <2>1. PICK r0 \in hostQ, c \in Ctx \ alloc :
            /\ hostQ' = hostQ \ {r0}
            /\ alloc' = alloc \cup {c}
            /\ ireq' = [ireq EXCEPT ![c] = r0]
        BY <1>9 DEF ReqAdmitCtx
    <2>2. /\ UNCHANGED <<local, nfree, nanswer>>
          /\ pc[t] = "admit" /\ pc' = [pc EXCEPT ![t] = "reqproc"]
        BY <1>9 DEF ReqAdmitCtx, hostVars
    <2>3. FreeOwnsNothing'
        BY <1>1, <1>2, <2>1 DEF FreeOwnsNothing
    <2>4. LocalOnStatusPath'
        BY <1>1, <1>2, <2>2, LocalFrame
    <2>5. ASSUME NEW r \in HostReq PROVE ReqPlaced(r)'
        <3>1. ireq[c] = NoReq
            BY <1>2, <2>1 DEF FreeOwnsNothing
        <3>2. CASE r = r0
            <4>1. WithHost(r)
                BY <1>2, <2>1, <3>2 DEF ReqPlaced
            <4>2. ContextsOwning(r)' = {c}
                BY <1>1, <2>1, <3>2, <4>1 DEF WithHost, ContextsOwning
            <4>3. CallsHolding(r)' = {}
                BY <2>2, <4>1 DEF WithHost, CallsHolding
            <4>4. r \notin hostQ' /\ nfree'[r] = 0 /\ nanswer'[r] = 0
                BY <2>1, <2>2, <3>2, <4>1 DEF WithHost
            <4>. QED
                BY <4>2, <4>3, <4>4 DEF ReqPlaced, OwnedByContext
        <3>3. CASE r # r0
            <4>1. ContextsOwning(r)' = ContextsOwning(r)
                BY <1>1, <2>1, <3>1, <3>3 DEF ContextsOwning
            <4>2. CallsHolding(r)' = CallsHolding(r)
                BY <2>2 DEF CallsHolding
            <4>3. \A u \in CallsHolding(r) : pc'[u] = pc[u]
                BY <1>1, <1>2, <2>2 DEF CallsHolding, LocalOnStatusPath
            <4>4. (r \in hostQ') = (r \in hostQ)
                BY <2>1, <3>3
            <4>. QED
                BY <1>2, <2>2, <4>1, <4>2, <4>3, <4>4 DEF ReqPlaced,
                   WithHost, OwnedByContext, HeldByCall, Released
        <3>. QED
            BY <3>2, <3>3
    <2>. QED
        BY <2>3, <2>4, <2>5 DEF ReqParts
\* FuseContextCreate fails: the request stays with the call.
<1>10. ASSUME NEW t \in Thread, ReqAdmitStatus(t) PROVE ReqParts'
    <2>1. PICK r0 \in hostQ :
            /\ hostQ' = hostQ \ {r0}
            /\ local' = [local EXCEPT ![t] = r0]
        BY <1>10 DEF ReqAdmitStatus
    <2>2. /\ UNCHANGED <<alloc, ireq, nfree, nanswer>>
          /\ pc[t] = "admit" /\ pc' = [pc EXCEPT ![t] = "reqstatus"]
        BY <1>10 DEF ReqAdmitStatus, ctxVars, hostVars
    <2>3. local[t] = NoReq
        BY <1>2, <2>2 DEF LocalOnStatusPath
    <2>4. FreeOwnsNothing'
        BY <1>2, <2>2 DEF FreeOwnsNothing
    <2>5. LocalOnStatusPath'
        BY <1>1, <1>2, <2>1, <2>2 DEF LocalOnStatusPath
    <2>6. ASSUME NEW r \in HostReq PROVE ReqPlaced(r)'
        <3>1. ContextsOwning(r)' = ContextsOwning(r)
            BY <2>2 DEF ContextsOwning
        <3>2. CASE r = r0
            <4>1. WithHost(r)
                BY <1>2, <2>1, <3>2 DEF ReqPlaced
            <4>2. CallsHolding(r)' = {t}
                BY <1>1, <2>1, <3>2, <4>1 DEF WithHost, CallsHolding
            <4>3. /\ r \notin hostQ' /\ ContextsOwning(r)' = {}
                  /\ nfree'[r] = 0 /\ nanswer'[r] = 0
                BY <2>1, <2>2, <3>1, <3>2, <4>1 DEF WithHost
            <4>. QED
                BY <4>2, <4>3 DEF ReqPlaced, HeldByCall
        <3>3. CASE r # r0
            <4>1. CallsHolding(r)' = CallsHolding(r)
                BY <1>1, <2>1, <2>3, <3>3 DEF CallsHolding
            <4>2. \A u \in CallsHolding(r) : pc'[u] = pc[u]
                BY <1>1, <2>2, <2>3 DEF CallsHolding
            <4>3. (r \in hostQ') = (r \in hostQ)
                BY <2>1, <3>3
            <4>. QED
                BY <1>2, <2>2, <3>1, <4>1, <4>2, <4>3 DEF ReqPlaced,
                   WithHost, OwnedByContext, HeldByCall, Released
        <3>. QED
            BY <3>2, <3>3
    <2>. QED
        BY <2>4, <2>5, <2>6 DEF ReqParts
\* The status-only response is forwarded: the one answer of the request
\* the call holds.
<1>11. ASSUME NEW t \in Thread, ReqStatus(t) PROVE ReqParts'
    <2>1. /\ pc[t] = "reqstatus" /\ pc' = [pc EXCEPT ![t] = "exit"]
          /\ local[t] \in HostReq
          /\ UNCHANGED <<alloc, ireq, local, hostQ, nfree>>
          /\ \E ok \in BOOLEAN : Forward(local[t], ok)
        BY <1>1, <1>11 DEF ReqStatus, ctxVars, thrVars
    <2>2. FreeOwnsNothing'
        BY <1>2, <2>1 DEF FreeOwnsNothing
    <2>3. LocalOnStatusPath'
        BY <1>1, <1>2, <2>1 DEF LocalOnStatusPath
    <2>4. ASSUME NEW r \in HostReq PROVE ReqPlaced(r)'
        <3>1. ContextsOwning(r)' = ContextsOwning(r)
              /\ CallsHolding(r)' = CallsHolding(r)
            BY <2>1 DEF ContextsOwning, CallsHolding
        <3>2. CASE r = local[t]
            <4>1. t \in CallsHolding(r)
                BY <3>2 DEF CallsHolding
            <4>2. HeldByCall(r) /\ r \notin hostQ
                BY <1>2, <4>1 DEF ReqPlaced, WithHost, OwnedByContext,
                   Released
            <4>3. CallsHolding(r) = {t} /\ nanswer[r] = 0
                BY <2>1, <4>1, <4>2 DEF HeldByCall
            <4>4. nanswer'[r] <= 1
                BY <1>1, <2>1, <3>2, <4>3 DEF Forward
            <4>5. pc'[t] = "exit" /\ r \notin hostQ' /\ nfree'[r] = 0
                BY <1>1, <2>1, <4>2, <4>3 DEF HeldByCall
            <4>6. ContextsOwning(r)' = {} /\ CallsHolding(r)' = {t}
                BY <3>1, <4>2, <4>3 DEF HeldByCall
            <4>. QED
                BY <4>4, <4>5, <4>6 DEF ReqPlaced, HeldByCall
        <3>3. CASE r # local[t]
            <4>1. nanswer'[r] = nanswer[r]
                BY <1>1, <2>1, <3>3 DEF Forward
            <4>2. \A u \in CallsHolding(r) : pc'[u] = pc[u]
                BY <1>1, <2>1, <3>3 DEF CallsHolding
            <4>. QED
                BY <1>2, <2>1, <3>1, <4>1, <4>2 DEF ReqPlaced, WithHost,
                   OwnedByContext, HeldByCall, Released
        <3>. QED
            BY <3>2, <3>3
    <2>. QED
        BY <2>2, <2>3, <2>4 DEF ReqParts
\* exit: FuseFreeExternal frees what the call still holds.
<1>12. ASSUME NEW t \in Thread, Return(t) PROVE ReqParts'
    <2>1. /\ pc[t] = "exit" /\ pc' = [pc EXCEPT ![t] = "idle"]
          /\ local' = [local EXCEPT ![t] = NoReq]
          /\ nfree' = IF local[t] = NoReq THEN nfree
                      ELSE [nfree EXCEPT ![local[t]] = @ + 1]
          /\ UNCHANGED <<alloc, ireq, hostQ, nanswer>>
        BY <1>12 DEF Return, ctxVars
    <2>2. FreeOwnsNothing'
        BY <1>2, <2>1 DEF FreeOwnsNothing
    <2>3. LocalOnStatusPath'
        BY <1>1, <1>2, <2>1 DEF LocalOnStatusPath
    <2>4. ASSUME NEW r \in HostReq PROVE ReqPlaced(r)'
        <3>1. ContextsOwning(r)' = ContextsOwning(r)
            BY <2>1 DEF ContextsOwning
        <3>2. CallsHolding(r)' = CallsHolding(r) \ {t}
            BY <1>1, <2>1 DEF CallsHolding
        <3>3. CASE r = local[t]
            <4>1. t \in CallsHolding(r)
                BY <3>3 DEF CallsHolding
            <4>2. HeldByCall(r) /\ r \notin hostQ
                BY <1>2, <4>1 DEF ReqPlaced, WithHost, OwnedByContext,
                   Released
            <4>3. CallsHolding(r) = {t} /\ ContextsOwning(r) = {}
                  /\ nfree[r] = 0 /\ nanswer[r] <= 1
                BY <4>1, <4>2 DEF HeldByCall
            <4>4. nfree'[r] = 1
                BY <1>1, <2>1, <3>3, <4>3, WinFuseAssumption
            <4>. QED
                BY <2>1, <3>1, <3>2, <4>2, <4>3, <4>4 DEF ReqPlaced,
                   Released
        <3>4. CASE r # local[t]
            <4>1. nfree'[r] = nfree[r]
                BY <1>1, <2>1, <3>4
            <4>2. CallsHolding(r)' = CallsHolding(r)
                BY <3>2, <3>4 DEF CallsHolding
            <4>3. \A u \in CallsHolding(r) : pc'[u] = pc[u]
                BY <1>1, <2>1, <3>4 DEF CallsHolding
            <4>. QED
                BY <1>2, <2>1, <3>1, <4>1, <4>2, <4>3 DEF ReqPlaced,
                   WithHost, OwnedByContext, HeldByCall, Released
        <3>. QED
            BY <3>3, <3>4
    <2>. QED
        BY <2>2, <2>3, <2>4 DEF ReqParts
\* The steps that delete the context a call holds.
<1>13. ASSUME NEW t \in Thread, NEW v, v # "reqstatus",
              pc[t] \in {"rspproc", "reqproc"},
              pc' = [pc EXCEPT ![t] = v],
              DeleteCtx(held[t]),
              UNCHANGED <<local, hostQ>>,
              \A q \in HostReq : q # ireq[held[t]] => nanswer'[q] = nanswer[q],
              ireq[held[t]] \in HostReq =>
                  nanswer'[ireq[held[t]]] <= nanswer[ireq[held[t]]] + 1
       PROVE  ReqParts'
    <2>1. held[t] \in Ctx /\ held[t] \in alloc
        BY <1>1, <1>3, <1>13
    <2>2. \A u \in Thread : pc'[u] # pc[u] =>
              pc[u] \notin {"reqstatus", "exit"} /\ pc'[u] # "reqstatus"
        BY <1>1, <1>13
    <2>3. FreeOwnsNothing'
        BY <1>1, <1>2, <1>13, <2>1 DEF FreeOwnsNothing, DeleteCtx
    <2>4. LocalOnStatusPath'
        BY <1>2, <1>13, <2>2, LocalFrame
    <2>5. ASSUME NEW r \in HostReq PROVE ReqPlaced(r)'
        BY <1>1, <1>2, <1>13, <2>1, <2>2, DeleteReleases
    <2>. QED
        BY <2>3, <2>4, <2>5 DEF ReqParts
<1>14. ASSUME NEW t \in Thread, RspProcessSelf(t) PROVE ReqParts'
    <2>1. PICK v \in {"req", "exit"} : pc' = [pc EXCEPT ![t] = v]
        BY <1>14 DEF RspProcessSelf, AfterRsp
    <2>2. /\ pc[t] = "rspproc" /\ DeleteCtx(held[t])
          /\ UNCHANGED <<local, hostQ, nanswer>>
        BY <1>14 DEF RspProcessSelf
    <2>3. /\ \A q \in HostReq : q # ireq[held[t]] => nanswer'[q] = nanswer[q]
          /\ ireq[held[t]] \in HostReq =>
                nanswer'[ireq[held[t]]] <= nanswer[ireq[held[t]]] + 1
        BY <1>1, <2>2
    <2>. QED
        BY <2>1, <2>2, <2>3, <1>13
<1>15. ASSUME NEW t \in Thread, RspProcessHost(t) PROVE ReqParts'
    <2>1. PICK ok \in BOOLEAN :
            /\ Forward(ireq[held[t]], ok)
            /\ pc' = [pc EXCEPT ![t] = IF ok THEN AfterRsp(t) ELSE "exit"]
        BY <1>15 DEF RspProcessHost
    <2>2. /\ pc[t] = "rspproc" /\ DeleteCtx(held[t])
          /\ UNCHANGED <<local, hostQ>>
        BY <1>15 DEF RspProcessHost
    <2>3. PICK v \in {"req", "exit"} : pc' = [pc EXCEPT ![t] = v]
        BY <2>1 DEF AfterRsp
    <2>4. /\ \A q \in HostReq : q # ireq[held[t]] => nanswer'[q] = nanswer[q]
          /\ ireq[held[t]] \in HostReq =>
                nanswer'[ireq[held[t]]] <= nanswer[ireq[held[t]]] + 1
        BY <1>1, <2>1, ForwardOne
    <2>. QED
        BY <2>2, <2>3, <2>4, <1>13
<1>16. ASSUME NEW t \in Thread, ReqCreate(t) PROVE ReqParts'
    <2>1. PICK ok \in BOOLEAN : Forward(ireq[held[t]], ok)
        BY <1>16 DEF ReqCreate
    <2>2. /\ pc[t] = "reqproc" /\ pc' = [pc EXCEPT ![t] = "exit"]
          /\ DeleteCtx(held[t])
          /\ UNCHANGED <<local, hostQ>>
        BY <1>16 DEF ReqCreate
    <2>3. /\ \A q \in HostReq : q # ireq[held[t]] => nanswer'[q] = nanswer[q]
          /\ ireq[held[t]] \in HostReq =>
                nanswer'[ireq[held[t]]] <= nanswer[ireq[held[t]]] + 1
        BY <1>1, <2>1, ForwardOne
    <2>. QED
        BY <2>2, <2>3, <1>13
\* A forget context is posted again (no request moves) or deleted.
<1>17. ASSUME NEW t \in Thread, ReqForget(t) PROVE ReqParts'
    <2>1. /\ pc[t] = "reqproc" /\ pc' = [pc EXCEPT ![t] = "exit"]
          /\ UNCHANGED <<local, hostQ, nanswer>>
        BY <1>17 DEF ReqForget
    <2>2. \/ UNCHANGED <<alloc, ireq, nfree>>
          \/ DeleteCtx(held[t])
        BY <1>17 DEF ReqForget
    <2>3. CASE UNCHANGED <<alloc, ireq, nfree>>
        BY <1>1, <2>1, <2>3, <1>4
    <2>4. CASE DeleteCtx(held[t])
        <3>1. /\ \A q \in HostReq : q # ireq[held[t]] => nanswer'[q] = nanswer[q]
              /\ ireq[held[t]] \in HostReq =>
                    nanswer'[ireq[held[t]]] <= nanswer[ireq[held[t]]] + 1
            BY <1>1, <2>1
        <3>. QED
            BY <2>1, <2>4, <3>1, <1>13
    <2>. QED
        BY <2>2, <2>3, <2>4
\* FuseIoqDelete: every live context is queued (no call runs), so every
\* request a context owns is released, each once.
<1>18. CASE Fini
    <2>1. \A t \in Thread : pc[t] = "idle" /\ held[t] = NoCtx
        BY <1>18 DEF Fini, OwnInv, HeldOnlyInProc
    <2>2. Queued = alloc
        <3>0. pending \in Seq(Ctx) /\ processing \subseteq Ctx
            BY DEF OwnInv, TypeInv, TypeOK
        <3>1. ASSUME NEW c \in Queued PROVE c \in alloc
            <4>1. c \in Ctx /\ (InPending(c) \/ c \in processing)
                BY <3>0 DEF Queued, InPending
            <4>. QED
                BY <4>1 DEF OwnInv, CtxOwnership
        <3>2. ASSUME NEW c \in alloc PROVE c \in Queued
            <4>1. InPending(c) \/ c \in processing
                BY <1>1, <2>1, WinFuseAssumption DEF OwnInv, CtxOwnership
            <4>. QED
                BY <4>1 DEF Queued, InPending
        <3>. QED
            BY <3>1, <3>2
    <2>3. /\ alloc' = {}
          /\ ireq' = [c \in Ctx |-> IF c \in alloc THEN NoReq ELSE ireq[c]]
          /\ nfree' = [r \in HostReq |->
                         nfree[r] + Cardinality({c \in alloc : ireq[c] = r})]
          /\ UNCHANGED <<local, hostQ, nanswer, pc>>
        BY <1>18, <2>2 DEF Fini, DeleteQueued, thrVars
    <2>4. FreeOwnsNothing'
        BY <1>1, <1>2, <2>3 DEF FreeOwnsNothing
    <2>5. LocalOnStatusPath'
        BY <1>2, <2>3 DEF LocalOnStatusPath
    <2>6. ASSUME NEW r \in HostReq PROVE ReqPlaced(r)'
        <3>1. CallsHolding(r) = {}
            BY <1>1, <1>2, <2>1 DEF CallsHolding, LocalOnStatusPath
        <3>2. ContextsOwning(r)' = {} /\ CallsHolding(r)' = {}
            BY <2>3, <3>1 DEF ContextsOwning, CallsHolding
        <3>3. nfree'[r] = nfree[r] + Cardinality(ContextsOwning(r))
            BY <2>3 DEF ContextsOwning
        <3>4. CASE WithHost(r) \/ (r \notin hostQ /\ Released(r))
            <4>0. ContextsOwning(r) = {}
                BY <3>4 DEF WithHost, Released
            <4>1. nfree'[r] = nfree[r]
                BY <1>1, <3>3, <4>0, FS_EmptySet
            <4>. QED
                BY <2>3, <3>2, <3>4, <4>1 DEF ReqPlaced, WithHost, Released
        <3>5. CASE r \notin hostQ /\ OwnedByContext(r)
            <4>1. PICK c \in Ctx : ContextsOwning(r) = {c}
                BY <3>5 DEF OwnedByContext
            <4>2. Cardinality({c}) = 1
                BY FS_Singleton
            <4>3. nfree'[r] = 1
                BY <3>3, <3>5, <4>1, <4>2 DEF OwnedByContext
            <4>. QED
                BY <2>3, <3>2, <3>5, <4>3 DEF ReqPlaced, Released,
                   OwnedByContext
        <3>6. ~HeldByCall(r)
            BY <3>1 DEF HeldByCall
        <3>. QED
            BY <1>2, <3>4, <3>5, <3>6 DEF ReqPlaced
    <2>. QED
        BY <2>4, <2>5, <2>6 DEF ReqParts
<1>19. ASSUME NEW t \in Thread,
              \/ DaemonPoll(t) \/ DaemonReply(t) \/ DaemonReplay(t)
              \/ Kernel(t) \/ ReqCancel(t)
       PROVE  ReqParts'
    BY <1>5, <1>6, <1>9, <1>10, <1>11, <1>12, <1>14, <1>15, <1>16, <1>17,
       <1>19 DEF Kernel
<1>. QED
    BY <1>7, <1>8, <1>18, <1>19 DEF Next

\* The memory discipline of internal requests (spec 5 and 8), for every
\* number of threads, contexts, internal requests and inodes: a request the
\* host handed out is owned by one context or one call, or freed exactly
\* once; it is answered at most once, and never while a context owns it.
THEOREM RequestsAccounted == Spec => []RequestAccounting
<1>1. Spec => []ReqInv
    BY ReqInvInit, ReqInvNext, PTL DEF Spec
<1>. QED
    BY <1>1, ReqInvIsAccounting, PTL
-----------------------------------------------------------------------------
(* WinFuse implements the host's view of internal requests (HostRequests) *)
(* under the identity mapping.  Each step of the driver admits, answers,   *)
(* frees, or answers and frees requests the way the contract allows, or    *)
(* leaves them alone; ReqInv says the request a step touches is in use.    *)

\* The request a live context owns is in use and unanswered.
LEMMA OwnedInUse ==
    ASSUME ReqParts, NEW c \in alloc, NEW r \in HostReq, ireq[c] = r
    PROVE  r \notin hostQ /\ nfree[r] = 0 /\ nanswer[r] = 0
<1>1. c \in ContextsOwning(r)
    BY DEF ContextsOwning
<1>2. ReqPlaced(r)
    BY DEF ReqParts
<1>. QED
    BY <1>1, <1>2 DEF ReqPlaced, WithHost, OwnedByContext, HeldByCall,
       Released

\* The request a call holds is in use, and unanswered on the status path.
LEMMA HeldInUse ==
    ASSUME ReqParts, NEW t \in Thread, NEW r \in HostReq, local[t] = r
    PROVE  /\ r \notin hostQ /\ nfree[r] = 0
           /\ pc[t] = "reqstatus" => nanswer[r] = 0
<1>1. t \in CallsHolding(r)
    BY DEF CallsHolding
<1>2. ReqPlaced(r)
    BY DEF ReqParts
<1>3. HeldByCall(r) /\ r \notin hostQ
    BY <1>1, <1>2 DEF ReqPlaced, WithHost, OwnedByContext, Released
<1>. QED
    BY <1>1, <1>3 DEF HeldByCall

\* Freeing a request for the first time sets its count to one.
LEMMA FreeOnce ==
    ASSUME nfree \in [HostReq -> Nat], NEW r \in HostReq, nfree[r] = 0,
           nfree' = [nfree EXCEPT ![r] = @ + 1]
    PROVE  nfree' = [q \in HostReq |-> IF q \in {r} THEN 1 ELSE nfree[q]]
<1> DEFINE g == [q \in HostReq |-> IF q \in {r} THEN 1 ELSE nfree[q]]
<1>1. nfree' \in [HostReq -> Nat] /\ g \in [HostReq -> Nat]
    OBVIOUS
<1>2. ASSUME NEW q \in HostReq PROVE nfree'[q] = g[q]
    BY <1>2
<1>. QED
    BY <1>1, <1>2, Zenon

LEMMA HostInit == Init => HR!Init
BY DEF Init, HR!Init

\* FuseContextDelete of a live context, possibly right after forwarding its
\* response: a stutter of the contract when the context owns no request,
\* else Free or AnswerFree of its request.
LEMMA DeleteMaps ==
    ASSUME ReqParts, nfree \in [HostReq -> Nat],
           ireq \in [Ctx -> HostReq \cup {NoReq}],
           NEW c \in Ctx, c \in alloc, DeleteCtx(c), UNCHANGED hostQ,
           \/ nanswer' = nanswer
           \/ ireq[c] \in HostReq /\ nanswer' = [nanswer EXCEPT ![ireq[c]] = 1]
    PROVE  [HR!Next]_HR!vars
<1>1. CASE ireq[c] = NoReq
    <2>1. nfree' = nfree /\ nanswer' = nanswer
        BY <1>1, WinFuseAssumption DEF DeleteCtx
    <2>. QED
        BY <2>1 DEF HR!vars
<1>2. CASE ireq[c] \in HostReq
    <2> DEFINE r == ireq[c]
    <2>1. r \notin hostQ /\ nfree[r] = 0 /\ nanswer[r] = 0
        BY <1>2, OwnedInUse
    <2>2. nfree' = [q \in HostReq |-> IF q \in {r} THEN 1 ELSE nfree[q]]
        <3>1. nfree' = [nfree EXCEPT ![r] = @ + 1]
            BY <1>2, WinFuseAssumption DEF DeleteCtx
        <3>. QED
            BY <1>2, <2>1, <3>1, FreeOnce
    <2>3. CASE nanswer' = nanswer
        <3>. HR!Free({r})
            BY <1>2, <2>1, <2>2, <2>3 DEF HR!Free, HR!InUse
        <3>. QED
            BY <1>2 DEF HR!Next
    <2>4. CASE nanswer' = [nanswer EXCEPT ![r] = 1]
        <3>1. nfree' = [nfree EXCEPT ![r] = 1]
            BY <1>2, <2>2
        <3>2. HR!AnswerFree(r)
            BY <1>2, <2>1, <2>4, <3>1 DEF HR!AnswerFree, HR!InUse
        <3>. QED
            BY <1>2, <3>2 DEF HR!Next
    <2>. QED
        BY <2>3, <2>4
<1>. QED
    BY <1>1, <1>2

\* What forwarding does to the answer counts, in the form DeleteMaps takes.
LEMMA ForwardMaps ==
    ASSUME nanswer \in [HostReq -> Nat], NEW q, NEW ok \in BOOLEAN,
           Forward(q, ok), q \in HostReq => nanswer[q] = 0
    PROVE  \/ nanswer' = nanswer
           \/ q \in HostReq /\ nanswer' = [nanswer EXCEPT ![q] = 1]
<1>1. CASE ~ok
    BY <1>1 DEF Forward
<1>2. CASE ok /\ q \in HostReq
    BY <1>2 DEF Forward
<1>3. CASE ok /\ q \notin HostReq
    <2>1. nanswer' = [nanswer EXCEPT ![q] = @ + 1]
        BY <1>3 DEF Forward
    <2>. QED
        BY <1>3, <2>1
<1>. QED
    BY <1>1, <1>2, <1>3

LEMMA HostNext == ReqInv /\ [Next]_vars => [HR!Next]_HR!vars
<1> SUFFICES ASSUME OwnInv, ReqParts, [Next]_vars PROVE [HR!Next]_HR!vars
    BY DEF ReqInv, ReqParts
<1>1. /\ alloc \subseteq Ctx
      /\ ireq \in [Ctx -> HostReq \cup {NoReq}]
      /\ local \in [Thread -> HostReq \cup {NoReq}]
      /\ held \in [Thread -> Ctx \cup {NoCtx}]
      /\ nfree \in [HostReq -> Nat] /\ nanswer \in [HostReq -> Nat]
      /\ \A t \in Thread : pc[t] \in {"rspproc", "reqproc"} =>
            held[t] \in Ctx /\ held[t] \in alloc
      /\ \A t \in Thread : pc[t] = "reqstatus" => local[t] \in HostReq
    BY DEF OwnInv, TypeInv, TypeOK, ThreadShape, CtxOwnership
\* The steps that leave the host's requests alone are stutters.
<1>2. ASSUME UNCHANGED <<hostQ, nanswer, nfree>> PROVE [HR!Next]_HR!vars
    BY <1>2 DEF HR!vars
<1>3. ASSUME NEW t \in Thread,
             \/ DaemonPoll(t) \/ DaemonReply(t) \/ DaemonReplay(t)
             \/ RspMatch(t) \/ RspSpurious(t) \/ ReqPop(t) \/ ReqEmpty(t)
             \/ ReqWake(t) \/ ReqCancel(t) \/ ReqAdmitNone(t)
             \/ ReqExchange(t)
      PROVE  [HR!Next]_HR!vars
    <2>1. UNCHANGED <<hostQ, nanswer, nfree>>
        BY <1>3 DEF DaemonPoll, DaemonReply, DaemonReplay, RspMatch,
           RspSpurious, ReqPop, ReqEmpty, ReqWake, ReqCancel, ReqAdmitNone,
           ReqExchange, hostVars
    <2>. QED
        BY <2>1, <1>2
<1>4. CASE Expire \/ FiniCache \/ Terminated \/ UNCHANGED vars
    BY <1>4, <1>2 DEF Expire, FiniCache, Terminated, vars, hostVars
\* FuseContextCreate, or its status-only variant: the host hands out r.
<1>5. ASSUME NEW t \in Thread, ReqAdmitCtx(t) \/ ReqAdmitStatus(t)
      PROVE  [HR!Next]_HR!vars
    <2>1. PICK r \in hostQ : hostQ' = hostQ \ {r}
        BY <1>5 DEF ReqAdmitCtx, ReqAdmitStatus
    <2>2. UNCHANGED <<nanswer, nfree>>
        BY <1>5 DEF ReqAdmitCtx, ReqAdmitStatus, hostVars
    <2>3. r \in HostReq
        BY DEF OwnInv, TypeInv, TypeOK
    <2>4. HR!Admit(r)
        BY <2>1, <2>2 DEF HR!Admit
    <2>. QED
        BY <2>3, <2>4 DEF HR!Next
\* The status-only response: the answer of the request the call holds.
<1>6. ASSUME NEW t \in Thread, ReqStatus(t) PROVE [HR!Next]_HR!vars
    <2> DEFINE r == local[t]
    <2>1. /\ pc[t] = "reqstatus" /\ r \in HostReq
          /\ UNCHANGED <<hostQ, nfree>>
          /\ \E ok \in BOOLEAN : Forward(r, ok)
        BY <1>1, <1>6 DEF ReqStatus
    <2>2. r \notin hostQ /\ nfree[r] = 0 /\ nanswer[r] = 0
        BY <2>1, HeldInUse
    <2>3. CASE nanswer' = nanswer
        BY <2>1, <2>3, <1>2
    <2>4. CASE nanswer' = [nanswer EXCEPT ![r] = @ + 1]
        <3>. HR!Answer(r)
            BY <2>1, <2>2, <2>4 DEF HR!Answer, HR!InUse
        <3>. QED
            BY <2>1 DEF HR!Next
    <2>. QED
        BY <2>1, <2>3, <2>4 DEF Forward
\* exit: FuseFreeExternal of the request the call still holds.
<1>7. ASSUME NEW t \in Thread, Return(t) PROVE [HR!Next]_HR!vars
    <2> DEFINE r == local[t]
    <2>1. /\ UNCHANGED <<hostQ, nanswer>>
          /\ nfree' = IF r = NoReq THEN nfree ELSE [nfree EXCEPT ![r] = @ + 1]
        BY <1>7 DEF Return
    <2>2. CASE r = NoReq
        BY <2>1, <2>2, <1>2
    <2>3. CASE r # NoReq
        <3>1. r \in HostReq
            BY <1>1, <2>3
        <3>2. r \notin hostQ /\ nfree[r] = 0
            BY <3>1, HeldInUse
        <3>3. nfree' = [q \in HostReq |-> IF q \in {r} THEN 1 ELSE nfree[q]]
            BY <1>1, <2>1, <2>3, <3>1, <3>2, FreeOnce
        <3>4. HR!Free({r})
            BY <2>1, <3>2, <3>3 DEF HR!Free, HR!InUse
        <3>. QED
            BY <3>1, <3>4 DEF HR!Next
    <2>. QED
        BY <2>2, <2>3
\* The deleting steps, after forwarding (RspProcessHost, ReqCreate) or not
\* (RspProcessSelf, the last batch of a forget context).
<1>8. ASSUME NEW t \in Thread,
             RspProcessSelf(t) \/ RspProcessHost(t) \/ ReqCreate(t)
      PROVE  [HR!Next]_HR!vars
    <2> DEFINE c == held[t]
    <2>1. /\ pc[t] \in {"rspproc", "reqproc"}
          /\ DeleteCtx(c) /\ UNCHANGED hostQ
          /\ \/ nanswer' = nanswer
             \/ \E ok \in BOOLEAN : Forward(ireq[c], ok)
        BY <1>8 DEF RspProcessSelf, RspProcessHost, ReqCreate
    <2>2. c \in Ctx /\ c \in alloc
        BY <1>1, <2>1
    <2>3. ireq[c] \in HostReq => nanswer[ireq[c]] = 0
        BY <2>2, OwnedInUse
    <2>4. \/ nanswer' = nanswer
          \/ ireq[c] \in HostReq /\ nanswer' = [nanswer EXCEPT ![ireq[c]] = 1]
        BY <1>1, <2>1, <2>3, ForwardMaps
    <2>. QED
        BY <1>1, <2>1, <2>2, <2>4, DeleteMaps
<1>9. ASSUME NEW t \in Thread, ReqForget(t) PROVE [HR!Next]_HR!vars
    <2> DEFINE c == held[t]
    <2>1. /\ pc[t] = "reqproc" /\ UNCHANGED <<hostQ, nanswer>>
          /\ \/ UNCHANGED nfree
             \/ DeleteCtx(c)
        BY <1>9 DEF ReqForget
    <2>2. CASE UNCHANGED nfree
        BY <2>1, <2>2, <1>2
    <2>3. CASE DeleteCtx(c)
        BY <1>1, <2>1, <2>3, DeleteMaps
    <2>. QED
        BY <2>1, <2>2, <2>3
\* FuseIoqDelete frees the request of every live context at once.
<1>10. CASE Fini
    <2> DEFINE S == {r \in HostReq : \E c \in alloc : ireq[c] = r}
    <2>1. Queued = alloc
        <3>1. \A t \in Thread : pc[t] = "idle" /\ held[t] = NoCtx
            BY <1>10 DEF Fini, OwnInv, HeldOnlyInProc
        <3>2. pending \in Seq(Ctx) /\ processing \subseteq Ctx
            BY DEF OwnInv, TypeInv, TypeOK
        <3>3. Queued \subseteq alloc
            BY <3>2 DEF OwnInv, CtxOwnership, Queued, InPending
        <3>4. ASSUME NEW c \in alloc PROVE c \in Queued
            <4>1. InPending(c) \/ c \in processing
                BY <1>1, <3>1, WinFuseAssumption DEF OwnInv, CtxOwnership
            <4>. QED
                BY <4>1 DEF Queued, InPending
        <3>. QED
            BY <3>3, <3>4
    <2>2. /\ nfree' = [r \in HostReq |->
                         nfree[r] + Cardinality({c \in alloc : ireq[c] = r})]
          /\ UNCHANGED <<hostQ, nanswer>>
        BY <1>10, <2>1 DEF Fini, DeleteQueued
    \* A request is owned by at most one context, so each is freed once.
    <2>3. ASSUME NEW r \in HostReq
          PROVE  nfree'[r] = IF r \in S THEN 1 ELSE nfree[r]
        <3>1. CASE r \in S
            <4>1. PICK c \in alloc : ireq[c] = r
                BY <3>1
            <4>2. nfree[r] = 0
                BY <4>1, OwnedInUse
            <4>3. ContextsOwning(r) = {c}
                <5>1. ReqPlaced(r) /\ c \in ContextsOwning(r)
                    BY <4>1 DEF ReqParts, ContextsOwning
                <5>. QED
                    BY <5>1 DEF ReqPlaced, WithHost, OwnedByContext,
                       HeldByCall, Released
            <4>4. Cardinality({d \in alloc : ireq[d] = r}) = 1
                BY <4>3, FS_Singleton DEF ContextsOwning
            <4>. QED
                BY <1>1, <2>2, <3>1, <4>2, <4>4
        <3>2. CASE r \notin S
            <4>1. {d \in alloc : ireq[d] = r} = {}
                BY <3>2
            <4>. QED
                BY <1>1, <2>2, <3>2, <4>1, FS_EmptySet
        <3>. QED
            BY <3>1, <3>2
    <2>4. \A r \in S : r \notin hostQ /\ nfree[r] = 0
        BY OwnedInUse
    <2>5. CASE S = {}
        <3>1. nfree' = nfree
            BY <1>1, <2>2, <2>3, <2>5
        <3>. QED
            BY <2>2, <3>1, <1>2
    <2>6. CASE S # {}
        <3>1. nfree' = [r \in HostReq |-> IF r \in S THEN 1 ELSE nfree[r]]
            BY <1>1, <2>2, <2>3
        <3>2. HR!Free(S)
            BY <2>2, <2>4, <3>1 DEF HR!Free, HR!InUse
        <3>. QED
            BY <2>6, <3>2 DEF HR!Next
    <2>. QED
        BY <2>5, <2>6
<1>11. ASSUME NEW t \in Thread,
              \/ DaemonPoll(t) \/ DaemonReply(t) \/ DaemonReplay(t)
              \/ Kernel(t) \/ ReqCancel(t)
       PROVE  [HR!Next]_HR!vars
    BY <1>3, <1>5, <1>6, <1>7, <1>8, <1>9, <1>11 DEF Kernel
<1>. QED
    BY <1>4, <1>10, <1>11 DEF Next

\* The driver keeps the host's contract on internal requests (spec 5, 8),
\* for every value of the constants: it answers a request at most once and
\* never after freeing it, and frees it exactly once (HostContract).
THEOREM HostRefinement == Spec => HostContract
<1>1. Spec => []ReqInv
    BY ReqInvInit, ReqInvNext, PTL DEF Spec
<1>2. ReqInv /\ [Next]_vars => [HR!Next]_HR!vars
    BY HostNext
<1>. QED
    BY <1>1, <1>2, HostInit, PTL DEF Spec, HostContract, HR!Spec
=============================================================================
