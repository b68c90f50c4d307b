------------------------- MODULE WinFuseFiniProofs -------------------------
(***************************************************************************)
(* FuseDeviceFini deletes the cache only after the IOQ has deleted every   *)
(* context (fuse.c 104-119), for every value of the constants.  Once       *)
(* FuseIoqDelete has run no context is live and every thread is idle, and  *)
(* no step but FuseCacheDelete can follow: transact calls, daemon calls    *)
(* and the expiration routine all need the device up.                      *)
(***************************************************************************)
EXTENDS WinFuseOwnProofs

\* The teardown facts: once the device is down no context is live and no
\* call runs, and the cache goes only after the device is down.
FiniInv ==
    /\ ~up => alloc = {} /\ \A t \in Thread : pc[t] = "idle"
    /\ ~cacheLive => ~up

LEMMA FiniInvInit == Init => FiniInv
BY DEF Init, FiniInv

\* Every step of the driver inside a call, and the cancellation of its
\* wait, needs the call to be running.
LEMMA KernelBusy ==
    ASSUME NEW t \in Thread, Kernel(t) \/ ReqCancel(t)
    PROVE  pc[t] # "idle"
BY DEF Kernel, ReqCancel, RspMatch, RspSpurious, RspProcessSelf,
   RspProcessHost, ReqPop, ReqEmpty, ReqWake, ReqAdmitNone, ReqAdmitCtx,
   ReqAdmitStatus, ReqStatus, ReqExchange, ReqCreate, ReqForget, Return

\* FuseIoqDelete with every thread idle deletes every live context: each
\* is pending or processing, since no call holds one.
LEMMA FiniDeletesAll ==
    ASSUME TypeInv, HeldOnlyInProc, Own, Fini
    PROVE  alloc' = {}
<1>1. \A t \in Thread : held[t] = NoCtx
    BY DEF Fini, HeldOnlyInProc
<1>2. \A c \in alloc : c \in Queued
    <2> SUFFICES ASSUME NEW c \in alloc PROVE c \in Queued
        OBVIOUS
    <2>1. c \in Ctx
        BY DEF TypeInv, TypeOK
    <2>2. ~\E t \in Thread : held[t] = c
        BY <1>1, <2>1, WinFuseAssumption
    <2>3. Elem(pending, c) \/ c \in processing
        BY <2>1, <2>2 DEF Own
    <2>. QED
        BY <2>3 DEF Elem, Queued
<1>3. alloc' = alloc \ Queued
    BY DEF Fini, DeleteQueued
<1>. QED
    BY <1>2, <1>3

LEMMA FiniInvNext ==
    OwnInv /\ FiniInv /\ [Next]_vars => FiniInv'
<1> SUFFICES ASSUME TypeInv, HeldOnlyInProc, Own, FiniInv, [Next]_vars
             PROVE  FiniInv'
    BY OwnIsCtxOwnership DEF OwnInv
\* While the device is up, only Fini brings it down, and the cache is
\* still there.
<1>1. CASE up
    <2>1. cacheLive
        BY <1>1 DEF FiniInv
    <2>2. CASE Fini
        <3>1. alloc' = {}
            BY <2>2, FiniDeletesAll
        <3>2. ~up' /\ pc' = pc /\ \A t \in Thread : pc[t] = "idle"
            BY <2>2 DEF Fini, thrVars
        <3>. QED
            BY <3>1, <3>2 DEF FiniInv
    <2>3. CASE ~Fini
        <3>1. up' = up /\ cacheLive' = cacheLive
            BY <1>1, <2>3 DEF Next, Kernel, DaemonPoll, DaemonReply,
               DaemonReplay, RspMatch, RspSpurious, RspProcessSelf,
               RspProcessHost, ReqPop, ReqEmpty, ReqWake, ReqCancel,
               ReqAdmitNone, ReqAdmitCtx, ReqAdmitStatus, ReqStatus,
               ReqExchange, ReqCreate, ReqForget, Return, Expire, FiniCache,
               Terminated, vars, instVars
        <3>. QED
            BY <1>1, <2>1, <3>1 DEF FiniInv
    <2>. QED
        BY <2>2, <2>3
\* Once it is down nothing runs but FuseCacheDelete.
<1>2. CASE ~up
    <2>1. alloc = {} /\ \A t \in Thread : pc[t] = "idle"
        BY <1>2 DEF FiniInv
    <2>2. ASSUME NEW t \in Thread,
                 \/ DaemonPoll(t) \/ DaemonReply(t) \/ DaemonReplay(t)
                 \/ Kernel(t) \/ ReqCancel(t)
          PROVE  FALSE
        <3>1. CASE DaemonPoll(t) \/ DaemonReply(t) \/ DaemonReplay(t)
            BY <1>2, <3>1 DEF DaemonPoll, DaemonReply, DaemonReplay
        <3>2. CASE Kernel(t) \/ ReqCancel(t)
            BY <2>1, <3>2, KernelBusy
        <3>. QED
            BY <2>2, <3>1, <3>2
    <2>3. ~Expire /\ ~Fini
        BY <1>2 DEF Expire, Fini
    <2>4. FiniCache \/ Terminated \/ UNCHANGED vars
        BY <2>2, <2>3 DEF Next
    <2>5. /\ alloc' = alloc /\ pc' = pc /\ up' = up
        BY <2>4 DEF FiniCache, Terminated, vars, ctxVars, instVars, thrVars
    <2>. QED
        BY <1>2, <2>1, <2>5 DEF FiniInv
<1>. QED
    BY <1>1, <1>2

\* Fini order (fuse.c 104-115, spec 3), for every number of threads,
\* contexts, internal requests and inodes: FuseCacheDelete runs only after
\* the device stopped serving calls and FuseIoqDelete removed every
\* context, so no forget list still references a cache item.
THEOREM TeardownOrder == Spec => []CacheOutlivesContexts
<1>1. Spec => [](OwnInv /\ FiniInv)
    BY OwnInvInit, OwnInvNext, FiniInvInit, FiniInvNext, PTL DEF Spec
<1>2. FiniInv => CacheOutlivesContexts
    BY DEF FiniInv, CacheOutlivesContexts
<1>. QED
    BY <1>1, <1>2, PTL
=============================================================================
