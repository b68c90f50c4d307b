------------------------------ MODULE WinFuse ------------------------------
(***************************************************************************)
(* The request multiplexer of the WinFuse kernel driver: FuseDeviceTransact *)
(* (src/winfuse/fuse.c) run by several daemon worker threads at once, the   *)
(* I/O queue it shares (pending FIFO and processing map), the contexts of   *)
(* proto.c (INIT, the one-exchange send routines, CREATE, FORGET and        *)
(* BATCH_FORGET), the expiration routine that hands expired cache items to *)
(* a forget context, the fsext provider (the host) and the FUSE daemon.    *)
(*                                                                         *)
(* A context is named by its address; the address is also the FUSE unique *)
(* that FuseProtoInitRequest stamps on every request it fills.             *)
(***************************************************************************)
EXTENDS Integers, Sequences, FiniteSets

CONSTANTS
    Thread,         \* daemon worker threads calling FuseDeviceTransact
    Ctx,            \* FUSE_CONTEXT addresses (= the FUSE unique)
    HostReq,        \* internal requests the fsext provider can hand out
    ReqKind,        \* ReqKind[r]: the Kind of internal request r
    Ino,            \* inode numbers the daemon can return from LOOKUP
    MaxLookup,      \* bound on successful LOOKUPs of one inode
    BatchCap,       \* FUSE_PROTO_FORGET_ONE entries that fit in REQ_SIZEMIN
    UseBatchForget, \* forget contexts fill BATCH_FORGET (else FORGET)
    MaxDup,         \* bound on responses the daemon replays
    NoCtx, NoReq, NoMsg

\* Kinds of internal request the send routines of proto.c serve.  CREATE is
\* the stub FuseProtoSendCreate (coro_break only); the others fill one
\* request, coro_yield, and read the reply.
OpKind == {"LOOKUP", "GETATTR", "OPEN", "OPENDIR", "CREATE"}
ExchangeKind == OpKind \ {"CREATE"}
Hint == OpKind \cup {"INIT", "FORGET", "none"}

\* VersionMajor: 0 before INIT completes, the protocol major after, and the
\* (UINT32)-1 sentinel when the INIT exchange was refused.
FuseProtoVersion == 7
VersionDenied == -1

ASSUME WinFuseAssumption ==
    /\ Ctx # {} /\ IsFiniteSet(Ctx)
    /\ ReqKind \in [HostReq -> OpKind]
    /\ MaxLookup \in Nat
    /\ BatchCap \in Nat \ {0}
    /\ UseBatchForget \in BOOLEAN
    /\ MaxDup \in Nat
    /\ NoCtx \notin Ctx /\ NoReq \notin HostReq
    /\ NoMsg \notin [unique : Ctx, op : HostReq \cup {"INIT"}]

\* A FUSE request as far as the daemon's reply depends on it: the unique and
\* (a ghost field) the operation it belongs to.  A reply echoes both and
\* carries the daemon's error flag and, for LOOKUP, an inode.
Owner == HostReq \cup {"INIT"}
Msg == [unique : Ctx, op : Owner]
Rsp == [unique : Ctx, op : Owner, err : BOOLEAN]

PC == {"idle", "rsp", "rspproc", "req", "wait", "admit", "reqproc",
       "reqstatus", "exit"}

VARIABLES
    \* contexts (FUSE_CONTEXT)
    alloc,          \* live context addresses
    hint,           \* InternalResponse->Hint / Kind: which routine runs it
    ireq,           \* Context->InternalRequest, or NoReq
    flist,          \* Context->Forget.ForgetList (inodes)
    \* I/O queue (FUSE_IOQ)
    pending,        \* FIFO of contexts waiting to emit a request
    processing,     \* contexts waiting for the reply to their request
    \* instance
    versionMajor,   \* Instance->VersionMajor
    initEvent,      \* Instance->InitEvent (notification event)
    cache,          \* inodes the cache holds and may expire
    up,             \* the device is initialized and FuseDeviceFini has not run
    cacheLive,      \* Instance->Cache exists (FuseCacheDelete has not run)
    \* one FuseDeviceTransact call per thread
    pc,             \* where the call is
    inrsp,          \* FuseResponse of the call, or NoMsg
    outbuf,         \* the call has an output buffer (FuseRequest # 0)
    held,           \* Context, while the call owns it
    local,          \* InternalRequest local variable, or NoReq
    emit,           \* request written to the output buffer, or NoMsg
    \* the daemon
    owe,            \* request a worker received and owes a reply for
    replied,        \* replies the daemon has sent
    ndup,           \* replies replayed so far
    lookups,        \* successful LOOKUP replies cached, per inode
    forgot,         \* forget entries received, per inode
    \* the host (fsext provider)
    hostQ,          \* internal requests not yet handed out
    nanswer,        \* internal responses delivered, per request
    nfree           \* times each internal request was freed

ctxVars == <<alloc, hint, ireq, flist>>
ioqVars == <<pending, processing>>
instVars == <<versionMajor, initEvent, cache, up, cacheLive>>
thrVars == <<pc, inrsp, outbuf, held, local, emit>>
dmnVars == <<owe, replied, ndup, lookups, forgot>>
hostVars == <<hostQ, nanswer, nfree>>
vars == <<ctxVars, ioqVars, instVars, thrVars, dmnVars, hostVars>>

-----------------------------------------------------------------------------
(* Helpers                                                                  *)

InPending(c) == \E i \in 1..Len(pending) : pending[i] = c

\* The operation a context's request belongs to.
OwnerOf(c) == IF ireq[c] = NoReq THEN "INIT" ELSE ireq[c]

\* FuseContextDelete (context.c, not shown): the context's InternalRequest is
\* freed and its Fini hook runs (FuseProtoPostForget_ContextFini deletes the
\* items still on its forget list).
DeleteCtx(c) ==
    /\ alloc' = alloc \ {c}
    /\ hint' = [hint EXCEPT ![c] = "none"]
    /\ ireq' = [ireq EXCEPT ![c] = NoReq]
    /\ flist' = [flist EXCEPT ![c] = {}]
    /\ nfree' = IF ireq[c] = NoReq THEN nfree
                ELSE [nfree EXCEPT ![ireq[c]] = @ + 1]

\* The contexts the IOQ holds: the pending FIFO and the processing map.
Queued == {pending[i] : i \in 1..Len(pending)} \cup processing

\* FuseContextDelete of every context in Q, as FuseIoqDelete does it.
DeleteQueued(Q) ==
    /\ alloc' = alloc \ Q
    /\ hint' = [c \in Ctx |-> IF c \in Q THEN "none" ELSE hint[c]]
    /\ ireq' = [c \in Ctx |-> IF c \in Q THEN NoReq ELSE ireq[c]]
    /\ flist' = [c \in Ctx |-> IF c \in Q THEN {} ELSE flist[c]]
    /\ nfree' = [r \in HostReq |->
                    nfree[r] + Cardinality({c \in Q : ireq[c] = r})]

\* FspFsextProviderTransact with a response: delivered, or it fails.
Forward(r, ok) ==
    nanswer' = IF ok THEN [nanswer EXCEPT ![r] = @ + 1] ELSE nanswer

\* A LOOKUP reply with error 0 puts the inode into the cache (the cache
\* insert of the context layer, not shown).  An inode that is cached is not
\* inserted twice; one whose old item waits on a forget list no longer
\* services Lookup (spec 4.3) and is cached again by a new LOOKUP.
Cacheable(i) ==
    /\ i \notin cache
    /\ lookups[i] < MaxLookup

\* Where a call goes after its response half: the request half when it has
\* an output buffer, else exit.
AfterRsp(t) == IF outbuf[t] THEN "req" ELSE "exit"

\* Entries one forget request takes off the list: FuseProtoFillForget takes
\* one, FuseProtoFillBatchForget as many as fit in REQ_SIZEMIN.
BatchSize(n) ==
    IF UseBatchForget THEN IF n < BatchCap THEN n ELSE BatchCap ELSE 1

-----------------------------------------------------------------------------
Init ==
    \* FuseDeviceInit has run: FuseProtoPostInit posted the INIT context
    \* (some address c0) and nothing else exists yet.
    /\ \E c0 \in Ctx :
        /\ alloc = {c0}
        /\ hint = [c \in Ctx |-> IF c = c0 THEN "INIT" ELSE "none"]
        /\ pending = <<c0>>
    /\ ireq = [c \in Ctx |-> NoReq]
    /\ flist = [c \in Ctx |-> {}]
    /\ processing = {}
    /\ versionMajor = 0
    /\ initEvent = FALSE
    /\ cache = {}
    /\ up = TRUE
    /\ cacheLive = TRUE
    /\ pc = [t \in Thread |-> "idle"]
    /\ inrsp = [t \in Thread |-> NoMsg]
    /\ outbuf = [t \in Thread |-> FALSE]
    /\ held = [t \in Thread |-> NoCtx]
    /\ local = [t \in Thread |-> NoReq]
    /\ emit = [t \in Thread |-> NoMsg]
    /\ owe = [t \in Thread |-> NoMsg]
    /\ replied = {}
    /\ ndup = 0
    /\ lookups = [i \in Ino |-> 0]
    /\ forgot = [i \in Ino |-> 0]
    /\ hostQ = HostReq
    /\ nanswer = [r \in HostReq |-> 0]
    /\ nfree = [r \in HostReq |-> 0]

-----------------------------------------------------------------------------
(* Mutants: each is an action of Next (named after Mut) with one slip.   *)
(* They are not part of Next; each is swapped in for its action to show    *)
(* that a property can see the slip.                                       *)

\* The INIT reply publishes the minor version (31) where the major belongs.
MutRspProcessSelf(t) ==
    LET c == held[t]
        err == inrsp[t].err
    IN  /\ pc[t] = "rspproc"
        /\ ireq[c] = NoReq
        /\ hint[c] = "INIT"
        /\ versionMajor' = IF err THEN VersionDenied ELSE 31
        /\ initEvent' = TRUE
        /\ DeleteCtx(c)
        /\ held' = [held EXCEPT ![t] = NoCtx]
        /\ pc' = [pc EXCEPT ![t] = AfterRsp(t)]
        /\ UNCHANGED <<ioqVars, cache, up, cacheLive, inrsp, outbuf, local,
                       emit, dmnVars, hostQ, nanswer>>

\* The INIT reply populates VersionMajor but never signals InitEvent.
MutRspProcessSilent(t) ==
    LET c == held[t]
        err == inrsp[t].err
    IN  /\ pc[t] = "rspproc"
        /\ ireq[c] = NoReq
        /\ hint[c] = "INIT"
        /\ versionMajor' = IF err THEN VersionDenied ELSE FuseProtoVersion
        /\ DeleteCtx(c)
        /\ held' = [held EXCEPT ![t] = NoCtx]
        /\ pc' = [pc EXCEPT ![t] = AfterRsp(t)]
        /\ UNCHANGED <<ioqVars, initEvent, cache, up, cacheLive, inrsp,
                       outbuf, local, emit, dmnVars, hostQ, nanswer>>

\* A forget context whose list ran empty is neither deleted nor re-posted
\* (the Hint switch of fuse.c 281-290 missing its FORGET arm).
MutReqForget(t) ==
    LET c == held[t]
    IN  /\ pc[t] = "reqproc"
        /\ hint[c] = "FORGET"
        /\ \E B \in SUBSET flist[c] :
            /\ Cardinality(B) = BatchSize(Cardinality(flist[c]))
            /\ forgot' = [i \in Ino |-> IF i \in B THEN forgot[i] + 1
                                                   ELSE forgot[i]]
            /\ flist' = [flist EXCEPT ![c] = @ \ B]
            /\ IF flist[c] \ B # {}
               THEN pending' = Append(pending, c)
               ELSE UNCHANGED pending
        /\ held' = [held EXCEPT ![t] = NoCtx]
        /\ pc' = [pc EXCEPT ![t] = "exit"]
        /\ UNCHANGED <<alloc, hint, ireq, processing, instVars, inrsp, outbuf,
                       local, emit, owe, replied, ndup, lookups, hostVars>>

\* FuseCacheForgetNextItem hands out the inode without unlinking it.
MutReqForgetKeep(t) ==
    LET c == held[t]
    IN  /\ pc[t] = "reqproc"
        /\ hint[c] = "FORGET"
        /\ \E B \in SUBSET flist[c] :
            /\ Cardinality(B) = BatchSize(Cardinality(flist[c]))
            /\ forgot' = [i \in Ino |-> IF i \in B THEN forgot[i] + 1
                                                   ELSE forgot[i]]
        /\ pending' = Append(pending, c)
        /\ held' = [held EXCEPT ![t] = NoCtx]
        /\ pc' = [pc EXCEPT ![t] = "exit"]
        /\ UNCHANGED <<ctxVars, processing, instVars, inrsp, outbuf, local,
                       emit, owe, replied, ndup, lookups, hostVars>>

\* InternalRequest is not cleared once the new context owns it (fuse.c 251
\* missing): the call frees at exit what the context still uses.
MutReqAdmitCtx(t) ==
    /\ pc[t] = "admit"
    /\ \E r \in hostQ, c \in Ctx \ alloc :
        /\ hostQ' = hostQ \ {r}
        /\ alloc' = alloc \cup {c}
        /\ hint' = [hint EXCEPT ![c] = ReqKind[r]]
        /\ ireq' = [ireq EXCEPT ![c] = r]
        /\ held' = [held EXCEPT ![t] = c]
        /\ local' = [local EXCEPT ![t] = r]
    /\ pc' = [pc EXCEPT ![t] = "reqproc"]
    /\ UNCHANGED <<flist, ioqVars, instVars, inrsp, outbuf, emit,
                   dmnVars, nanswer, nfree>>

\* The forwarding error is tested before FuseContextDelete (fuse.c 197-199
\* swapped): a context whose response the host refused is never deleted.
MutRspProcessHost(t) ==
    LET c == held[t]
        err == inrsp[t].err
    IN  /\ pc[t] = "rspproc"
        /\ ireq[c] # NoReq
        /\ IF hint[c] = "LOOKUP" /\ ~err /\ \E i \in Ino : Cacheable(i)
           THEN \E i \in Ino :
                  /\ Cacheable(i)
                  /\ cache' = cache \cup {i}
                  /\ lookups' = [lookups EXCEPT ![i] = @ + 1]
           ELSE UNCHANGED <<cache, lookups>>
        /\ \E ok \in BOOLEAN :
            /\ Forward(ireq[c], ok)
            /\ pc' = [pc EXCEPT ![t] = IF ok THEN AfterRsp(t) ELSE "exit"]
            /\ IF ok THEN DeleteCtx(c) ELSE UNCHANGED <<ctxVars, nfree>>
        /\ held' = [held EXCEPT ![t] = NoCtx]
        /\ UNCHANGED <<ioqVars, versionMajor, initEvent, up, cacheLive, inrsp,
                       outbuf, local, emit, owe, replied, ndup, forgot, hostQ>>

\* IoStatus.Information is left 0 (fuse.c 301 missing): the daemon never
\* sees the request the call wrote.
MutReturn(t) ==
    /\ pc[t] = "exit"
    /\ nfree' = IF local[t] = NoReq THEN nfree
                ELSE [nfree EXCEPT ![local[t]] = @ + 1]
    /\ pc' = [pc EXCEPT ![t] = "idle"]
    /\ inrsp' = [inrsp EXCEPT ![t] = NoMsg]
    /\ outbuf' = [outbuf EXCEPT ![t] = FALSE]
    /\ local' = [local EXCEPT ![t] = NoReq]
    /\ emit' = [emit EXCEPT ![t] = NoMsg]
    /\ UNCHANGED <<ctxVars, ioqVars, instVars, held, owe, replied, ndup,
                   lookups, forgot, hostQ, nanswer>>

\* FuseProtoPostForget never calls FuseIoqPostPending.
MutExpire ==
    /\ up
    /\ \E S \in SUBSET cache \ {{}}, c \in Ctx \ alloc :
        /\ cache' = cache \ S
        /\ alloc' = alloc \cup {c}
        /\ hint' = [hint EXCEPT ![c] = "FORGET"]
        /\ flist' = [flist EXCEPT ![c] = S]
    /\ UNCHANGED <<ireq, ioqVars, versionMajor, initEvent, up, cacheLive, thrVars,
                   dmnVars, hostVars>>

\* FuseCacheDelete runs before FuseIoqDelete, while the device is up.
MutFiniCache ==
    /\ cacheLive
    /\ \A t \in Thread : pc[t] = "idle"
    /\ cache' = {}
    /\ cacheLive' = FALSE
    /\ UNCHANGED <<ctxVars, ioqVars, versionMajor, initEvent, up, thrVars,
                   dmnVars, hostVars>>

-----------------------------------------------------------------------------
(* The daemon.  A worker that received a request sends the reply with its  *)
(* next call (the FUSE worker loop: reply, then read the next request).    *)

\* A call carrying no reply: it only asks for a request.
DaemonPoll(t) ==
    /\ up
    /\ pc[t] = "idle"
    /\ owe[t] = NoMsg
    /\ pc' = [pc EXCEPT ![t] = "req"]
    /\ outbuf' = [outbuf EXCEPT ![t] = TRUE]
    /\ UNCHANGED <<ctxVars, ioqVars, instVars, inrsp, held, local, emit,
                   dmnVars, hostVars>>

\* A call carrying the reply to the request the worker owes, with or
\* without an output buffer for the next request.
DaemonReply(t) ==
    /\ up
    /\ pc[t] = "idle"
    /\ owe[t] # NoMsg
    /\ \E err \in BOOLEAN, out \in BOOLEAN :
        LET r == [unique |-> owe[t].unique, op |-> owe[t].op, err |-> err]
        IN  /\ inrsp' = [inrsp EXCEPT ![t] = r]
            /\ outbuf' = [outbuf EXCEPT ![t] = out]
            /\ replied' = replied \cup {r}
    /\ pc' = [pc EXCEPT ![t] = "rsp"]
    /\ owe' = [owe EXCEPT ![t] = NoMsg]
    /\ UNCHANGED <<ctxVars, ioqVars, instVars, held, local, emit,
                   ndup, lookups, forgot, hostVars>>

\* A call carrying a reply the daemon already sent once (a late or
\* duplicated response).
DaemonReplay(t) ==
    /\ up
    /\ pc[t] = "idle"
    /\ owe[t] = NoMsg
    /\ ndup < MaxDup
    /\ \E r \in replied, out \in BOOLEAN :
        /\ inrsp' = [inrsp EXCEPT ![t] = r]
        /\ outbuf' = [outbuf EXCEPT ![t] = out]
    /\ pc' = [pc EXCEPT ![t] = "rsp"]
    /\ ndup' = ndup + 1
    /\ UNCHANGED <<ctxVars, ioqVars, instVars, held, local, emit,
                   owe, replied, lookups, forgot, hostVars>>

-----------------------------------------------------------------------------
(* FuseDeviceTransact, response half (fuse.c 179-201).                     *)

\* FuseIoqEndProcessing finds the context the reply's unique names.
RspMatch(t) ==
    /\ pc[t] = "rsp"
    /\ inrsp[t].unique \in processing
    /\ processing' = processing \ {inrsp[t].unique}
    /\ held' = [held EXCEPT ![t] = inrsp[t].unique]
    /\ pc' = [pc EXCEPT ![t] = "rspproc"]
    /\ UNCHANGED <<ctxVars, pending, instVars, inrsp, outbuf, local, emit,
                   dmnVars, hostVars>>

\* No context has that unique: the reply is ignored (goto request).
RspSpurious(t) ==
    /\ pc[t] = "rsp"
    /\ inrsp[t].unique \notin processing
    /\ pc' = [pc EXCEPT ![t] = AfterRsp(t)]
    /\ UNCHANGED <<ctxVars, ioqVars, instVars, inrsp, outbuf, held, local,
                   emit, dmnVars, hostVars>>

\* FuseContextProcess on a self-generated context (the INIT context): the
\* second half of FuseProtoSendInit, then FuseContextDelete.  Completing
\* INIT populates VersionMajor (the refused sentinel on an error reply) and
\* signals InitEvent (spec 5, 8 and
\* scenario 2; the writer is outside src/).
RspProcessSelf(t) ==
    LET c == held[t]
        err == inrsp[t].err
    IN  /\ pc[t] = "rspproc"
        /\ ireq[c] = NoReq
        /\ hint[c] = "INIT"
        /\ versionMajor' = IF err THEN VersionDenied ELSE FuseProtoVersion
        /\ initEvent' = TRUE
        /\ DeleteCtx(c)
        /\ held' = [held EXCEPT ![t] = NoCtx]
        /\ pc' = [pc EXCEPT ![t] = AfterRsp(t)]
        /\ UNCHANGED <<ioqVars, cache, up, cacheLive, inrsp, outbuf, local,
                       emit, dmnVars, hostQ, nanswer>>

\* FuseContextProcess on a context of an internal request: the second half
\* of its send routine (a LOOKUP reply with error 0 caches the inode), then
\* FspFsextProviderTransact forwards the InternalResponse and the context is
\* deleted whether or not forwarding succeeded; a failure ends the call.
RspProcessHost(t) ==
    LET c == held[t]
        err == inrsp[t].err
    IN  /\ pc[t] = "rspproc"
        /\ ireq[c] # NoReq
        /\ IF hint[c] = "LOOKUP" /\ ~err /\ \E i \in Ino : Cacheable(i)
           THEN \E i \in Ino :
                  /\ Cacheable(i)
                  /\ cache' = cache \cup {i}
                  /\ lookups' = [lookups EXCEPT ![i] = @ + 1]
           ELSE UNCHANGED <<cache, lookups>>
        /\ \E ok \in BOOLEAN :
            /\ Forward(ireq[c], ok)
            /\ pc' = [pc EXCEPT ![t] = IF ok THEN AfterRsp(t) ELSE "exit"]
        /\ DeleteCtx(c)
        /\ held' = [held EXCEPT ![t] = NoCtx]
        /\ UNCHANGED <<ioqVars, versionMajor, initEvent, up, cacheLive, inrsp,
                       outbuf, local, emit, owe, replied, ndup, forgot, hostQ>>

-----------------------------------------------------------------------------
(* FuseDeviceTransact, request half (fuse.c 203-302).                      *)

\* FuseIoqNextPending returns the head of the pending FIFO.
ReqPop(t) ==
    /\ pc[t] = "req"
    /\ pending # <<>>
    /\ held' = [held EXCEPT ![t] = Head(pending)]
    /\ pending' = Tail(pending)
    /\ pc' = [pc EXCEPT ![t] = "reqproc"]
    /\ UNCHANGED <<ctxVars, processing, instVars, inrsp, outbuf, local, emit,
                   dmnVars, hostVars>>

\* Nothing pending: wait for INIT while VersionMajor is 0, fail with
\* STATUS_ACCESS_DENIED on the refused sentinel, else ask the host.
ReqEmpty(t) ==
    /\ pc[t] = "req"
    /\ pending = <<>>
    /\ pc' = [pc EXCEPT ![t] = CASE versionMajor = 0 -> "wait"
                                 [] versionMajor = VersionDenied -> "exit"
                                 [] OTHER -> "admit"]
    /\ UNCHANGED <<ctxVars, ioqVars, instVars, inrsp, outbuf, held, local,
                   emit, dmnVars, hostVars>>

\* FsRtlCancellableWaitForSingleObject returns STATUS_SUCCESS: VersionMajor
\* is read again and only the refused sentinel is tested.
ReqWake(t) ==
    /\ pc[t] = "wait"
    /\ initEvent
    /\ pc' = [pc EXCEPT ![t] = IF versionMajor = VersionDenied
                               THEN "exit" ELSE "admit"]
    /\ UNCHANGED <<ctxVars, ioqVars, instVars, inrsp, outbuf, held, local,
                   emit, dmnVars, hostVars>>

\* The wait ends by IRP cancellation, thread termination or timeout:
\* STATUS_CANCELLED.
ReqCancel(t) ==
    /\ pc[t] = "wait"
    /\ pc' = [pc EXCEPT ![t] = "exit"]
    /\ UNCHANGED <<ctxVars, ioqVars, instVars, inrsp, outbuf, held, local,
                   emit, dmnVars, hostVars>>

\* FspFsextProviderTransact asked for an internal request fails or returns
\* none: the call ends.
ReqAdmitNone(t) ==
    /\ pc[t] = "admit"
    /\ pc' = [pc EXCEPT ![t] = "exit"]
    /\ UNCHANGED <<ctxVars, ioqVars, instVars, inrsp, outbuf, held, local,
                   emit, dmnVars, hostVars>>

\* The host hands out r and FuseContextCreate binds it to a new context at a
\* free address; InternalRequest is cleared because the context owns r.
ReqAdmitCtx(t) ==
    /\ pc[t] = "admit"
    /\ \E r \in hostQ, c \in Ctx \ alloc :
        /\ hostQ' = hostQ \ {r}
        /\ alloc' = alloc \cup {c}
        /\ hint' = [hint EXCEPT ![c] = ReqKind[r]]
        /\ ireq' = [ireq EXCEPT ![c] = r]
        /\ held' = [held EXCEPT ![t] = c]
    /\ pc' = [pc EXCEPT ![t] = "reqproc"]
    /\ UNCHANGED <<flist, ioqVars, instVars, inrsp, outbuf, local, emit,
                   dmnVars, nanswer, nfree>>

\* The host hands out r but FuseContextCreate yields a status-only context
\* (allocation failed): InternalRequest stays with the call.
ReqAdmitStatus(t) ==
    /\ pc[t] = "admit"
    /\ \E r \in hostQ :
        /\ hostQ' = hostQ \ {r}
        /\ local' = [local EXCEPT ![t] = r]
    /\ pc' = [pc EXCEPT ![t] = "reqstatus"]
    /\ UNCHANGED <<ctxVars, ioqVars, instVars, inrsp, outbuf, held, emit,
                   dmnVars, nanswer, nfree>>

\* Status-only context: an InternalResponse with the request's Kind and Hint
\* and the context's status is forwarded; either way the call ends and
\* frees InternalRequest at exit.
ReqStatus(t) ==
    /\ pc[t] = "reqstatus"
    /\ \E ok \in BOOLEAN : Forward(local[t], ok)
    /\ pc' = [pc EXCEPT ![t] = "exit"]
    /\ UNCHANGED <<ctxVars, ioqVars, instVars, inrsp, outbuf, held, local,
                   emit, dmnVars, hostQ, nfree>>

\* FuseContextProcess runs the first half of FuseProtoSendInit or of a
\* one-exchange send routine: FuseProtoInitRequest stamps unique = the
\* context address, coro_yield returns Continue, FuseIoqStartProcessing.
ReqExchange(t) ==
    LET c == held[t]
    IN  /\ pc[t] = "reqproc"
        /\ hint[c] \in ExchangeKind \cup {"INIT"}
        /\ emit' = [emit EXCEPT ![t] = [unique |-> c, op |-> OwnerOf(c)]]
        /\ processing' = processing \cup {c}
        /\ held' = [held EXCEPT ![t] = NoCtx]
        /\ pc' = [pc EXCEPT ![t] = "exit"]
        /\ UNCHANGED <<ctxVars, pending, instVars, inrsp, outbuf, local,
                       dmnVars, hostVars>>

\* FuseProtoSendCreate breaks at once: no request, Continue is FALSE, the
\* InternalResponse is forwarded and the context deleted.
ReqCreate(t) ==
    LET c == held[t]
    IN  /\ pc[t] = "reqproc"
        /\ hint[c] = "CREATE"
        /\ \E ok \in BOOLEAN : Forward(ireq[c], ok)
        /\ DeleteCtx(c)
        /\ held' = [held EXCEPT ![t] = NoCtx]
        /\ pc' = [pc EXCEPT ![t] = "exit"]
        /\ UNCHANGED <<ioqVars, instVars, inrsp, outbuf, local, emit,
                       dmnVars, hostQ>>

\* A forget context fills FORGET or BATCH_FORGET (the daemon sends no reply
\* to these), then it is posted again while its list is not empty and
\* deleted once it is.
ReqForget(t) ==
    LET c == held[t]
    IN  /\ pc[t] = "reqproc"
        /\ hint[c] = "FORGET"
        /\ \E B \in SUBSET flist[c] :
            /\ Cardinality(B) = BatchSize(Cardinality(flist[c]))
            /\ forgot' = [i \in Ino |-> IF i \in B THEN forgot[i] + 1
                                                   ELSE forgot[i]]
            /\ IF flist[c] \ B # {}
               THEN /\ flist' = [flist EXCEPT ![c] = @ \ B]
                    /\ pending' = Append(pending, c)
                    /\ UNCHANGED <<alloc, hint, ireq, nfree>>
               ELSE /\ DeleteCtx(c)
                    /\ UNCHANGED pending
        /\ held' = [held EXCEPT ![t] = NoCtx]
        /\ pc' = [pc EXCEPT ![t] = "exit"]
        /\ UNCHANGED <<processing, instVars, inrsp, outbuf, local, emit,
                       owe, replied, ndup, lookups, hostQ, nanswer>>

\* exit: FuseFreeExternal frees an InternalRequest the call still holds; the
\* IRP completes and the daemon worker receives the request the call wrote.
Return(t) ==
    /\ pc[t] = "exit"
    /\ nfree' = IF local[t] = NoReq THEN nfree
                ELSE [nfree EXCEPT ![local[t]] = @ + 1]
    /\ owe' = IF emit[t] = NoMsg THEN owe ELSE [owe EXCEPT ![t] = emit[t]]
    /\ pc' = [pc EXCEPT ![t] = "idle"]
    /\ inrsp' = [inrsp EXCEPT ![t] = NoMsg]
    /\ outbuf' = [outbuf EXCEPT ![t] = FALSE]
    /\ local' = [local EXCEPT ![t] = NoReq]
    /\ emit' = [emit EXCEPT ![t] = NoMsg]
    /\ UNCHANGED <<ctxVars, ioqVars, instVars, held, replied, ndup, lookups,
                   forgot, hostQ, nanswer>>

-----------------------------------------------------------------------------
(* FuseDeviceExpirationRoutine: the cache moves expired items to a forget  *)
(* list and FuseProtoPostForget gives the list to a new forget context.    *)
Expire ==
    /\ up
    /\ \E S \in SUBSET cache \ {{}}, c \in Ctx \ alloc :
        /\ cache' = cache \ S
        /\ alloc' = alloc \cup {c}
        /\ hint' = [hint EXCEPT ![c] = "FORGET"]
        /\ flist' = [flist EXCEPT ![c] = S]
        /\ pending' = Append(pending, c)
    /\ UNCHANGED <<ireq, processing, versionMajor, initEvent, up, cacheLive, thrVars,
                   dmnVars, hostVars>>

-----------------------------------------------------------------------------
(* FuseDeviceFini (fuse.c 96-126), called by the host once no transact     *)
(* call is in progress, in the order its comment fixes.  FuseIoqDelete     *)
(* deletes every context still pending or processing through               *)
(* FuseContextDelete (the InternalRequest is freed, the Fini hook drops    *)
(* the forget list); FuseFileInstanceFini holds no modelled state; then    *)
(* FuseCacheDelete.  No transact call or expiration runs once it started.  *)
Fini ==
    /\ up
    /\ \A t \in Thread : pc[t] = "idle"
    /\ DeleteQueued(Queued)
    /\ pending' = <<>>
    /\ processing' = {}
    /\ up' = FALSE
    /\ UNCHANGED <<versionMajor, initEvent, cache, cacheLive, thrVars,
                   dmnVars, hostQ, nanswer>>

FiniCache ==
    /\ ~up
    /\ cacheLive
    /\ cache' = {}
    /\ cacheLive' = FALSE
    /\ UNCHANGED <<ctxVars, ioqVars, versionMajor, initEvent, up, thrVars,
                   dmnVars, hostVars>>

\* After FuseDeviceFini the device is gone and nothing more happens.
Terminated ==
    /\ ~up
    /\ ~cacheLive
    /\ UNCHANGED vars

-----------------------------------------------------------------------------
\* Steps of the driver code inside one FuseDeviceTransact call (all but
\* the cancellation of the init wait, which comes from outside).
Kernel(t) ==
    \/ RspMatch(t) \/ RspSpurious(t) \/ RspProcessSelf(t) \/ RspProcessHost(t)
    \/ ReqPop(t) \/ ReqEmpty(t) \/ ReqWake(t)
    \/ ReqAdmitNone(t) \/ ReqAdmitCtx(t) \/ ReqAdmitStatus(t) \/ ReqStatus(t)
    \/ ReqExchange(t) \/ ReqCreate(t) \/ ReqForget(t) \/ Return(t)

Next ==
    \/ \E t \in Thread :
        \/ DaemonPoll(t) \/ DaemonReply(t) \/ DaemonReplay(t)
        \/ Kernel(t) \/ ReqCancel(t)
    \/ Expire
    \/ Fini
    \/ FiniCache
    \/ Terminated

\* Fairness: the driver code of a call runs to its end (the wait only ends
\* when InitEvent is set; cancellation is not assumed), and every daemon
\* worker replies to the request it received and keeps polling.
Fairness ==
    \A t \in Thread :
        /\ WF_vars(Kernel(t))
        /\ WF_vars(DaemonReply(t))
        /\ WF_vars(DaemonPoll(t))

Spec == Init /\ [][Next]_vars
FairSpec == Spec /\ Fairness

-----------------------------------------------------------------------------
(* Properties                                                               *)

TypeOK ==
    /\ alloc \subseteq Ctx
    /\ hint \in [Ctx -> Hint]
    /\ ireq \in [Ctx -> HostReq \cup {NoReq}]
    /\ flist \in [Ctx -> SUBSET Ino]
    /\ pending \in Seq(Ctx)
    /\ processing \subseteq Ctx
    /\ versionMajor \in {0, FuseProtoVersion, VersionDenied}
    /\ initEvent \in BOOLEAN
    /\ cache \subseteq Ino
    /\ up \in BOOLEAN
    /\ cacheLive \in BOOLEAN
    /\ pc \in [Thread -> PC]
    /\ inrsp \in [Thread -> Rsp \cup {NoMsg}]
    /\ outbuf \in [Thread -> BOOLEAN]
    /\ held \in [Thread -> Ctx \cup {NoCtx}]
    /\ local \in [Thread -> HostReq \cup {NoReq}]
    /\ emit \in [Thread -> Msg \cup {NoMsg}]
    /\ owe \in [Thread -> Msg \cup {NoMsg}]
    /\ replied \subseteq Rsp
    /\ ndup \in Nat
    /\ lookups \in [Ino -> Nat]
    /\ forgot \in [Ino -> Nat]
    /\ hostQ \subseteq HostReq
    /\ nanswer \in [HostReq -> Nat]
    /\ nfree \in [HostReq -> Nat]

\* What a call has in hand at each point: a reply while it runs the
\* response half, a context while it processes one, an internal request on
\* the status path.  Together with TypeOK this is inductive.
ThreadShape ==
    \A t \in Thread :
        /\ pc[t] \in {"rsp", "rspproc"} => inrsp[t] \in Rsp
        /\ pc[t] \in {"rspproc", "reqproc"} => held[t] \in Ctx
        /\ pc[t] = "reqstatus" => local[t] \in HostReq

TypeInv == TypeOK /\ ThreadShape

\* A call has a context in hand only between taking it (EndProcessing,
\* NextPending, FuseContextCreate) and handing it on (fuse.c 186-199,
\* 261-299).
HeldOnlyInProc ==
    \A t \in Thread : pc[t] \notin {"rspproc", "reqproc"} => held[t] = NoCtx

\* IOQ contract (spec 4.4, 5): every live context is in exactly one of the
\* pending FIFO (once), the processing map, or the hands of exactly one
\* transact call; a deleted context is in none.  Broken by a context that a
\* call forgets to re-post, post twice, or delete (leak or use after free).
CtxOwnership ==
    /\ \A i, j \in 1..Len(pending) : pending[i] = pending[j] => i = j
    /\ \A c \in Ctx :
        c \in alloc <=> (InPending(c) \/ c \in processing
                         \/ \E t \in Thread : held[t] = c)
    /\ \A c \in processing : ~InPending(c)
    /\ \A t \in Thread : held[t] # NoCtx =>
            ~InPending(held[t]) /\ held[t] \notin processing
    /\ \A t, u \in Thread : held[t] = held[u] /\ held[t] # NoCtx => t = u

\* The inductive form of CtxOwnership.
OwnInv == TypeInv /\ HeldOnlyInProc /\ CtxOwnership

\* Memory discipline of internal requests (spec 5, 8): once the host hands
\* out r, exactly one of a live context, a transact call's InternalRequest,
\* or one FuseFreeExternal/FuseContextDelete accounts for it; it is never
\* answered twice, nor answered while a context still owns it.
ContextsOwning(r) == {c \in alloc : ireq[c] = r}
CallsHolding(r) == {t \in Thread : local[t] = r}
RequestAccounting ==
    \A r \in HostReq :
        /\ r \in hostQ =>
              ContextsOwning(r) = {} /\ CallsHolding(r) = {}
              /\ nfree[r] = 0 /\ nanswer[r] = 0
        /\ r \notin hostQ =>
              Cardinality(ContextsOwning(r)) + Cardinality(CallsHolding(r))
                + nfree[r] = 1
        /\ nanswer[r] <= 1
        /\ ContextsOwning(r) # {} => nanswer[r] = 0

\* The places a handed-out internal request can be: one live context owns
\* it and it is unanswered; one call holds it in InternalRequest
\* (unanswered until ReqStatus forwards it); or it was freed once.
WithHost(r) ==
    /\ r \in hostQ
    /\ ContextsOwning(r) = {} /\ CallsHolding(r) = {}
    /\ nfree[r] = 0 /\ nanswer[r] = 0
OwnedByContext(r) ==
    /\ \E c \in Ctx : ContextsOwning(r) = {c}
    /\ CallsHolding(r) = {}
    /\ nfree[r] = 0 /\ nanswer[r] = 0
HeldByCall(r) ==
    /\ ContextsOwning(r) = {}
    /\ \E t \in Thread :
        /\ CallsHolding(r) = {t}
        /\ pc[t] = "reqstatus" => nanswer[r] = 0
    /\ nfree[r] = 0 /\ nanswer[r] <= 1
Released(r) ==
    /\ ContextsOwning(r) = {} /\ CallsHolding(r) = {}
    /\ nfree[r] = 1 /\ nanswer[r] <= 1
ReqPlaced(r) ==
    \/ WithHost(r)
    \/ r \notin hostQ /\ (OwnedByContext(r) \/ HeldByCall(r) \/ Released(r))

\* The inductive form of RequestAccounting: a deleted address owns no
\* request, a call has InternalRequest only on the status path and at exit,
\* and every request is with the host or in exactly one of the places above.
FreeOwnsNothing == \A c \in Ctx \ alloc : ireq[c] = NoReq
LocalOnStatusPath ==
    \A t \in Thread : local[t] # NoReq => pc[t] \in {"reqstatus", "exit"}
ReqInv ==
    /\ OwnInv /\ FreeOwnsNothing /\ LocalOnStatusPath
    /\ \A r \in HostReq : ReqPlaced(r)

\* Fini order (fuse.c 104-115, spec 3): the cache is deleted only after
\* every context that could still reference its items (a forget context's
\* list) is gone, and never while the device still serves calls.
CacheOutlivesContexts ==
    ~cacheLive => ~up /\ \A c \in alloc : flist[c] = {}

\* Spec 5, 8: toward the host, the driver behaves as HostRequests says: a
\* request is answered at most once and never after it was freed, and
\* freed exactly once.  Broken by a use after free or a double free of an
\* InternalRequest.
HR == INSTANCE HostRequests WITH pool <- hostQ, answers <- nanswer,
                                 frees <- nfree
HostContract == HR!Spec

\* A context waiting in the processing map can still be answered: its
\* request sits in a call's output buffer, with a daemon worker, or a reply
\* naming it is inside a call that has not looked it up yet.  Broken when a
\* request is lost between StartProcessing and the daemon, which strands
\* the context (and its internal request) forever.
ReplyReachable ==
    \A c \in processing :
        \E t \in Thread :
            \/ emit[t] # NoMsg /\ emit[t].unique = c
            \/ owe[t] # NoMsg /\ owe[t].unique = c
            \/ pc[t] = "rsp" /\ inrsp[t].unique = c

\* The inductive form of ReplyReachable: a worker owes a reply only between
\* calls (it sends it with its next call), and a call has a request in its
\* output buffer only on its way out.
OweBetweenCalls == \A t \in Thread : pc[t] # "idle" => owe[t] = NoMsg
EmitAtExit == \A t \in Thread : emit[t] # NoMsg => pc[t] = "exit"
ReplyInv == TypeInv /\ OweBetweenCalls /\ EmitAtExit /\ ReplyReachable

\* FORGET accounting against the daemon's lookup counts: every successful
\* LOOKUP that the cache kept is, for each inode, still cached, on the list
\* of one forget context (an inode cached again after its old item expired
\* is on one list per expiry), or already forgotten; the daemon never
\* receives more forgets for an inode than it gave lookups.  This holds
\* while the device is up: FuseDeviceFini drops cache and lists unsent.
QueuedIn(i) == {c \in alloc : i \in flist[c]}
ForgetAccounting ==
    \A i \in Ino : up =>
        lookups[i] = (IF i \in cache THEN 1 ELSE 0)
                     + Cardinality(QueuedIn(i)) + forgot[i]

\* The inductive form of ForgetAccounting: only a live forget context has a
\* forget list, and it owns no internal request, so deleting any other
\* context drops no entry.
ListOnlyOnLive == \A c \in Ctx \ alloc : flist[c] = {}
ListOnlyOnForget == \A c \in alloc : hint[c] # "FORGET" => flist[c] = {}
ForgetOwnsNoReq == \A c \in alloc : hint[c] = "FORGET" => ireq[c] = NoReq
ForgetInv ==
    /\ OwnInv /\ ListOnlyOnLive /\ ListOnlyOnForget /\ ForgetOwnsNoReq
    /\ ForgetAccounting

\* Every internal request the host handed out is eventually released
\* (answered and freed, or freed on an error path).
RequestsReleased ==
    \A r \in HostReq : (r \notin hostQ) ~> (nfree[r] > 0)

\* Every inode put on a forget list is eventually sent to the daemon,
\* unless FuseDeviceFini drops the list first.
InodesForgotten ==
    \A i \in Ino, n \in 0..MaxLookup :
        (QueuedIn(i) # {} /\ forgot[i] = n) ~> (forgot[i] > n \/ ~up)

\* Spec 4.4/7: late or unmatched responses are silently ignored, i.e. a
\* reply is only ever processed by the operation whose request it answers.
\* FuseIoqEndProcessing matches by unique = context address.
StaleReplyIgnored ==
    \A t \in Thread :
        pc[t] = "rspproc" => inrsp[t].op = OwnerOf(held[t])

\* Spec 5, 8: a call that found nothing pending before INIT completed and
\* waits on InitEvent (fuse.c 212-216) leaves the wait: the INIT exchange
\* completes and signals the event, and the call goes on to the host or
\* fails with access denied.  Cancellation is not assumed.
WaitEnds ==
    \A t \in Thread : pc[t] = "wait" ~> pc[t] # "wait"

=============================================================================
