------------------------ MODULE WinFuseForgetProofs -------------------------
(***************************************************************************)
(* The lookup count of every inode is paid back (ForgetAccounting), for    *)
(* every value of the constants.  While the device is up, the LOOKUP       *)
(* replies the driver cached for an inode are counted by the cache, by the *)
(* forget lists of the live forget contexts that hold it (an inode cached  *)
(* again after an expiry can be on several), and by the FORGETs sent.      *)
(* Expiration moves inodes from the cache to the list of a new forget      *)
(* context (FuseProtoPostForget), FuseProtoFillForget sends them, and      *)
(* deleting a context that is not a forget context touches no list: a     *)
(* context that owns an internal request is never a forget context, which *)
(* needs FreeOwnsNothing of ReqInv for the fresh address Expire takes.     *)
(***************************************************************************)
EXTENDS WinFuseReqProofs

\* The count of one inode, as ForgetAccounting states it.
Counted(i) ==
    up => lookups[i] = (IF i \in cache THEN 1 ELSE 0)
                       + Cardinality(QueuedIn(i)) + forgot[i]

\* The clauses of ForgetInv besides OwnInv.
ForgetParts ==
    /\ ListOnlyOnLive /\ ListOnlyOnForget /\ ForgetOwnsNoReq
    /\ \A i \in Ino : Counted(i)

\* The state components the clauses read.
FTypes ==
    /\ alloc \subseteq Ctx
    /\ hint \in [Ctx -> Hint]
    /\ ireq \in [Ctx -> HostReq \cup {NoReq}]
    /\ flist \in [Ctx -> SUBSET Ino]
    /\ cache \subseteq Ino
    /\ up \in BOOLEAN
    /\ lookups \in [Ino -> Nat] /\ forgot \in [Ino -> Nat]

LEMMA ForgetInvIsAccounting == ForgetInv => ForgetAccounting
BY DEF ForgetInv

\* A set of context addresses is finite, so it has a size.
LEMMA CtxSetSize ==
    ASSUME NEW Q \in SUBSET Ctx
    PROVE  IsFiniteSet(Q) /\ Cardinality(Q) \in Nat
<1>1. IsFiniteSet(Q)
    BY FS_Subset, WinFuseAssumption
<1>. QED
    BY <1>1, FS_CardinalityType

\* A new forget context adds one to the size of an inode's list set.
LEMMA AddList ==
    ASSUME NEW Q \in SUBSET Ctx, NEW c \in Ctx, c \notin Q
    PROVE  Cardinality(Q \cup {c}) = Cardinality(Q) + 1
BY CtxSetSize, FS_AddElement

\* A forget context that sent the inode drops one from that size.
LEMMA DropList ==
    ASSUME NEW Q \in SUBSET Ctx, NEW c \in Q
    PROVE  Cardinality(Q \ {c}) = Cardinality(Q) - 1
BY CtxSetSize, FS_RemoveElement

LEMMA ForgetInvInit == Init => ForgetInv
<1> SUFFICES ASSUME Init PROVE ForgetInv
    OBVIOUS
<1>1. \A i \in Ino : QueuedIn(i) = {}
    BY DEF Init, QueuedIn
<1>2. /\ cache = {}
      /\ lookups = [i \in Ino |-> 0] /\ forgot = [i \in Ino |-> 0]
    BY DEF Init
<1>3. ASSUME NEW i \in Ino PROVE Counted(i)
    <2>1. Cardinality(QueuedIn(i)) = 0
        BY <1>1, FS_EmptySet
    <2>. QED
        BY <1>2, <2>1 DEF Counted
<1>4. ForgetAccounting
    BY <1>3 DEF Counted, ForgetAccounting
<1>. QED
    BY <1>4, OwnInvInit DEF Init, ForgetInv, ListOnlyOnLive,
       ListOnlyOnForget, ForgetOwnsNoReq

\* A step that touches no list, cache or count.
LEMMA ForgetFrame ==
    ASSUME ForgetParts,
           UNCHANGED <<alloc, hint, ireq, flist, cache, up, lookups, forgot>>
    PROVE  ForgetParts'
BY DEF ForgetParts, ListOnlyOnLive, ListOnlyOnForget, ForgetOwnsNoReq,
   Counted, QueuedIn

\* A step that leaves every inode on the same lists and keeps the cache
\* and the counts keeps every count.
LEMMA SameLists ==
    ASSUME NEW i \in Ino, Counted(i), QueuedIn(i)' = QueuedIn(i),
           UNCHANGED <<cache, up, lookups, forgot>>
    PROVE  Counted(i)'
BY DEF Counted

\* FuseContextDelete of a context with an empty forget list: every inode
\* stays on the lists it was on.
LEMMA DeleteEmptyList ==
    ASSUME FTypes, ForgetParts, NEW c \in alloc, flist[c] = {}, DeleteCtx(c)
    PROVE  /\ \A i \in Ino : QueuedIn(i)' = QueuedIn(i)
           /\ ListOnlyOnLive' /\ ListOnlyOnForget' /\ ForgetOwnsNoReq'
<1>1. /\ alloc' = alloc \ {c}
      /\ hint' = [hint EXCEPT ![c] = "none"]
      /\ ireq' = [ireq EXCEPT ![c] = NoReq]
      /\ flist' = [flist EXCEPT ![c] = {}]
    BY DEF DeleteCtx
<1>2. \A i \in Ino : QueuedIn(i)' = QueuedIn(i)
    BY <1>1 DEF QueuedIn, FTypes
<1>. QED
    BY <1>1, <1>2 DEF FTypes, ForgetParts, ListOnlyOnLive,
       ListOnlyOnForget, ForgetOwnsNoReq

\* What FuseProtoFillForget leaves behind: the batch B it sends leaves the
\* list of the context c, which is posted again with the rest or deleted
\* once the list is empty; nothing else moves.
ForgetBatch(t, B) ==
    LET c == held[t]
    IN  /\ forgot' = [i \in Ino |-> IF i \in B THEN forgot[i] + 1
                                               ELSE forgot[i]]
        /\ UNCHANGED <<cache, up, lookups>>
        /\ alloc' \subseteq alloc /\ alloc \ {c} \subseteq alloc'
        /\ flist' = [flist EXCEPT ![c] = @ \ B]
        /\ \A d \in alloc' : hint'[d] = hint[d] /\ ireq'[d] = ireq[d]
        /\ \A d \in Ctx \ alloc' : flist'[d] = {}

LEMMA ForgetTakesOff ==
    ASSUME FTypes, ListOnlyOnLive, NEW t \in Thread, held[t] \in alloc,
           ReqForget(t)
    PROVE  \E B \in SUBSET flist[held[t]] : ForgetBatch(t, B)
<1> DEFINE c == held[t]
<1>1. PICK B \in SUBSET flist[c] :
        /\ forgot' = [i \in Ino |-> IF i \in B THEN forgot[i] + 1
                                               ELSE forgot[i]]
        /\ IF flist[c] \ B # {}
           THEN /\ flist' = [flist EXCEPT ![c] = @ \ B]
                /\ UNCHANGED <<alloc, hint, ireq>>
           ELSE DeleteCtx(c)
    BY DEF ReqForget
<1>2. UNCHANGED <<cache, up, lookups>>
    BY DEF ReqForget, instVars
<1>3. CASE flist[c] \ B # {}
    BY <1>1, <1>2, <1>3 DEF FTypes, ListOnlyOnLive, ForgetBatch
<1>4. CASE flist[c] \ B = {}
    BY <1>1, <1>2, <1>4 DEF FTypes, ListOnlyOnLive, DeleteCtx, ForgetBatch
<1>. QED
    BY <1>3, <1>4

LEMMA ForgetInvNext == ReqInv /\ ForgetInv /\ [Next]_vars => ForgetInv'
<1> SUFFICES ASSUME ReqInv, OwnInv, ForgetParts, [Next]_vars
             PROVE  ForgetParts'
    BY OwnInvNext DEF ForgetInv, ForgetParts, ForgetAccounting, Counted,
       ReqInv
<1>1. /\ FTypes
      /\ pc \in [Thread -> PC]
      /\ held \in [Thread -> Ctx \cup {NoCtx}]
      /\ \A t \in Thread : pc[t] \in {"rspproc", "reqproc"} =>
            held[t] \in Ctx /\ held[t] \in alloc
    BY DEF OwnInv, TypeInv, TypeOK, ThreadShape, FTypes, CtxOwnership
<1>2. /\ ListOnlyOnLive /\ ListOnlyOnForget /\ ForgetOwnsNoReq
      /\ \A i \in Ino : Counted(i)
    BY DEF ForgetParts
<1>3. ASSUME NEW t \in Thread,
             \/ DaemonPoll(t) \/ DaemonReply(t) \/ DaemonReplay(t)
             \/ RspMatch(t) \/ RspSpurious(t) \/ ReqPop(t) \/ ReqEmpty(t)
             \/ ReqWake(t) \/ ReqCancel(t) \/ ReqAdmitNone(t)
             \/ ReqAdmitStatus(t) \/ ReqStatus(t) \/ ReqExchange(t)
             \/ Return(t)
      PROVE  ForgetParts'
    <2>1. UNCHANGED <<alloc, hint, ireq, flist, cache, up, lookups, forgot>>
        BY <1>3 DEF DaemonPoll, DaemonReply, DaemonReplay, RspMatch,
           RspSpurious, ReqPop, ReqEmpty, ReqWake, ReqCancel, ReqAdmitNone,
           ReqAdmitStatus, ReqStatus, ReqExchange, Return, ctxVars,
           instVars, dmnVars
    <2>. QED
        BY <2>1, ForgetFrame
<1>4. CASE Terminated \/ UNCHANGED vars
    BY <1>4, ForgetFrame DEF Terminated, vars, ctxVars, instVars, dmnVars
\* A context owning a request is created: a fresh address has no list, and
\* its hint is the request's operation, never FORGET.
<1>5. ASSUME NEW t \in Thread, ReqAdmitCtx(t) PROVE ForgetParts'
    <2>1. PICK r0 \in hostQ, c \in Ctx \ alloc :
            /\ alloc' = alloc \cup {c}
            /\ hint' = [hint EXCEPT ![c] = ReqKind[r0]]
            /\ ireq' = [ireq EXCEPT ![c] = r0]
        BY <1>5 DEF ReqAdmitCtx
    <2>2. UNCHANGED <<flist, cache, up, lookups, forgot>>
        BY <1>5 DEF ReqAdmitCtx, instVars, dmnVars
    <2>3. hostQ \subseteq HostReq /\ flist[c] = {}
        BY <1>2 DEF OwnInv, TypeInv, TypeOK, ListOnlyOnLive
    <2>4. hint'[c] # "FORGET"
        BY <1>1, <2>1, <2>3, WinFuseAssumption DEF FTypes, OpKind
    <2>5. \A i \in Ino : QueuedIn(i)' = QueuedIn(i)
        BY <2>1, <2>2, <2>3 DEF QueuedIn
    <2>6. \A i \in Ino : Counted(i)'
        BY <1>2, <2>2, <2>5, SameLists
    <2>. QED
        BY <1>1, <1>2, <2>1, <2>2, <2>3, <2>4, <2>6 DEF FTypes,
           ListOnlyOnLive, ListOnlyOnForget, ForgetOwnsNoReq, ForgetParts
\* Deleting the INIT context or a CREATE context: no list to drop.
<1>6. ASSUME NEW t \in Thread, RspProcessSelf(t) \/ ReqCreate(t)
      PROVE  ForgetParts'
    <2>1. /\ pc[t] \in {"rspproc", "reqproc"}
          /\ hint[held[t]] \in {"INIT", "CREATE"}
          /\ DeleteCtx(held[t])
          /\ UNCHANGED <<cache, up, lookups, forgot>>
        BY <1>6 DEF RspProcessSelf, ReqCreate, instVars, dmnVars
    <2>2. held[t] \in alloc /\ flist[held[t]] = {}
        BY <1>1, <1>2, <2>1 DEF ListOnlyOnForget
    <2>3. /\ \A i \in Ino : QueuedIn(i)' = QueuedIn(i)
          /\ ListOnlyOnLive' /\ ListOnlyOnForget' /\ ForgetOwnsNoReq'
        BY <1>1, <1>2, <2>1, <2>2, DeleteEmptyList DEF ForgetParts
    <2>4. \A i \in Ino : Counted(i)'
        BY <1>2, <2>1, <2>3, SameLists
    <2>. QED
        BY <2>3, <2>4 DEF ForgetParts
\* The reply to a request is forwarded and its context deleted (it owns a
\* request, so it is no forget context and has no list); a LOOKUP reply
\* may first cache an inode that is not cached, whether or not an older
\* item of it waits on a forget list.
<1>7. ASSUME NEW t \in Thread, RspProcessHost(t) PROVE ForgetParts'
    <2> DEFINE c == held[t]
    <2>1. /\ pc[t] = "rspproc" /\ ireq[c] # NoReq /\ DeleteCtx(c)
          /\ UNCHANGED <<up, forgot>>
        BY <1>7 DEF RspProcessHost, instVars
    <2>2. c \in alloc /\ flist[c] = {}
        BY <1>1, <1>2, <2>1 DEF ListOnlyOnForget, ForgetOwnsNoReq
    <2>3. /\ \A i \in Ino : QueuedIn(i)' = QueuedIn(i)
          /\ ListOnlyOnLive' /\ ListOnlyOnForget' /\ ForgetOwnsNoReq'
        BY <1>1, <1>2, <2>1, <2>2, DeleteEmptyList DEF ForgetParts
    <2>4. \/ UNCHANGED <<cache, lookups>>
          \/ \E i0 \in Ino : /\ Cacheable(i0)
                             /\ cache' = cache \cup {i0}
                             /\ lookups' = [lookups EXCEPT ![i0] = @ + 1]
        BY <1>7 DEF RspProcessHost
    <2>5. CASE UNCHANGED <<cache, lookups>>
        <3>1. \A i \in Ino : Counted(i)'
            BY <1>2, <2>1, <2>3, <2>5, SameLists
        <3>. QED
            BY <2>3, <3>1 DEF ForgetParts
    <2>6. CASE \E i0 \in Ino : /\ Cacheable(i0)
                               /\ cache' = cache \cup {i0}
                               /\ lookups' = [lookups EXCEPT ![i0] = @ + 1]
        <3>1. PICK i0 \in Ino : /\ Cacheable(i0)
                                /\ cache' = cache \cup {i0}
                                /\ lookups' = [lookups EXCEPT ![i0] = @ + 1]
            BY <2>6
        <3>2. i0 \notin cache
            BY <3>1 DEF Cacheable
        <3>3. ASSUME NEW i \in Ino PROVE Counted(i)'
            <4>1. Cardinality(QueuedIn(i)) \in Nat
                BY <1>1, CtxSetSize DEF FTypes, QueuedIn
            <4>2. CASE i = i0
                BY <1>1, <1>2, <2>1, <2>3, <3>1, <3>2, <4>1, <4>2 DEF FTypes,
                   Counted
            <4>3. CASE i # i0
                BY <1>1, <1>2, <2>1, <2>3, <3>1, <4>3 DEF FTypes, Counted
            <4>. QED
                BY <4>2, <4>3
        <3>. QED
            BY <2>3, <3>3 DEF ForgetParts
    <2>. QED
        BY <2>4, <2>5, <2>6
\* FuseProtoFillForget sends the batch B: those inodes leave the list of
\* the context and count as forgotten; the context is posted again with
\* the rest, or deleted once its list is empty.
<1>8. ASSUME NEW t \in Thread, ReqForget(t) PROVE ForgetParts'
    <2> DEFINE c == held[t]
    <2>1. pc[t] = "reqproc" /\ hint[c] = "FORGET"
        BY <1>8 DEF ReqForget
    <2>2. c \in alloc /\ ireq[c] = NoReq
        BY <1>1, <1>2, <2>1 DEF ForgetOwnsNoReq
    <2>3. PICK B \in SUBSET flist[c] : ForgetBatch(t, B)
        BY <1>1, <1>8, <2>2, ForgetTakesOff DEF ForgetParts
    <2>4. /\ forgot' = [i \in Ino |-> IF i \in B THEN forgot[i] + 1
                                                  ELSE forgot[i]]
          /\ UNCHANGED <<cache, up, lookups>>
          /\ alloc' \subseteq alloc /\ alloc \ {c} \subseteq alloc'
          /\ flist' = [flist EXCEPT ![c] = @ \ B]
          /\ \A d \in alloc' : hint'[d] = hint[d] /\ ireq'[d] = ireq[d]
          /\ \A d \in Ctx \ alloc' : flist'[d] = {}
        BY <2>3 DEF ForgetBatch
    <2>5. /\ ListOnlyOnLive' /\ ListOnlyOnForget' /\ ForgetOwnsNoReq'
        BY <1>1, <1>2, <2>1, <2>4 DEF FTypes, ListOnlyOnLive,
           ListOnlyOnForget, ForgetOwnsNoReq
    <2>6. ASSUME NEW i \in Ino PROVE Counted(i)'
        <3>1. CASE i \in B
            <4>1. c \in QueuedIn(i) /\ QueuedIn(i) \subseteq Ctx
                BY <1>1, <2>2, <2>3, <3>1 DEF FTypes, QueuedIn
            <4>2. QueuedIn(i)' = QueuedIn(i) \ {c}
                BY <1>1, <2>2, <2>4, <3>1 DEF FTypes, QueuedIn
            <4>3. Cardinality(QueuedIn(i)') = Cardinality(QueuedIn(i)) - 1
                BY <4>1, <4>2, DropList
            <4>4. Cardinality(QueuedIn(i)) \in Nat /\ forgot'[i] = forgot[i] + 1
                BY <1>1, <2>4, <3>1, <4>1, CtxSetSize DEF FTypes
            <4>. QED
                BY <1>1, <1>2, <2>4, <4>3, <4>4 DEF FTypes, Counted
        <3>2. CASE i \notin B
            <4>1. QueuedIn(i)' = QueuedIn(i)
                BY <1>1, <2>2, <2>4, <3>2 DEF FTypes, QueuedIn
            <4>2. forgot'[i] = forgot[i]
                BY <2>4, <3>2
            <4>. QED
                BY <1>2, <2>4, <4>1, <4>2 DEF Counted
        <3>. QED
            BY <3>1, <3>2
    <2>. QED
        BY <2>5, <2>6 DEF ForgetParts
\* FuseProtoPostForget: expired inodes S leave the cache for the list of a
\* new forget context at a free address (which owns no request).
<1>9. CASE Expire
    <2>1. PICK S \in SUBSET cache \ {{}}, c \in Ctx \ alloc :
            /\ cache' = cache \ S
            /\ alloc' = alloc \cup {c}
            /\ hint' = [hint EXCEPT ![c] = "FORGET"]
            /\ flist' = [flist EXCEPT ![c] = S]
        BY <1>9 DEF Expire
    <2>2. UNCHANGED <<ireq, up, lookups, forgot>>
        BY <1>9 DEF Expire, instVars, dmnVars
    <2>3. ireq[c] = NoReq /\ flist[c] = {}
        BY <1>2 DEF ReqInv, FreeOwnsNothing, ListOnlyOnLive
    <2>4. /\ ListOnlyOnLive' /\ ListOnlyOnForget' /\ ForgetOwnsNoReq'
        BY <1>1, <1>2, <2>1, <2>2, <2>3 DEF FTypes, ListOnlyOnLive,
           ListOnlyOnForget, ForgetOwnsNoReq
    <2>5. ASSUME NEW i \in Ino PROVE Counted(i)'
        <3>1. CASE i \in S
            <4>1. QueuedIn(i) \subseteq Ctx /\ c \notin QueuedIn(i)
                BY <1>1 DEF FTypes, QueuedIn
            <4>2. QueuedIn(i)' = QueuedIn(i) \cup {c}
                BY <1>1, <2>1, <2>3, <3>1 DEF FTypes, QueuedIn
            <4>3. Cardinality(QueuedIn(i)') = Cardinality(QueuedIn(i)) + 1
                BY <4>1, <4>2, AddList
            <4>4. i \in cache /\ i \notin cache'
                BY <2>1, <3>1
            <4>5. Cardinality(QueuedIn(i)) \in Nat
                BY <4>1, CtxSetSize
            <4>. QED
                BY <1>1, <1>2, <2>2, <4>3, <4>4, <4>5 DEF FTypes, Counted
        <3>2. CASE i \notin S
            <4>1. QueuedIn(i)' = QueuedIn(i)
                BY <1>1, <2>1, <2>3, <3>2 DEF FTypes, QueuedIn
            <4>2. (i \in cache') = (i \in cache)
                BY <2>1, <3>2
            <4>. QED
                BY <1>2, <2>2, <4>1, <4>2 DEF Counted
        <3>. QED
            BY <3>1, <3>2
    <2>. QED
        BY <2>4, <2>5 DEF ForgetParts
\* FuseIoqDelete drops the lists of the queued contexts and the device goes
\* down; FuseCacheDelete empties the cache after it.
<1>10. CASE Fini \/ FiniCache
    <2>1. /\ alloc' \subseteq alloc
          /\ \A d \in alloc' : /\ hint'[d] = hint[d] /\ ireq'[d] = ireq[d]
                               /\ flist'[d] = flist[d]
          /\ \A d \in Ctx \ alloc' : flist'[d] = {}
          /\ up' = FALSE
        BY <1>1, <1>2, <1>10 DEF Fini, FiniCache, DeleteQueued, FTypes,
           ListOnlyOnLive, ctxVars
    <2>2. /\ ListOnlyOnLive' /\ ListOnlyOnForget' /\ ForgetOwnsNoReq'
        BY <1>1, <1>2, <2>1 DEF FTypes, ListOnlyOnLive, ListOnlyOnForget,
           ForgetOwnsNoReq
    <2>3. \A i \in Ino : Counted(i)'
        BY <2>1 DEF Counted
    <2>. QED
        BY <2>2, <2>3 DEF ForgetParts
<1>11. ASSUME NEW t \in Thread,
              \/ DaemonPoll(t) \/ DaemonReply(t) \/ DaemonReplay(t)
              \/ Kernel(t) \/ ReqCancel(t)
       PROVE  ForgetParts'
    BY <1>3, <1>5, <1>6, <1>7, <1>8, <1>11 DEF Kernel
<1>. QED
    BY <1>4, <1>9, <1>10, <1>11 DEF Next

LEMMA ForgetInvHolds == Spec => [](ReqInv /\ ForgetInv)
BY ReqInvInit, ReqInvNext, ForgetInvInit, ForgetInvNext, PTL DEF Spec

\* The lookup count of every inode is paid back (spec 4.3, the expiration
\* routine and FuseProtoFillForget), for every number of threads,
\* contexts, requests and inodes: while the device is up, the LOOKUPs the
\* driver cached equal the inodes cached, plus the forget lists holding
\* them, plus the FORGETs sent; no FORGET is sent twice for one lookup and
\* no lookup is lost, even when an inode is cached again while an old item
\* of it waits on a forget list.
THEOREM LookupsPaidBack == Spec => []ForgetAccounting
BY ForgetInvHolds, ForgetInvIsAccounting, PTL
=============================================================================
