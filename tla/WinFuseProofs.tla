--------------------------- MODULE WinFuseProofs ---------------------------
(***************************************************************************)
(* Proofs about WinFuse for every value of the constants.                  *)
(***************************************************************************)
EXTENDS WinFuse, FiniteSetTheorems, TLAPS

\* Type correctness.  TypeOK alone is not inductive: RspMatch reads the
\* unique of the call's reply and ReqExchange stamps the held context into
\* a Msg, so the invariant also says what a call holds at each pc
\* (ThreadShape).
LEMMA TypeInvInit == Init => TypeInv
<1> SUFFICES ASSUME Init PROVE TypeInv
    OBVIOUS
<1>1. PICK c0 \in Ctx : /\ alloc = {c0}
                        /\ hint = [c \in Ctx |-> IF c = c0 THEN "INIT" ELSE "none"]
                        /\ pending = <<c0>>
    BY DEF Init
<1>2. hint \in [Ctx -> Hint] /\ pending \in Seq(Ctx) /\ alloc \subseteq Ctx
    BY <1>1 DEF Hint
<1>3. versionMajor \in {0, FuseProtoVersion, VersionDenied}
    BY DEF Init
<1>. QED
    BY <1>2, <1>3 DEF Init, TypeInv, TypeOK, ThreadShape, PC

\* FuseContextDelete keeps the context and request tables well typed.
LEMMA DeleteCtxType ==
    ASSUME alloc \subseteq Ctx, hint \in [Ctx -> Hint],
           ireq \in [Ctx -> HostReq \cup {NoReq}],
           flist \in [Ctx -> SUBSET Ino], nfree \in [HostReq -> Nat],
           NEW c \in Ctx, DeleteCtx(c)
    PROVE  /\ alloc' \subseteq Ctx
           /\ hint' \in [Ctx -> Hint]
           /\ ireq' \in [Ctx -> HostReq \cup {NoReq}]
           /\ flist' \in [Ctx -> SUBSET Ino]
           /\ nfree' \in [HostReq -> Nat]
BY DEF DeleteCtx, Hint

\* Forwarding a response keeps the answer counts well typed.
LEMMA ForwardType ==
    ASSUME nanswer \in [HostReq -> Nat], NEW r, NEW ok \in BOOLEAN,
           Forward(r, ok)
    PROVE  nanswer' \in [HostReq -> Nat]
<1>1. CASE ok
    <2>1. nanswer' = [nanswer EXCEPT ![r] = @ + 1]
        BY <1>1 DEF Forward
    <2>2. CASE r \in HostReq
        BY <2>1, <2>2
    <2>3. CASE r \notin HostReq
        <3>1. nanswer' = nanswer
            BY <2>1, <2>3
        <3>. QED
            BY <3>1
    <2>. QED
        BY <2>2, <2>3
<1>2. CASE ~ok
    BY <1>2 DEF Forward
<1>. QED
    BY <1>1, <1>2

LEMMA TypeInvNext == TypeInv /\ [Next]_vars => TypeInv'
<1> SUFFICES ASSUME TypeInv, [Next]_vars PROVE TypeInv'
    OBVIOUS
<1> USE WinFuseAssumption DEF TypeInv, TypeOK, ThreadShape, PC, Hint, Rsp, Msg,
        ctxVars, ioqVars, instVars, thrVars, dmnVars, hostVars,
        Owner
<1>1. ASSUME NEW t \in Thread, DaemonPoll(t) PROVE TypeInv'
    BY <1>1 DEF DaemonPoll
<1>2. ASSUME NEW t \in Thread, DaemonReply(t) PROVE TypeInv'
    BY <1>2 DEF DaemonReply
<1>3. ASSUME NEW t \in Thread, DaemonReplay(t) PROVE TypeInv'
    BY <1>3 DEF DaemonReplay
<1>4. ASSUME NEW t \in Thread, RspMatch(t) PROVE TypeInv'
    BY <1>4 DEF RspMatch
<1>5. ASSUME NEW t \in Thread, RspSpurious(t) PROVE TypeInv'
    BY <1>5 DEF RspSpurious, AfterRsp
<1>6. ASSUME NEW t \in Thread, RspProcessSelf(t) PROVE TypeInv'
    <2>1. held[t] \in Ctx
        BY <1>6 DEF RspProcessSelf
    <2>2. /\ alloc' \subseteq Ctx /\ hint' \in [Ctx -> Hint]
          /\ ireq' \in [Ctx -> HostReq \cup {NoReq}]
          /\ flist' \in [Ctx -> SUBSET Ino] /\ nfree' \in [HostReq -> Nat]
        BY <2>1, <1>6, DeleteCtxType DEF RspProcessSelf
    <2>3. /\ versionMajor' \in {0, FuseProtoVersion, VersionDenied}
          /\ initEvent' \in BOOLEAN
        BY <1>6 DEF RspProcessSelf
    <2>4. PICK v \in {"req", "exit"} : pc' = [pc EXCEPT ![t] = v]
        BY <1>6 DEF RspProcessSelf, AfterRsp
    <2>5. held' = [held EXCEPT ![t] = NoCtx]
        BY <1>6 DEF RspProcessSelf
    <2>6. UNCHANGED <<pending, processing, cache, up, cacheLive, inrsp, outbuf,
                     local, emit, owe, replied, ndup, lookups, forgot, hostQ,
                     nanswer>>
        BY <1>6 DEF RspProcessSelf
    <2>7. ThreadShape'
        <3> SUFFICES ASSUME NEW u \in Thread
                     PROVE  /\ pc'[u] \in {"rsp", "rspproc"} => inrsp'[u] \in Rsp
                            /\ pc'[u] \in {"rspproc", "reqproc"} => held'[u] \in Ctx
                            /\ pc'[u] = "reqstatus" => local'[u] \in HostReq
            OBVIOUS
        <3>1. CASE u = t
            BY <2>4, <3>1
        <3>2. CASE u # t
            BY <2>4, <2>5, <2>6, <3>2
        <3>. QED
            BY <3>1, <3>2
    <2>. QED
        BY <2>2, <2>3, <2>4, <2>5, <2>6, <2>7
<1>7. ASSUME NEW t \in Thread, RspProcessHost(t) PROVE TypeInv'
    <2> DEFINE c == held[t]
    <2>1. c \in Ctx
        BY <1>7 DEF RspProcessHost
    <2>2. /\ alloc' \subseteq Ctx /\ hint' \in [Ctx -> Hint]
          /\ ireq' \in [Ctx -> HostReq \cup {NoReq}]
          /\ flist' \in [Ctx -> SUBSET Ino] /\ nfree' \in [HostReq -> Nat]
        BY <2>1, <1>7, DeleteCtxType DEF RspProcessHost
    <2>3. nanswer' \in [HostReq -> Nat]
        BY <1>7, ForwardType DEF RspProcessHost
    <2>4. cache' \subseteq Ino /\ lookups' \in [Ino -> Nat]
        <3>1. \/ \E i \in Ino : cache' = cache \cup {i}
                                /\ lookups' = [lookups EXCEPT ![i] = @ + 1]
              \/ UNCHANGED <<cache, lookups>>
            BY <1>7 DEF RspProcessHost
        <3>2. CASE \E i \in Ino : cache' = cache \cup {i}
                              /\ lookups' = [lookups EXCEPT ![i] = @ + 1]
            <4>1. PICK i \in Ino : cache' = cache \cup {i}
                                 /\ lookups' = [lookups EXCEPT ![i] = @ + 1]
                BY <3>2
            <4>. QED
                BY <4>1
        <3>3. CASE UNCHANGED <<cache, lookups>>
            BY <3>3
        <3>. QED
            BY <3>1, <3>2, <3>3
    <2>5. PICK v \in {"req", "exit"} : pc' = [pc EXCEPT ![t] = v]
        BY <1>7 DEF RspProcessHost, AfterRsp
    <2>6. held' = [held EXCEPT ![t] = NoCtx]
        BY <1>7 DEF RspProcessHost
    <2>7. UNCHANGED <<pending, processing, versionMajor, initEvent, up,
                     cacheLive, inrsp,
                     outbuf, local, emit, owe, replied, ndup, forgot, hostQ>>
        BY <1>7 DEF RspProcessHost
    <2>8. pc' \in [Thread -> PC] /\ held' \in [Thread -> Ctx \cup {NoCtx}]
        BY <2>5, <2>6
    <2>9. ThreadShape'
        <3> SUFFICES ASSUME NEW u \in Thread
                     PROVE  /\ pc'[u] \in {"rsp", "rspproc"} => inrsp'[u] \in Rsp
                            /\ pc'[u] \in {"rspproc", "reqproc"} => held'[u] \in Ctx
                            /\ pc'[u] = "reqstatus" => local'[u] \in HostReq
            OBVIOUS
        <3>1. CASE u = t
            BY <2>5, <3>1
        <3>2. CASE u # t
            BY <2>5, <2>6, <2>7, <3>2
        <3>. QED
            BY <3>1, <3>2
    <2>. QED
        BY <2>2, <2>3, <2>4, <2>7, <2>8, <2>9
<1>8. ASSUME NEW t \in Thread, ReqPop(t) PROVE TypeInv'
    BY <1>8 DEF ReqPop
<1>9. ASSUME NEW t \in Thread, ReqEmpty(t) PROVE TypeInv'
    BY <1>9 DEF ReqEmpty
<1>10. ASSUME NEW t \in Thread, ReqWake(t) PROVE TypeInv'
    BY <1>10 DEF ReqWake
<1>11. ASSUME NEW t \in Thread, ReqCancel(t) PROVE TypeInv'
    BY <1>11 DEF ReqCancel
<1>12. ASSUME NEW t \in Thread, ReqAdmitNone(t) PROVE TypeInv'
    BY <1>12 DEF ReqAdmitNone
<1>13. ASSUME NEW t \in Thread, ReqAdmitCtx(t) PROVE TypeInv'
    <2>1. TypeOK'
        BY <1>13 DEF ReqAdmitCtx
    <2>2. ThreadShape'
        BY <1>13 DEF ReqAdmitCtx
    <2>. QED
        BY <2>1, <2>2
<1>14. ASSUME NEW t \in Thread, ReqAdmitStatus(t) PROVE TypeInv'
    <2>1. TypeOK'
        BY <1>14 DEF ReqAdmitStatus
    <2>2. ThreadShape'
        BY <1>14 DEF ReqAdmitStatus
    <2>. QED
        BY <2>1, <2>2
<1>15. ASSUME NEW t \in Thread, ReqStatus(t) PROVE TypeInv'
    <2>1. TypeOK'
        BY <1>15 DEF ReqStatus, Forward
    <2>2. ThreadShape'
        BY <1>15 DEF ReqStatus, Forward
    <2>. QED
        BY <2>1, <2>2
<1>16. ASSUME NEW t \in Thread, ReqExchange(t) PROVE TypeInv'
    <2>1. TypeOK'
        BY <1>16 DEF ReqExchange, OwnerOf
    <2>2. ThreadShape'
        BY <1>16 DEF ReqExchange, OwnerOf
    <2>. QED
        BY <2>1, <2>2
<1>17. ASSUME NEW t \in Thread, ReqCreate(t) PROVE TypeInv'
    <2>1. held[t] \in Ctx
        BY <1>17 DEF ReqCreate
    <2>2. /\ alloc' \subseteq Ctx /\ hint' \in [Ctx -> Hint]
          /\ ireq' \in [Ctx -> HostReq \cup {NoReq}]
          /\ flist' \in [Ctx -> SUBSET Ino] /\ nfree' \in [HostReq -> Nat]
        BY <2>1, <1>17, DeleteCtxType DEF ReqCreate
    <2>3. nanswer' \in [HostReq -> Nat]
        BY <1>17, ForwardType DEF ReqCreate
    <2>4. TypeOK'
        BY <1>17, <2>2, <2>3 DEF ReqCreate
    <2>5. ThreadShape'
        BY <1>17 DEF ReqCreate
    <2>. QED
        BY <2>4, <2>5
<1>18. ASSUME NEW t \in Thread, ReqForget(t) PROVE TypeInv'
    <2> DEFINE c == held[t]
    <2>1. c \in Ctx
        BY <1>18 DEF ReqForget
    <2>2. PICK B \in SUBSET flist[c] :
             /\ forgot' = [i \in Ino |-> IF i \in B THEN forgot[i] + 1
                                                    ELSE forgot[i]]
             /\ IF flist[c] \ B # {}
                THEN /\ flist' = [flist EXCEPT ![c] = @ \ B]
                     /\ pending' = Append(pending, c)
                     /\ UNCHANGED <<alloc, hint, ireq, nfree>>
                ELSE /\ DeleteCtx(c)
                     /\ UNCHANGED pending
        BY <1>18 DEF ReqForget
    <2>3. forgot' \in [Ino -> Nat]
        BY <2>2
    <2>4. CASE flist[c] \ B # {}
        <3>0. /\ flist' = [flist EXCEPT ![c] = @ \ B]
              /\ pending' = Append(pending, c)
              /\ UNCHANGED <<alloc, hint, ireq, nfree>>
            BY <2>2, <2>4
        <3>1. flist' \in [Ctx -> SUBSET Ino] /\ pending' \in Seq(Ctx)
            BY <2>1, <3>0
        <3>2. TypeOK'
            BY <1>18, <2>3, <3>0, <3>1 DEF ReqForget
        <3>3. ThreadShape'
            BY <1>18 DEF ReqForget
        <3>. QED
            BY <3>2, <3>3
    <2>5. CASE flist[c] \ B = {}
        <3>0. DeleteCtx(c) /\ UNCHANGED pending
            BY <2>2, <2>5
        <3>1. /\ alloc' \subseteq Ctx /\ hint' \in [Ctx -> Hint]
              /\ ireq' \in [Ctx -> HostReq \cup {NoReq}]
              /\ flist' \in [Ctx -> SUBSET Ino] /\ nfree' \in [HostReq -> Nat]
            BY <2>1, <3>0, DeleteCtxType
        <3>2. TypeOK'
            BY <1>18, <2>3, <3>0, <3>1 DEF ReqForget
        <3>3. ThreadShape'
            BY <1>18 DEF ReqForget
        <3>. QED
            BY <3>2, <3>3
    <2>. QED
        BY <2>4, <2>5
<1>19. ASSUME NEW t \in Thread, Return(t) PROVE TypeInv'
    <2>1. nfree' \in [HostReq -> Nat]
        <3>1. nfree' = IF local[t] = NoReq THEN nfree
                       ELSE [nfree EXCEPT ![local[t]] = @ + 1]
            BY <1>19 DEF Return
        <3>. QED
            BY <3>1
    <2>2. owe' \in [Thread -> Msg \cup {NoMsg}]
        BY <1>19 DEF Return
    <2>3. /\ pc' = [pc EXCEPT ![t] = "idle"]
          /\ inrsp' = [inrsp EXCEPT ![t] = NoMsg]
          /\ outbuf' = [outbuf EXCEPT ![t] = FALSE]
          /\ local' = [local EXCEPT ![t] = NoReq]
          /\ emit' = [emit EXCEPT ![t] = NoMsg]
          /\ UNCHANGED <<ctxVars, ioqVars, instVars, held, replied, ndup,
                         lookups, forgot, hostQ, nanswer>>
        BY <1>19 DEF Return
    <2>4. /\ pc' \in [Thread -> PC]
          /\ inrsp' \in [Thread -> Rsp \cup {NoMsg}]
          /\ outbuf' \in [Thread -> BOOLEAN]
          /\ local' \in [Thread -> HostReq \cup {NoReq}]
          /\ emit' \in [Thread -> Msg \cup {NoMsg}]
        BY <2>3
    <2>5. ThreadShape'
        BY <2>3
    <2>. QED
        BY <2>1, <2>2, <2>3, <2>4, <2>5 DEF ctxVars, ioqVars, instVars
<1>20. CASE Expire
    <2>1. PICK S \in SUBSET cache \ {{}}, c \in Ctx \ alloc :
             /\ cache' = cache \ S
             /\ alloc' = alloc \cup {c}
             /\ hint' = [hint EXCEPT ![c] = "FORGET"]
             /\ flist' = [flist EXCEPT ![c] = S]
             /\ pending' = Append(pending, c)
        BY <1>20 DEF Expire
    <2>2. UNCHANGED <<ireq, processing, versionMajor, initEvent, up,
                      cacheLive, thrVars, dmnVars, hostVars>>
        BY <1>20 DEF Expire
    <2>3. /\ cache' \subseteq Ino /\ alloc' \subseteq Ctx
          /\ hint' \in [Ctx -> Hint] /\ flist' \in [Ctx -> SUBSET Ino]
          /\ pending' \in Seq(Ctx)
        BY <2>1
    <2>4. TypeOK'
        BY <2>2, <2>3
    <2>5. ThreadShape'
        BY <2>2
    <2>. QED
        BY <2>4, <2>5
<1>21. CASE UNCHANGED vars
    BY <1>21 DEF vars, ctxVars, ioqVars, instVars, thrVars, dmnVars, hostVars
<1>22. CASE Fini
    <2>1. ASSUME NEW r \in HostReq
          PROVE  Cardinality({c \in Queued : ireq[c] = r}) \in Nat
        <3>1. {c \in Queued : ireq[c] = r} \subseteq Ctx
            BY DEF Queued
        <3>2. IsFiniteSet({c \in Queued : ireq[c] = r})
            BY <3>1, FS_Subset
        <3>. QED
            BY <3>2, FS_CardinalityType
    <2>2. DeleteQueued(Queued)
        BY <1>22 DEF Fini
    <2>3. ASSUME NEW r \in HostReq
          PROVE  nfree[r] + Cardinality({c \in Queued : ireq[c] = r}) \in Nat
        <3>1. nfree[r] \in Nat
            OBVIOUS
        <3>2. Cardinality({c \in Queued : ireq[c] = r}) \in Nat
            BY <2>1, Zenon
        <3>. QED
            BY <3>1, <3>2
    <2>4. nfree' \in [HostReq -> Nat]
        BY <2>2, <2>3 DEF DeleteQueued
    <2>5. alloc' \subseteq Ctx /\ hint' \in [Ctx -> Hint]
          /\ ireq' \in [Ctx -> HostReq \cup {NoReq}]
          /\ flist' \in [Ctx -> SUBSET Ino]
        BY <2>2 DEF DeleteQueued
    <2>6. /\ pending' = <<>> /\ processing' = {} /\ up' = FALSE
          /\ UNCHANGED <<versionMajor, initEvent, cache, cacheLive, thrVars,
                         dmnVars, hostQ, nanswer>>
        BY <1>22 DEF Fini
    <2>7. /\ pc' = pc /\ inrsp' = inrsp /\ held' = held /\ local' = local
          /\ outbuf' = outbuf /\ emit' = emit
          /\ owe' = owe /\ replied' = replied /\ ndup' = ndup
          /\ lookups' = lookups /\ forgot' = forgot
        BY <2>6
    <2>8. ThreadShape'
        BY <2>7
    <2>9. pending' \in Seq(Ctx)
        <3>1. <<>> \in Seq(Ctx)
            OBVIOUS
        <3>. QED
            BY <2>6, <3>1
    <2>10. /\ processing' = {} /\ up' = FALSE
           /\ versionMajor' = versionMajor /\ initEvent' = initEvent
           /\ cache' = cache /\ cacheLive' = cacheLive
           /\ hostQ' = hostQ /\ nanswer' = nanswer
        BY <2>6
    <2>11. TypeOK'
        BY <2>4, <2>5, <2>7, <2>9, <2>10, Zenon
    <2>. QED
        BY <2>8, <2>11
<1>23. CASE Terminated
    BY <1>23 DEF Terminated, vars
<1>24. CASE FiniCache
    BY <1>24 DEF FiniCache
<1>. QED
    BY <1>1, <1>2, <1>3, <1>4, <1>5, <1>6, <1>7, <1>8, <1>9, <1>10, <1>11,
       <1>12, <1>13, <1>14, <1>15, <1>16, <1>17, <1>18, <1>19, <1>20, <1>21,
       <1>22, <1>23, <1>24
    DEF Next, Kernel

\* The type invariant holds in every reachable state, for every number of
\* threads, contexts, internal requests and inodes.
THEOREM TypeCorrect == Spec => []TypeOK
<1>1. Spec => []TypeInv
    BY TypeInvInit, TypeInvNext, PTL DEF Spec
<1>. QED
    BY <1>1, PTL DEF TypeInv
=============================================================================
