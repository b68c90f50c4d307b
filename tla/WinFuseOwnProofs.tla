------------------------- MODULE WinFuseOwnProofs --------------------------
(***************************************************************************)
(* The IOQ ownership invariant CtxOwnership, for every value of the        *)
(* constants.                                                              *)
(***************************************************************************)
EXTENDS WinFuseProofs, SequenceTheorems

\* Duplicate-free sequences, and membership in one.
NoDup(s) == \A i, j \in 1..Len(s) : s[i] = s[j] => i = j
Elem(s, x) == \E i \in 1..Len(s) : s[i] = x

\* FuseIoqNextPending: the tail of a duplicate-free FIFO is duplicate free
\* and holds exactly the other elements.
LEMMA TailMembers ==
    ASSUME NEW S, NEW s \in Seq(S), s # <<>>, NoDup(s)
    PROVE  /\ Tail(s) \in Seq(S)
           /\ NoDup(Tail(s))
           /\ \A x : Elem(Tail(s), x) <=> Elem(s, x) /\ x # Head(s)
<1>1. /\ Tail(s) \in Seq(S)
      /\ Len(Tail(s)) = Len(s) - 1
      /\ \A i \in 1..Len(Tail(s)) : Tail(s)[i] = s[i + 1]
      /\ Len(s) \in Nat \ {0}
    BY HeadTailProperties, EmptySeq
<1>2. Head(s) = s[1]
    OBVIOUS
<1>3. NoDup(Tail(s))
    BY <1>1 DEF NoDup
<1>4. ASSUME NEW x PROVE Elem(Tail(s), x) <=> Elem(s, x) /\ x # Head(s)
    <2>1. ASSUME Elem(Tail(s), x) PROVE Elem(s, x) /\ x # Head(s)
        BY <1>1, <1>2, <2>1 DEF Elem, NoDup
    <2>2. ASSUME Elem(s, x), x # Head(s) PROVE Elem(Tail(s), x)
        <3>1. PICK i \in 1..Len(s) : s[i] = x
            BY <2>2 DEF Elem
        <3>2. i # 1
            BY <1>2, <2>2, <3>1
        <3>. QED
            BY <1>1, <3>1, <3>2 DEF Elem
    <2>. QED
        BY <2>1, <2>2
<1>. QED
    BY <1>1, <1>3, <1>4

\* FuseIoqPostPending of a context not yet in the FIFO.
LEMMA AppendMembers ==
    ASSUME NEW S, NEW s \in Seq(S), NEW e \in S, NoDup(s), ~Elem(s, e)
    PROVE  /\ Append(s, e) \in Seq(S)
           /\ NoDup(Append(s, e))
           /\ \A x : Elem(Append(s, e), x) <=> Elem(s, x) \/ x = e
<1>1. /\ Append(s, e) \in Seq(S)
      /\ Len(Append(s, e)) = Len(s) + 1
      /\ \A i \in 1..Len(s) : Append(s, e)[i] = s[i]
      /\ Append(s, e)[Len(s) + 1] = e
      /\ Len(s) \in Nat
    BY AppendProperties, LenProperties
<1>2. NoDup(Append(s, e))
    BY <1>1 DEF NoDup, Elem
<1>3. ASSUME NEW x PROVE Elem(Append(s, e), x) <=> Elem(s, x) \/ x = e
    BY <1>1 DEF Elem
<1>. QED
    BY <1>1, <1>2, <1>3

\* The ownership facts, with the FIFO read through Elem.
Own ==
    /\ NoDup(pending)
    /\ \A c \in Ctx :
        c \in alloc <=> (Elem(pending, c) \/ c \in processing
                         \/ \E t \in Thread : held[t] = c)
    /\ \A c \in processing : ~Elem(pending, c)
    /\ \A t \in Thread : held[t] # NoCtx =>
            ~Elem(pending, held[t]) /\ held[t] \notin processing
    /\ \A t, u \in Thread : held[t] = held[u] /\ held[t] # NoCtx => t = u

LEMMA OwnIsCtxOwnership == Own <=> CtxOwnership
BY DEF Own, CtxOwnership, NoDup, Elem, InPending

LEMMA OwnInvInit == Init => OwnInv
<1> SUFFICES ASSUME Init PROVE OwnInv
    OBVIOUS
<1>1. TypeInv
    BY TypeInvInit
<1>2. PICK c0 \in Ctx : alloc = {c0} /\ pending = <<c0>>
    BY DEF Init
<1>3. /\ processing = {}
      /\ held = [t \in Thread |-> NoCtx]
      /\ pc = [t \in Thread |-> "idle"]
    BY DEF Init
<1>4. Own
    BY <1>2, <1>3, WinFuseAssumption DEF Own, NoDup, Elem
<1>. QED
    BY <1>1, <1>3, <1>4, OwnIsCtxOwnership DEF OwnInv, HeldOnlyInProc

\* A step that moves no context: the ownership facts carry over, and a
\* call that holds none before holds none after.
LEMMA OwnFrame ==
    ASSUME Own, HeldOnlyInProc, NEW t \in Thread,
           pc[t] \notin {"rspproc", "reqproc"},
           pc' \in [Thread -> PC], pc \in [Thread -> PC],
           \A u \in Thread \ {t} : pc'[u] = pc[u],
           pc'[t] \notin {"rspproc", "reqproc"},
           UNCHANGED <<alloc, pending, processing, held>>
    PROVE  Own' /\ HeldOnlyInProc'
<1>1. Own'
    BY DEF Own, NoDup, Elem
<1>2. HeldOnlyInProc'
    BY DEF HeldOnlyInProc
<1>. QED
    BY <1>1, <1>2

\* A call deletes the context it holds (FuseContextDelete) and moves on.
LEMMA OwnDelete ==
    ASSUME Own, HeldOnlyInProc, pending \in Seq(Ctx),
           held \in [Thread -> Ctx \cup {NoCtx}], NoCtx \notin Ctx,
           NEW t \in Thread, held[t] \in Ctx,
           NEW v, v \notin {"rspproc", "reqproc"},
           alloc' = alloc \ {held[t]},
           held' = [held EXCEPT ![t] = NoCtx],
           pc' = [pc EXCEPT ![t] = v], pc \in [Thread -> PC],
           UNCHANGED <<pending, processing>>
    PROVE  Own' /\ HeldOnlyInProc'
<1>1. Own'
    BY DEF Own, NoDup, Elem
<1>2. HeldOnlyInProc'
    BY DEF HeldOnlyInProc
<1>. QED
    BY <1>1, <1>2

LEMMA OwnInvNext == OwnInv /\ [Next]_vars => OwnInv'
<1> SUFFICES ASSUME TypeInv, HeldOnlyInProc, Own, [Next]_vars
             PROVE  Own' /\ HeldOnlyInProc'
    BY TypeInvNext, OwnIsCtxOwnership DEF OwnInv, Own, CtxOwnership, NoDup,
       Elem, InPending
<1>1. /\ pending \in Seq(Ctx) /\ processing \subseteq Ctx /\ alloc \subseteq Ctx
      /\ held \in [Thread -> Ctx \cup {NoCtx}] /\ pc \in [Thread -> PC]
      /\ inrsp \in [Thread -> Rsp \cup {NoMsg}]
      /\ \A t \in Thread : pc[t] = "rsp" => inrsp[t] \in Rsp
      /\ \A t \in Thread : pc[t] \in {"rspproc", "reqproc"} => held[t] \in Ctx
      /\ NoCtx \notin Ctx
    BY WinFuseAssumption DEF TypeInv, TypeOK, ThreadShape
<1>2. pc' \in [Thread -> PC]
    BY TypeInvNext DEF TypeInv, TypeOK
<1>3. ASSUME NEW t \in Thread, DaemonPoll(t) PROVE Own' /\ HeldOnlyInProc'
    BY <1>1, <1>2, <1>3, OwnFrame DEF DaemonPoll,
       ctxVars, ioqVars, instVars, thrVars, dmnVars, hostVars
<1>4. ASSUME NEW t \in Thread, DaemonReply(t) PROVE Own' /\ HeldOnlyInProc'
    BY <1>1, <1>2, <1>4, OwnFrame DEF DaemonReply,
       ctxVars, ioqVars, instVars, thrVars, dmnVars, hostVars
<1>5. ASSUME NEW t \in Thread, DaemonReplay(t) PROVE Own' /\ HeldOnlyInProc'
    BY <1>1, <1>2, <1>5, OwnFrame DEF DaemonReplay,
       ctxVars, ioqVars, instVars, thrVars, dmnVars, hostVars
<1>6. ASSUME NEW t \in Thread, RspSpurious(t) PROVE Own' /\ HeldOnlyInProc'
    BY <1>1, <1>2, <1>6, OwnFrame DEF RspSpurious, AfterRsp,
       ctxVars, ioqVars, instVars, thrVars, dmnVars, hostVars
<1>7. ASSUME NEW t \in Thread, ReqEmpty(t) PROVE Own' /\ HeldOnlyInProc'
    BY <1>1, <1>2, <1>7, OwnFrame DEF ReqEmpty,
       ctxVars, ioqVars, instVars, thrVars, dmnVars, hostVars
<1>8. ASSUME NEW t \in Thread, ReqWake(t) PROVE Own' /\ HeldOnlyInProc'
    BY <1>1, <1>2, <1>8, OwnFrame DEF ReqWake,
       ctxVars, ioqVars, instVars, thrVars, dmnVars, hostVars
<1>9. ASSUME NEW t \in Thread, ReqCancel(t) PROVE Own' /\ HeldOnlyInProc'
    BY <1>1, <1>2, <1>9, OwnFrame DEF ReqCancel,
       ctxVars, ioqVars, instVars, thrVars, dmnVars, hostVars
<1>10. ASSUME NEW t \in Thread, ReqAdmitNone(t) PROVE Own' /\ HeldOnlyInProc'
    BY <1>1, <1>2, <1>10, OwnFrame DEF ReqAdmitNone,
       ctxVars, ioqVars, instVars, thrVars, dmnVars, hostVars
<1>11. ASSUME NEW t \in Thread, ReqAdmitStatus(t) PROVE Own' /\ HeldOnlyInProc'
    BY <1>1, <1>2, <1>11, OwnFrame DEF ReqAdmitStatus,
       ctxVars, ioqVars, instVars, thrVars, dmnVars, hostVars
<1>12. ASSUME NEW t \in Thread, ReqStatus(t) PROVE Own' /\ HeldOnlyInProc'
    BY <1>1, <1>2, <1>12, OwnFrame DEF ReqStatus,
       ctxVars, ioqVars, instVars, thrVars, dmnVars, hostVars
<1>13. ASSUME NEW t \in Thread, Return(t) PROVE Own' /\ HeldOnlyInProc'
    BY <1>1, <1>2, <1>13, OwnFrame DEF Return,
       ctxVars, ioqVars, instVars, thrVars, dmnVars, hostVars
<1>14. ASSUME NEW t \in Thread, RspMatch(t) PROVE Own' /\ HeldOnlyInProc'
    <2> DEFINE c == inrsp[t].unique
    <2>1. /\ c \in processing
          /\ processing' = processing \ {c}
          /\ held' = [held EXCEPT ![t] = c]
          /\ pc' = [pc EXCEPT ![t] = "rspproc"]
          /\ UNCHANGED <<alloc, pending>>
        BY <1>14 DEF RspMatch, ctxVars
    <2>2. held[t] = NoCtx /\ c \in Ctx
        BY <1>1, <1>14 DEF RspMatch, HeldOnlyInProc
    <2>3. Own'
        BY <1>1, <2>1, <2>2 DEF Own, NoDup, Elem
    <2>4. HeldOnlyInProc'
        BY <1>1, <2>1, <2>2 DEF HeldOnlyInProc
    <2>. QED
        BY <2>3, <2>4
<1>15. ASSUME NEW t \in Thread, ReqPop(t) PROVE Own' /\ HeldOnlyInProc'
    <2> DEFINE c == Head(pending)
    <2>1. /\ pending # <<>>
          /\ pending' = Tail(pending)
          /\ held' = [held EXCEPT ![t] = c]
          /\ pc' = [pc EXCEPT ![t] = "reqproc"]
          /\ UNCHANGED <<alloc, processing>>
        BY <1>15 DEF ReqPop, ctxVars
    <2>2. held[t] = NoCtx
        BY <1>1, <1>15 DEF ReqPop, HeldOnlyInProc
    <2>3. /\ pending' \in Seq(Ctx)
          /\ NoDup(pending')
          /\ \A x : Elem(pending', x) <=> Elem(pending, x) /\ x # c
        BY <1>1, <2>1, TailMembers DEF Own
    <2>4. c \in Ctx /\ Elem(pending, c)
        <3>1. Len(pending) \in Nat \ {0}
            BY <1>1, <2>1, EmptySeq
        <3>. QED
            BY <1>1, <3>1 DEF Elem
    <2>5. Own'
        BY <1>1, <2>1, <2>2, <2>3, <2>4 DEF Own
    <2>6. HeldOnlyInProc'
        BY <1>1, <2>1, <2>2 DEF HeldOnlyInProc
    <2>. QED
        BY <2>5, <2>6
<1>16. ASSUME NEW t \in Thread, ReqAdmitCtx(t) PROVE Own' /\ HeldOnlyInProc'
    <2>1. PICK c \in Ctx \ alloc :
            /\ alloc' = alloc \cup {c}
            /\ held' = [held EXCEPT ![t] = c]
        BY <1>16 DEF ReqAdmitCtx
    <2>2. /\ pc' = [pc EXCEPT ![t] = "reqproc"]
          /\ UNCHANGED <<pending, processing>>
        BY <1>16 DEF ReqAdmitCtx, ioqVars
    <2>3. held[t] = NoCtx
        BY <1>1, <1>16 DEF ReqAdmitCtx, HeldOnlyInProc
    <2>4. Own'
        BY <1>1, <2>1, <2>2, <2>3 DEF Own
    <2>5. HeldOnlyInProc'
        BY <1>1, <2>1, <2>2, <2>3 DEF HeldOnlyInProc
    <2>. QED
        BY <2>4, <2>5
<1>17. ASSUME NEW t \in Thread, RspProcessSelf(t) PROVE Own' /\ HeldOnlyInProc'
    <2>1. /\ held[t] \in Ctx
          /\ alloc' = alloc \ {held[t]}
          /\ held' = [held EXCEPT ![t] = NoCtx]
          /\ UNCHANGED <<pending, processing>>
        BY <1>1, <1>17 DEF RspProcessSelf, DeleteCtx, ioqVars
    <2>2. PICK v \in {"req", "exit"} : pc' = [pc EXCEPT ![t] = v]
        BY <1>17 DEF RspProcessSelf, AfterRsp
    <2>. QED
        BY <1>1, <2>1, <2>2, OwnDelete
<1>18. ASSUME NEW t \in Thread, RspProcessHost(t) PROVE Own' /\ HeldOnlyInProc'
    <2>1. /\ held[t] \in Ctx
          /\ alloc' = alloc \ {held[t]}
          /\ held' = [held EXCEPT ![t] = NoCtx]
          /\ UNCHANGED <<pending, processing>>
        BY <1>1, <1>18 DEF RspProcessHost, DeleteCtx, ioqVars
    <2>2. PICK v \in {"req", "exit"} : pc' = [pc EXCEPT ![t] = v]
        BY <1>18 DEF RspProcessHost, AfterRsp
    <2>. QED
        BY <1>1, <2>1, <2>2, OwnDelete
<1>19. ASSUME NEW t \in Thread, ReqCreate(t) PROVE Own' /\ HeldOnlyInProc'
    <2>1. /\ held[t] \in Ctx
          /\ alloc' = alloc \ {held[t]}
          /\ held' = [held EXCEPT ![t] = NoCtx]
          /\ pc' = [pc EXCEPT ![t] = "exit"]
          /\ UNCHANGED <<pending, processing>>
        BY <1>1, <1>19 DEF ReqCreate, DeleteCtx, ioqVars
    <2>. QED
        BY <1>1, <2>1, OwnDelete
<1>20. ASSUME NEW t \in Thread, ReqExchange(t) PROVE Own' /\ HeldOnlyInProc'
    <2> DEFINE c == held[t]
    <2>1. /\ c \in Ctx
          /\ processing' = processing \cup {c}
          /\ held' = [held EXCEPT ![t] = NoCtx]
          /\ pc' = [pc EXCEPT ![t] = "exit"]
          /\ UNCHANGED <<alloc, pending>>
        BY <1>1, <1>20 DEF ReqExchange, ctxVars
    <2>2. Own'
        BY <1>1, <2>1 DEF Own, NoDup, Elem
    <2>3. HeldOnlyInProc'
        BY <1>1, <2>1 DEF HeldOnlyInProc
    <2>. QED
        BY <2>2, <2>3
<1>21. ASSUME NEW t \in Thread, ReqForget(t) PROVE Own' /\ HeldOnlyInProc'
    <2> DEFINE c == held[t]
    <2>1. /\ c \in Ctx
          /\ held' = [held EXCEPT ![t] = NoCtx]
          /\ pc' = [pc EXCEPT ![t] = "exit"]
          /\ UNCHANGED processing
        BY <1>1, <1>21 DEF ReqForget
    <2>2. PICK B \in SUBSET flist[c] :
             IF flist[c] \ B # {}
             THEN pending' = Append(pending, c) /\ UNCHANGED alloc
             ELSE DeleteCtx(c) /\ UNCHANGED pending
        BY <1>21 DEF ReqForget
    <2>3. CASE flist[c] \ B # {}
        <3>1. pending' = Append(pending, c) /\ UNCHANGED alloc
            BY <2>2, <2>3
        <3>2. /\ pending' \in Seq(Ctx)
              /\ NoDup(pending')
              /\ \A x : Elem(pending', x) <=> Elem(pending, x) \/ x = c
            BY <1>1, <2>1, <3>1, AppendMembers DEF Own
        <3>3. Own'
            BY <1>1, <2>1, <3>1, <3>2 DEF Own
        <3>4. HeldOnlyInProc'
            BY <1>1, <2>1 DEF HeldOnlyInProc
        <3>. QED
            BY <3>3, <3>4
    <2>4. CASE flist[c] \ B = {}
        <3>1. alloc' = alloc \ {c} /\ UNCHANGED pending
            BY <2>2, <2>4 DEF DeleteCtx
        <3>. QED
            BY <1>1, <2>1, <3>1, OwnDelete
    <2>. QED
        BY <2>3, <2>4
<1>22. CASE Expire
    <2>1. PICK c \in Ctx \ alloc :
            /\ alloc' = alloc \cup {c}
            /\ pending' = Append(pending, c)
        BY <1>22 DEF Expire
    <2>2. UNCHANGED <<processing, pc, held>>
        BY <1>22 DEF Expire, thrVars
    <2>3. /\ pending' \in Seq(Ctx)
          /\ NoDup(pending')
          /\ \A x : Elem(pending', x) <=> Elem(pending, x) \/ x = c
        BY <1>1, <2>1, AppendMembers DEF Own
    <2>4. Own'
        BY <1>1, <2>1, <2>2, <2>3 DEF Own
    <2>5. HeldOnlyInProc'
        BY <2>2 DEF HeldOnlyInProc
    <2>. QED
        BY <2>4, <2>5
<1>23. CASE Fini
    <2>1. \A t \in Thread : held[t] = NoCtx
        BY <1>23 DEF Fini, HeldOnlyInProc
    <2>2. /\ alloc' = alloc \ Queued
          /\ pending' = <<>> /\ processing' = {}
          /\ UNCHANGED <<pc, held>>
        BY <1>23 DEF Fini, DeleteQueued, thrVars
    <2>3. \A c \in alloc : c \in Queued
        BY <1>1, <2>1 DEF Own, Queued, Elem
    <2>4. Own'
        BY <1>1, <2>1, <2>2, <2>3 DEF Own, NoDup, Elem
    <2>5. HeldOnlyInProc'
        BY <2>1, <2>2 DEF HeldOnlyInProc
    <2>. QED
        BY <2>4, <2>5
<1>24. CASE Terminated
    BY <1>24 DEF Terminated, vars, ctxVars, ioqVars, thrVars, Own, NoDup,
       Elem, HeldOnlyInProc
<1>25. CASE FiniCache
    BY <1>25 DEF FiniCache, ctxVars, ioqVars, thrVars, Own, NoDup, Elem,
       HeldOnlyInProc
<1>99. CASE UNCHANGED vars
    BY <1>99 DEF vars, ctxVars, ioqVars, thrVars, Own, NoDup, Elem,
       HeldOnlyInProc
<1>. QED
    BY <1>3, <1>4, <1>5, <1>6, <1>7, <1>8, <1>9, <1>10, <1>11, <1>12, <1>13,
       <1>14, <1>15, <1>16, <1>17, <1>18, <1>19, <1>20, <1>21, <1>22, <1>23,
       <1>24, <1>25, <1>99
    DEF Next, Kernel

\* The IOQ contract of spec 4.4 and 5, for every number of threads, context
\* addresses, internal requests and inodes: every live context is in exactly
\* one of the pending FIFO (once), the processing map, or the hands of one
\* FuseDeviceTransact call, and a deleted context is in none of them.
THEOREM OwnershipHolds == Spec => []CtxOwnership
<1>1. Spec => []OwnInv
    BY OwnInvInit, OwnInvNext, PTL DEF Spec
<1>. QED
    BY <1>1, PTL DEF OwnInv

=============================================================================
