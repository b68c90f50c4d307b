------------------------ MODULE WinFuseReplyProofs -------------------------
(***************************************************************************)
(* No request is lost between FuseIoqStartProcessing and the daemon        *)
(* (ReplyReachable), for every value of the constants.  A context in the  *)
(* processing map has a witness, a thread whose output buffer, owed reply  *)
(* or incoming reply names it.  A witness moves along one thread: the      *)
(* output buffer becomes the owed request when the IRP completes (Return), *)
(* the owed request becomes the reply of the worker's next call            *)
(* (DaemonReply), and the reply is consumed only by the EndProcessing that *)
(* takes the context out of the map (RspMatch).                            *)
(***************************************************************************)
EXTENDS WinFuseProofs

\* Thread t can still bring an answer to context c.
Answers(t, c) ==
    \/ emit[t] # NoMsg /\ emit[t].unique = c
    \/ owe[t] # NoMsg /\ owe[t].unique = c
    \/ pc[t] = "rsp" /\ inrsp[t].unique = c

LEMMA ReachableIsAnswers ==
    ReplyReachable <=> \A c \in processing : \E t \in Thread : Answers(t, c)
BY DEF ReplyReachable, Answers

\* Inside a call and away from the response half's lookup, a thread is no
\* witness: it owes nothing and its output buffer is still empty.
LEMMA BusyAnswersNothing ==
    ASSUME OweBetweenCalls, EmitAtExit, NEW t \in Thread,
           pc[t] \notin {"idle", "rsp", "exit"}, NEW c
    PROVE  ~Answers(t, c)
BY DEF OweBetweenCalls, EmitAtExit, Answers

\* A step that touches the witnesses of thread t only: every context still
\* in the map keeps a witness if t's witnessing carries over, and a context
\* newly in the map is witnessed by t.
LEMMA ReplyStep ==
    ASSUME ReplyReachable, NEW t \in Thread,
           \A u \in Thread \ {t} :
               /\ emit'[u] = emit[u] /\ owe'[u] = owe[u]
               /\ pc'[u] = pc[u] /\ inrsp'[u] = inrsp[u],
           \A c \in processing' : c \in processing \/ Answers(t, c)',
           \A c \in processing' : Answers(t, c) => Answers(t, c)'
    PROVE  ReplyReachable'
<1> SUFFICES ASSUME NEW c \in processing'
             PROVE  \E u \in Thread : Answers(u, c)'
    BY DEF ReplyReachable, Answers
<1>1. CASE Answers(t, c)'
    BY <1>1
<1>2. CASE ~Answers(t, c)'
    <2>1. PICK u \in Thread : Answers(u, c)
        BY <1>2, ReachableIsAnswers
    <2>2. u # t
        BY <1>2, <2>1
    <2>. QED
        BY <2>1, <2>2 DEF Answers
<1>. QED
    BY <1>1, <1>2

LEMMA ReplyInvInit == Init => ReplyInv
<1> SUFFICES ASSUME Init PROVE ReplyInv
    OBVIOUS
<1>1. TypeInv
    BY TypeInvInit
<1>. QED
    BY <1>1 DEF Init, ReplyInv, OweBetweenCalls, EmitAtExit, ReplyReachable

LEMMA ReplyInvNext == ReplyInv /\ [Next]_vars => ReplyInv'
<1> SUFFICES ASSUME TypeInv, OweBetweenCalls, EmitAtExit, ReplyReachable,
                    [Next]_vars
             PROVE  OweBetweenCalls' /\ EmitAtExit' /\ ReplyReachable'
    BY TypeInvNext DEF ReplyInv
<1>1. /\ pc \in [Thread -> PC] /\ pc' \in [Thread -> PC]
      /\ \A t \in Thread : pc[t] = "rsp" => inrsp[t] \in Rsp
      /\ emit \in [Thread -> Msg \cup {NoMsg}]
      /\ owe \in [Thread -> Msg \cup {NoMsg}]
      /\ inrsp \in [Thread -> Rsp \cup {NoMsg}]
      /\ held \in [Thread -> Ctx \cup {NoCtx}]
      /\ \A t \in Thread : pc[t] \in {"rspproc", "reqproc"} => held[t] \in Ctx
    BY TypeInvNext DEF TypeInv, TypeOK, ThreadShape
\* The steps of a call that leave the daemon's side alone and neither
\* write the output buffer nor touch the map.
<1>2. ASSUME NEW t \in Thread,
             \/ RspProcessSelf(t) \/ RspProcessHost(t) \/ ReqPop(t)
             \/ ReqEmpty(t) \/ ReqWake(t) \/ ReqCancel(t) \/ ReqAdmitNone(t)
             \/ ReqAdmitCtx(t) \/ ReqAdmitStatus(t) \/ ReqStatus(t)
             \/ ReqCreate(t) \/ ReqForget(t)
      PROVE  OweBetweenCalls' /\ EmitAtExit' /\ ReplyReachable'
    <2>1. /\ pc[t] \notin {"idle", "rsp", "exit"}
          /\ pc' = [pc EXCEPT ![t] = pc'[t]]
          /\ pc'[t] # "idle"
          /\ UNCHANGED <<emit, owe, inrsp, processing>>
        BY <1>1, <1>2 DEF RspProcessSelf, RspProcessHost, ReqPop, ReqEmpty,
           ReqWake, ReqCancel, ReqAdmitNone, ReqAdmitCtx, ReqAdmitStatus,
           ReqStatus, ReqCreate, ReqForget, AfterRsp, ioqVars, dmnVars
    <2>2. emit[t] = NoMsg /\ owe[t] = NoMsg
        BY <2>1 DEF OweBetweenCalls, EmitAtExit
    <2>3. OweBetweenCalls' /\ EmitAtExit'
        BY <1>1, <2>1, <2>2 DEF OweBetweenCalls, EmitAtExit
    <2>4. \A c : ~Answers(t, c)
        BY <2>1, BusyAnswersNothing
    <2>5. ReplyReachable'
        BY <1>1, <2>1, <2>4, ReplyStep
    <2>. QED
        BY <2>3, <2>5
\* A worker starts a call: its owed request becomes the call's reply.
<1>3. ASSUME NEW t \in Thread, DaemonPoll(t) \/ DaemonReply(t) \/ DaemonReplay(t)
      PROVE  OweBetweenCalls' /\ EmitAtExit' /\ ReplyReachable'
    <2>1. /\ pc[t] = "idle" /\ emit[t] = NoMsg
          /\ pc' = [pc EXCEPT ![t] = pc'[t]] /\ pc'[t] \in {"req", "rsp"}
          /\ owe'[t] = NoMsg
          /\ owe' = [owe EXCEPT ![t] = NoMsg]
          /\ inrsp' = [inrsp EXCEPT ![t] = inrsp'[t]]
          /\ UNCHANGED <<emit, processing>>
        BY <1>1, <1>3 DEF DaemonPoll, DaemonReply, DaemonReplay,
           EmitAtExit, ioqVars, thrVars, dmnVars
    <2>2. OweBetweenCalls' /\ EmitAtExit'
        BY <1>1, <2>1 DEF OweBetweenCalls, EmitAtExit
    <2>3. ASSUME NEW c \in processing', Answers(t, c) PROVE Answers(t, c)'
        <3>1. owe[t] # NoMsg /\ owe[t].unique = c
            BY <2>1, <2>3 DEF Answers
        <3>2. DaemonReply(t)
            BY <1>3, <3>1 DEF DaemonPoll, DaemonReplay
        <3>3. pc'[t] = "rsp" /\ inrsp'[t].unique = owe[t].unique
            BY <1>1, <3>2 DEF DaemonReply
        <3>. QED
            BY <3>1, <3>3 DEF Answers
    <2>. QED
        BY <1>1, <2>1, <2>2, <2>3, ReplyStep
\* FuseIoqEndProcessing takes the context the reply names out of the map,
\* or the reply names none and is dropped.
<1>4. ASSUME NEW t \in Thread, RspMatch(t) \/ RspSpurious(t)
      PROVE  OweBetweenCalls' /\ EmitAtExit' /\ ReplyReachable'
    <2>1. /\ pc[t] = "rsp"
          /\ pc' = [pc EXCEPT ![t] = pc'[t]] /\ pc'[t] \in {"rspproc", "req", "exit"}
          /\ processing' = processing \ {inrsp[t].unique}
          /\ UNCHANGED <<emit, owe, inrsp>>
        BY <1>1, <1>4 DEF RspMatch, RspSpurious, AfterRsp, ioqVars, dmnVars
    <2>2. emit[t] = NoMsg /\ owe[t] = NoMsg
        BY <2>1 DEF OweBetweenCalls, EmitAtExit
    <2>3. OweBetweenCalls' /\ EmitAtExit'
        BY <1>1, <2>1, <2>2 DEF OweBetweenCalls, EmitAtExit
    <2>4. \A c \in processing' : ~Answers(t, c)
        BY <2>1, <2>2 DEF Answers
    <2>. QED
        BY <1>1, <2>1, <2>3, <2>4, ReplyStep
\* FuseIoqStartProcessing: the call that wrote the request witnesses it.
<1>5. ASSUME NEW t \in Thread, ReqExchange(t)
      PROVE  OweBetweenCalls' /\ EmitAtExit' /\ ReplyReachable'
    <2>1. /\ pc[t] = "reqproc" /\ held[t] \in Ctx
          /\ pc' = [pc EXCEPT ![t] = "exit"]
          /\ emit' = [emit EXCEPT ![t] = [unique |-> held[t],
                                          op |-> OwnerOf(held[t])]]
          /\ processing' = processing \cup {held[t]}
          /\ UNCHANGED <<owe, inrsp>>
        BY <1>1, <1>5 DEF ReqExchange, dmnVars
    <2>2. emit'[t] # NoMsg /\ emit'[t].unique = held[t]
        <3>1. OwnerOf(held[t]) \in HostReq \cup {"INIT"}
            BY <2>1 DEF TypeInv, TypeOK, OwnerOf
        <3>. QED
            BY <1>1, <2>1, <3>1, WinFuseAssumption
    <2>3. OweBetweenCalls' /\ EmitAtExit'
        BY <1>1, <2>1 DEF OweBetweenCalls, EmitAtExit
    <2>4. \A c : c = held[t] => Answers(t, c)'
        BY <2>2 DEF Answers
    <2>5. \A c : ~Answers(t, c)
        BY <2>1, BusyAnswersNothing
    <2>. QED
        BY <1>1, <2>1, <2>3, <2>4, <2>5, ReplyStep
\* The IRP completes: the daemon worker now owes a reply to the request
\* the call wrote.
<1>6. ASSUME NEW t \in Thread, Return(t)
      PROVE  OweBetweenCalls' /\ EmitAtExit' /\ ReplyReachable'
    <2>1. /\ pc[t] = "exit"
          /\ pc' = [pc EXCEPT ![t] = "idle"]
          /\ emit' = [emit EXCEPT ![t] = NoMsg]
          /\ inrsp' = [inrsp EXCEPT ![t] = NoMsg]
          /\ owe' = IF emit[t] = NoMsg THEN owe ELSE [owe EXCEPT ![t] = emit[t]]
          /\ UNCHANGED processing
        BY <1>6 DEF Return, ioqVars
    <2>2. OweBetweenCalls' /\ EmitAtExit'
        BY <1>1, <2>1 DEF OweBetweenCalls, EmitAtExit
    <2>3. \A c \in processing' : Answers(t, c) => Answers(t, c)'
        BY <1>1, <2>1 DEF Answers, OweBetweenCalls
    <2>. QED
        BY <1>1, <2>1, <2>2, <2>3, ReplyStep
\* The steps outside a call leave the threads alone; Fini empties the map.
<1>7. CASE Expire \/ FiniCache \/ Terminated \/ UNCHANGED vars
    BY <1>7 DEF Expire, FiniCache, Terminated, vars, thrVars, dmnVars,
       ioqVars, OweBetweenCalls, EmitAtExit, ReplyReachable
<1>8. CASE Fini
    BY <1>8 DEF Fini, thrVars, dmnVars, OweBetweenCalls, EmitAtExit,
       ReplyReachable
<1>9. ASSUME NEW t \in Thread,
             \/ DaemonPoll(t) \/ DaemonReply(t) \/ DaemonReplay(t)
             \/ Kernel(t) \/ ReqCancel(t)
      PROVE  OweBetweenCalls' /\ EmitAtExit' /\ ReplyReachable'
    BY <1>2, <1>3, <1>4, <1>5, <1>6, <1>9 DEF Kernel
<1>. QED
    BY <1>7, <1>8, <1>9 DEF Next

\* No request is lost (spec 5, fuse.c 261-301), for every number of
\* threads, contexts, internal requests and inodes: every context in the
\* processing map can still be answered, since the request naming it is in
\* a call's output buffer, with the daemon worker that read it, or its
\* reply is inside a call that has not looked it up yet.
THEOREM RepliesReachable == Spec => []ReplyReachable
<1>1. Spec => []ReplyInv
    BY ReplyInvInit, ReplyInvNext, PTL DEF Spec
<1>. QED
    BY <1>1, PTL DEF ReplyInv
=============================================================================
