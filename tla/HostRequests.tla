---------------------------- MODULE HostRequests -----------------------------
(***************************************************************************)
(* What the driver promises the host framework about internal requests    *)
(* (spec 5 and 8; FspFsextProviderTransact and FspFsextProviderFreeExternal *)
(* are not under src/).  The host hands a request out once.  The driver     *)
(* forwards at most one InternalResponse for it, never after freeing it,    *)
(* and frees it exactly once; forwarding and freeing may happen in one     *)
(* step (the context is deleted right after its response is forwarded),    *)
(* and FuseIoqDelete frees several at once.                                *)
(***************************************************************************)
EXTENDS Naturals

CONSTANT HostReq    \* the internal requests the host can hand out

VARIABLES
    pool,       \* requests the host still holds
    answers,    \* InternalResponses forwarded, per request
    frees       \* FreeExternal calls, per request

vars == <<pool, answers, frees>>

\* Handed out and not yet freed: the driver may use it.
InUse(r) == r \notin pool /\ frees[r] = 0

Init ==
    /\ pool = HostReq
    /\ answers = [r \in HostReq |-> 0]
    /\ frees = [r \in HostReq |-> 0]

\* FspFsextProviderTransact with an out-parameter: the host hands out r.
Admit(r) ==
    /\ r \in pool
    /\ pool' = pool \ {r}
    /\ UNCHANGED <<answers, frees>>

\* FspFsextProviderTransact with a response: the one answer of r.
Answer(r) ==
    /\ InUse(r) /\ answers[r] = 0
    /\ answers' = [answers EXCEPT ![r] = 1]
    /\ UNCHANGED <<pool, frees>>

\* The requests of S are released, each for the first time.
Free(S) ==
    /\ \A r \in S : InUse(r)
    /\ frees' = [r \in HostReq |-> IF r \in S THEN 1 ELSE frees[r]]
    /\ UNCHANGED <<pool, answers>>

\* The answer of r is forwarded and r released in one step.
AnswerFree(r) ==
    /\ InUse(r) /\ answers[r] = 0
    /\ answers' = [answers EXCEPT ![r] = 1]
    /\ frees' = [frees EXCEPT ![r] = 1]
    /\ UNCHANGED pool

Next ==
    \/ \E r \in HostReq : Admit(r) \/ Answer(r) \/ AnswerFree(r)
    \/ \E S \in SUBSET HostReq : S # {} /\ Free(S)

Spec == Init /\ [][Next]_vars

=============================================================================
