CONSTANTS
    t1 = t1  t2 = t2  c1 = c1  c2 = c2
    r1 = r1  r2 = r2  r3 = r3  i1 = i1  i2 = i2
    NoCtx = NoCtx  NoReq = NoReq  NoMsg = NoMsg
    Thread <- MCThread
    Ctx <- MCCtx
    HostReq <- MCHostReq
    ReqKind <- MCReqKind
    Ino <- MCIno
    MaxLookup = 2
    BatchCap = 1
    UseBatchForget = TRUE
    MaxDup = 1
SPECIFICATION Spec
INVARIANT TypeOK CtxOwnership RequestAccounting ReplyReachable ForgetAccounting
    CacheOutlivesContexts
SYMMETRY MCSymmetry
PROPERTY HostContract
