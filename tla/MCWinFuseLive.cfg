CONSTANTS
    t1 = t1  t2 = t2  c1 = c1  c2 = c2
    r1 = r1  r2 = r2  r3 = r3  i1 = i1  i2 = i2
    NoCtx = NoCtx  NoReq = NoReq  NoMsg = NoMsg
    Thread <- MCThread
    Ctx <- MCCtx
    HostReq <- MCHostReqLive
    ReqKind <- MCReqKindLive
    Ino <- MCInoLive
    MaxLookup = 1
    BatchCap = 1
    UseBatchForget = TRUE
    MaxDup = 0
SPECIFICATION FairSpec
PROPERTY RequestsReleased InodesForgotten WaitEnds
