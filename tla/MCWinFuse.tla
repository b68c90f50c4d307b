----------------------------- MODULE MCWinFuse -----------------------------
(* Small instances of WinFuse for TLC.                                     *)
EXTENDS WinFuse, TLC

CONSTANTS t1, t2, c1, c2, r1, r2, r3, i1, i2

MCThread == {t1, t2}
MCCtx == {c1, c2}
MCHostReq == {r1, r2, r3}
MCIno == {i1, i2}
\* two LOOKUPs (cache fills, forgets) and one CREATE (no exchange)
MCReqKind == (r1 :> "LOOKUP") @@ (r2 :> "LOOKUP") @@ (r3 :> "CREATE")

\* The liveness instance: one LOOKUP, one CREATE, one inode.
MCHostReqLive == {r1, r3}
MCInoLive == {i1}
MCReqKindLive == (r1 :> "LOOKUP") @@ (r3 :> "CREATE")

\* Threads are interchangeable; so are inodes and context addresses.
MCSymmetry ==
    Permutations(MCThread) \cup Permutations(MCIno) \cup Permutations(MCCtx)
=============================================================================
