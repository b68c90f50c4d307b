---------------------------- MODULE MCFuseAttr -----------------------------
(* FuseAttr on 6-bit words: every size a file can have, allocation units  *)
(* of 1 to 8, and one mode of each file type, with permission bits and a   *)
(* bit above the type field.                                               *)
EXTENDS FuseAttr

MCModes ==
    {0, 420, S_IFDIR + 493, S_IFREG + 420, S_IFLNK + 511, S_IFIFO + 420,
     S_IFCHR, S_IFBLK, S_IFSOCK, 65536 + S_IFDIR}
MCSizes == 0..(2^6 - 1)
=============================================================================
