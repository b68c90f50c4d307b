-------------------------- MODULE FuseAttrProofs ---------------------------
(***************************************************************************)
(* FuseAttrToFileInfo agrees with the attribute mapping of spec 6 for      *)
(* every word width, every st_mode and every size whose rounding fits in   *)
(* the word.                                                               *)
(***************************************************************************)
EXTENDS FuseAttr, TLAPS

\* Every state holds the result of one call on well-formed arguments.
IInv ==
    /\ attr \in Attr
    /\ vp \in VolParams
    /\ info = FuseAttrToFileInfo(attr, vp)

LEMMA IInvInit == Init => IInv
BY DEF Init, IInv

LEMMA IInvNext == IInv /\ [Convert]_vars => IInv'
BY DEF IInv, Convert, vars

\* The switch of proto.c 279-301 is the table of spec 6, for every mode.
LEMMA TypeInfoMatches ==
    ASSUME NEW mode \in Nat
    PROVE  TypeInfo(mode) = RefTypeInfo(mode)
<1>1. CASE FileType(mode) = S_IFDIR
    BY <1>1 DEF TypeInfo, RefTypeInfo, S_IFDIR, S_IFLNK, S_IFIFO, S_IFCHR,
       S_IFBLK, S_IFSOCK
<1>2. CASE FileType(mode) \in {S_IFIFO, S_IFCHR, S_IFBLK, S_IFSOCK}
    BY <1>2 DEF TypeInfo, RefTypeInfo, S_IFDIR, S_IFLNK, S_IFIFO, S_IFCHR,
       S_IFBLK, S_IFSOCK
<1>3. CASE FileType(mode) = S_IFLNK
    BY <1>3 DEF TypeInfo, RefTypeInfo, S_IFDIR, S_IFLNK, S_IFIFO, S_IFCHR,
       S_IFBLK, S_IFSOCK
<1>4. CASE FileType(mode) \notin {S_IFDIR, S_IFLNK, S_IFIFO, S_IFCHR, S_IFBLK, S_IFSOCK}
    BY <1>4 DEF TypeInfo, RefTypeInfo
<1>. QED
    BY <1>1, <1>2, <1>3, <1>4

\* (s + a - 1) / a * a on N-bit words: when s + a - 1 fits, neither the
\* sum, the decrement nor the product wraps.  The sum may wrap to 0 when
\* s + a = N; the decrement then wraps back to s + a - 1.
LEMMA RoundUpNoWrap ==
    ASSUME NEW N \in Nat \ {0}, NEW s \in 0..(N - 1), NEW a \in Nat \ {0},
           s + a - 1 < N
    PROVE  ((((((s + a) % N) - 1) % N) \div a) * a) % N = ((s + a - 1) \div a) * a
<1> DEFINE m == s + a - 1
<1>1. (((s + a) % N) - 1) % N = m
    <2>1. CASE s + a < N
        BY <2>1
    <2>2. CASE s + a = N
        BY <2>2
    <2>. QED
        BY <2>1, <2>2
<1>2. m \in Nat
    OBVIOUS
<1>3. (m \div a) * a <= m /\ (m \div a) \in Nat
    BY <1>2, SMTT(30)
<1>4. ((m \div a) * a) % N = (m \div a) * a
    BY <1>2, <1>3
<1>5. ((((s + a) % N) - 1) % N) \div a = m \div a
    BY <1>1
<1>. QED
    BY <1>4, <1>5

\* The allocation unit of well-formed volume parameters is their product.
LEMMA AllocationUnitExact ==
    ASSUME NEW v \in VolParams
    PROVE  /\ AllocationUnit(v) = v.SectorSize * v.SectorsPerAllocationUnit
           /\ AllocationUnit(v) \in Nat \ {0}
<1>1. /\ v.SectorSize \in Nat \ {0} /\ v.SectorsPerAllocationUnit \in Nat \ {0}
      /\ v.SectorSize * v.SectorsPerAllocationUnit < Word
      /\ Word \in Nat \ {0}
    BY FuseAttrAssumption DEF VolParams, Word
<1>2. v.SectorSize * v.SectorsPerAllocationUnit \in Nat \ {0}
    BY <1>1
<1>3. (v.SectorSize * v.SectorsPerAllocationUnit) % Word
        = v.SectorSize * v.SectorsPerAllocationUnit
    BY <1>1, <1>2
<1>. QED
    BY <1>2, <1>3 DEF AllocationUnit, UMul

\* File attributes and reparse tag: the type bits of st_mode alone decide
\* them, as spec 6 lists (proto.c 279-301), for every mode the daemon can
\* send.
THEOREM AttributesCorrect == Spec => []AttributesMatchSpec
<1>1. IInv => AttributesMatchSpec
    <2> SUFFICES ASSUME IInv PROVE AttributesMatchSpec
        OBVIOUS
    <2>1. attr.mode \in Nat
        BY FuseAttrAssumption DEF IInv, Attr
    <2>2. TypeInfo(attr.mode) = RefTypeInfo(attr.mode)
        BY <2>1, TypeInfoMatches
    <2>. QED
        BY <2>2 DEF IInv, FuseAttrToFileInfo, AttributesMatchSpec
<1>. QED
    BY <1>1, IInvInit, IInvNext, PTL DEF Spec

\* AllocationSize (proto.c 303-305) is the size rounded up to a whole
\* number of allocation units, for every word width and every size whose
\* rounding does not pass the top of the word.
THEOREM AllocationCorrect == Spec => []AllocationRoundsUpInRange
<1>1. IInv => AllocationRoundsUpInRange
    <2> SUFFICES ASSUME IInv, attr.size + AllocationUnit(vp) - 1 < Word
                 PROVE  info.AllocationSize
                            = RefAllocationSize(attr.size, AllocationUnit(vp))
        BY DEF AllocationRoundsUpInRange
    <2>1. AllocationUnit(vp) \in Nat \ {0}
        BY AllocationUnitExact DEF IInv
    <2>2. Word \in Nat \ {0} /\ attr.size \in 0..(Word - 1)
        BY FuseAttrAssumption DEF IInv, Attr, Word
    <2>3. AllocationSize(attr.size, AllocationUnit(vp))
            = RefAllocationSize(attr.size, AllocationUnit(vp))
        BY <2>1, <2>2, RoundUpNoWrap
        DEF AllocationSize, RefAllocationSize, UAdd, USub, UMul, UDiv
    <2>. QED
        BY <2>3 DEF IInv, FuseAttrToFileInfo
<1>. QED
    BY <1>1, IInvInit, IInvNext, PTL DEF Spec
=============================================================================
