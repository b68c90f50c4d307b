------------------------------ MODULE FuseAttr ------------------------------
(***************************************************************************)
(* FuseAttrToFileInfo (src/winfuse/proto.c 268-313): the translation of a  *)
(* FUSE attribute record into the host's FSP_FSCTL_FILE_INFO.  Arithmetic  *)
(* is on unsigned words of Width bits (UINT64 in the driver), so every sum *)
(* and product wraps modulo 2^Width as the C code does.                    *)
(*                                                                         *)
(* Each step of the machine is one call: the daemon's attributes and the   *)
(* volume parameters in, the file info out.                                *)
(***************************************************************************)
EXTENDS Integers

CONSTANTS
    Width,          \* bits of the unsigned word (64 in the driver)
    Modes,          \* st_mode values the daemon may send
    Sizes,          \* st_size values the daemon may send
    SectorSizes,    \* VolumeParams->SectorSize values (UINT16)
    SectorsPerUnit  \* VolumeParams->SectorsPerAllocationUnit values (UINT32)

\* The word is at least one bit wide (2^Width > 0 is stated as well: the
\* provers do not know exponentiation).  A sector size (UINT16) times
\* the sectors per unit (UINT32) fits in the 64-bit word, as every
\* product of 16 and 32 bits does.
ASSUME FuseAttrAssumption ==
    /\ Width \in Nat \ {0}
    /\ 2^Width \in Nat \ {0}
    /\ Modes \subseteq Nat
    /\ Sizes \subseteq 0..(2^Width - 1)
    /\ SectorSizes \subseteq Nat \ {0}
    /\ SectorsPerUnit \subseteq Nat \ {0}
    /\ \A ss \in SectorSizes, sp \in SectorsPerUnit : ss * sp < 2^Width

Word == 2^Width

\* Unsigned word arithmetic: C's +, -, * and / on UINT64.
UAdd(a, b) == (a + b) % Word
USub(a, b) == (a - b) % Word
UMul(a, b) == (a * b) % Word
UDiv(a, b) == a \div b

\* File type bits of st_mode (octal 0170000) and the types of <sys/stat.h>.
S_IFMT == 61440
S_IFIFO == 4096
S_IFCHR == 8192
S_IFDIR == 16384
S_IFBLK == 24576
S_IFREG == 32768
S_IFLNK == 40960
S_IFSOCK == 49152

\* mode & 0170000: bits 12..15 of the mode.
FileType(mode) == ((mode \div 4096) % 16) * 4096

FILE_ATTRIBUTE_DIRECTORY == 16
FILE_ATTRIBUTE_REPARSE_POINT == 1024

\* Mutant: the switch has lost its S_IFSOCK label, so sockets fall to the
\* default arm.
MutTypeInfo(mode) ==
    CASE FileType(mode) = S_IFDIR ->
            [attrs |-> FILE_ATTRIBUTE_DIRECTORY, tag |-> 0]
      [] FileType(mode) \in {S_IFIFO, S_IFCHR, S_IFBLK} ->
            [attrs |-> FILE_ATTRIBUTE_REPARSE_POINT, tag |-> "NFS"]
      [] FileType(mode) = S_IFLNK ->
            [attrs |-> FILE_ATTRIBUTE_REPARSE_POINT, tag |-> "SYMLINK"]
      [] OTHER -> [attrs |-> 0, tag |-> 0]

\* The switch on the file type (proto.c 279-301).  Reparse tags are named,
\* not numbered (IO_REPARSE_TAG_NFS, IO_REPARSE_TAG_SYMLINK).
TypeInfo(mode) ==
    CASE FileType(mode) = S_IFDIR ->
            [attrs |-> FILE_ATTRIBUTE_DIRECTORY, tag |-> 0]
      [] FileType(mode) \in {S_IFIFO, S_IFCHR, S_IFBLK, S_IFSOCK} ->
            [attrs |-> FILE_ATTRIBUTE_REPARSE_POINT, tag |-> "NFS"]
      [] FileType(mode) = S_IFLNK ->
            [attrs |-> FILE_ATTRIBUTE_REPARSE_POINT, tag |-> "SYMLINK"]
      [] OTHER -> [attrs |-> 0, tag |-> 0]

\* AllocationUnit = SectorSize * SectorsPerAllocationUnit (proto.c 276-277).
AllocationUnit(vp) == UMul(vp.SectorSize, vp.SectorsPerAllocationUnit)

\* Mutant: the "- 1" is dropped, so an aligned size gets one unit too many.
MutAllocationSize(size, au) == UMul(UDiv(UAdd(size, au), au), au)

\* (FileSize + AllocationUnit - 1) / AllocationUnit * AllocationUnit.
AllocationSize(size, au) == UMul(UDiv(USub(UAdd(size, au), 1), au), au)

\* The file info FuseAttrToFileInfo fills.  The three times go through
\* FuseUnixTimeToFileTime (not under src/) and are left out.
FuseAttrToFileInfo(attr, vp) ==
    LET ti == TypeInfo(attr.mode)
    IN  [FileAttributes |-> ti.attrs,
         ReparseTag |-> ti.tag,
         FileSize |-> attr.size,
         AllocationSize |-> AllocationSize(attr.size, AllocationUnit(vp)),
         IndexNumber |-> attr.ino,
         HardLinks |-> 0,
         EaSize |-> 0]

Attr == [mode : Modes, size : Sizes, ino : {1}]
VolParams == [SectorSize : SectorSizes, SectorsPerAllocationUnit : SectorsPerUnit]

VARIABLES attr, vp, info
vars == <<attr, vp, info>>

Init ==
    /\ attr \in Attr
    /\ vp \in VolParams
    /\ info = FuseAttrToFileInfo(attr, vp)

\* One call of FuseAttrToFileInfo on the attributes of a LOOKUP or GETATTR
\* reply, with the volume's parameters.
Convert ==
    \E a \in Attr, v \in VolParams :
        /\ attr' = a
        /\ vp' = v
        /\ info' = FuseAttrToFileInfo(a, v)

Spec == Init /\ [][Convert]_vars

-----------------------------------------------------------------------------
(* Reference (spec 6, "Attribute mapping") and properties                  *)

\* The smallest multiple of the allocation unit that holds size bytes,
\* in unbounded arithmetic.
RefAllocationSize(size, au) == ((size + au - 1) \div au) * au

RefTypeInfo(mode) ==
    LET t == FileType(mode)
    IN  IF t = S_IFDIR THEN [attrs |-> FILE_ATTRIBUTE_DIRECTORY, tag |-> 0]
        ELSE IF t = S_IFLNK
             THEN [attrs |-> FILE_ATTRIBUTE_REPARSE_POINT, tag |-> "SYMLINK"]
        ELSE IF t \in {S_IFIFO, S_IFCHR, S_IFBLK, S_IFSOCK}
             THEN [attrs |-> FILE_ATTRIBUTE_REPARSE_POINT, tag |-> "NFS"]
        ELSE [attrs |-> 0, tag |-> 0]

TypeOK ==
    /\ attr \in Attr
    /\ vp \in VolParams
    /\ info.FileSize \in 0..(Word - 1)
    /\ info.AllocationSize \in 0..(Word - 1)

\* Spec 6: the file's type bits alone decide its attributes and reparse
\* tag: directory, NFS-style special file, symlink, or plain; permission
\* and higher bits of st_mode never change the answer.
AttributesMatchSpec ==
    /\ info.FileAttributes = RefTypeInfo(attr.mode).attrs
    /\ info.ReparseTag = RefTypeInfo(attr.mode).tag

\* Spec 6: AllocationSize is FileSize rounded up to the allocation unit,
\* whenever the rounding fits in the word: a whole number of units, never
\* less than the size, and less than one unit more.
AllocationRoundsUpInRange ==
    LET au == AllocationUnit(vp)
    IN  attr.size + au - 1 < Word =>
            info.AllocationSize = RefAllocationSize(attr.size, au)

\* Spec 6, for every size the daemon can report: the allocation size
\* covers the file size.  The rounding at proto.c 304-305 wraps for sizes
\* within one allocation unit of 2^64.
AllocationCoversSize ==
    info.AllocationSize >= info.FileSize

=============================================================================
