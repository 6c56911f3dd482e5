----------------------------- MODULE TarFormat -----------------------------
(***************************************************************************)
(* The layout of a tar archive as the readers of this crate see it: a run  *)
(* of bytes, cut into blocks of 512, of which only the ones that are       *)
(* parsed (headers, GNU sparse extension blocks) have a content the model  *)
(* can tell apart.  A block is a record of the fields the code branches    *)
(* on; text, owners, modes and times are left out.                         *)
(***************************************************************************)
EXTENDS Integers, Sequences

CONSTANTS
    Block,      \* bytes in a block (512 in the code)
    U64Max,     \* the largest u64
    I64Max,     \* the largest i64
    None        \* the absent value: Option::None, or a field that fails to parse

ASSUME BlockAssumption == Block \in Nat \ {0}
ASSUME WidthAssumption == U64Max \in Nat /\ I64Max \in Nat /\ I64Max < U64Max
ASSUME NoneAssumption  == None \notin Nat

Min2(m, n) == IF m <= n THEN m ELSE n

\* a - b on u64: it wraps in a build that does not trap overflow.
SaturatingSub(a, b) == IF b <= a THEN a - b ELSE 0          \* mutant
WrappingSub(a, b)   == IF b <= a THEN a - b ELSE a - b + U64Max + 1

\* (n + 511) & !(512 - 1)
RoundDown(n) == (n \div Block) * Block                      \* mutant
RoundUp(n) == ((n + Block - 1) \div Block) * Block

Magics == {"gnu", "ustar", "old"}
Kinds  == {"file", "longname", "longlink", "pax", "sparse"}
Descriptors == {"longname", "longlink", "pax"}

\* One (offset, numbytes) pair of a GNU sparse map; None when it is not a number.
SparseDesc == [offset : Nat, len : Nat]

(***************************************************************************)
(* zero: every byte is 0.  cksum: the stored checksum parses and matches.  *)
(* magic, kind: as_gnu / as_ustar and the entry type.  size: the octal     *)
(* size field.  pax: the `size` record in the payload of a pax member.     *)
(* sparse, ext, real: the non-empty sparse pairs, the isextended flag and  *)
(* the real size (an extension block uses sparse and ext only).            *)
(***************************************************************************)
BlockType ==
    [zero : BOOLEAN, cksum : BOOLEAN, magic : Magics, kind : Kinds,
     size : Nat \cup {None}, pax : Nat \cup {None},
     sparse : Seq(SparseDesc \cup {None}), ext : BOOLEAN,
     real : Nat \cup {None}]

\* What a block of a payload parses to.
Garbage ==
    [zero |-> FALSE, cksum |-> FALSE, magic |-> "old", kind |-> "file",
     size |-> None, pax |-> None, sparse |-> <<None>>, ext |-> FALSE,
     real |-> None]

\* blocks[k] holds the bytes from (k - 1) * Block on; len may cut the last one.
ArchiveType == [blocks : Seq(BlockType), len : Nat]

\* A block off the grid is garbage too, unless it lies within zeros.
BlockAt(a, o) ==
    LET k == (o \div Block) + 1
    IN  IF k \in DOMAIN a.blocks
           /\ \/ o % Block = 0
              \/ k + 1 \in DOMAIN a.blocks /\ a.blocks[k].zero /\ a.blocks[k + 1].zero
        THEN a.blocks[k]
        ELSE Garbage

\* header.as_gnu().is_some() || header.as_ustar().is_some()
Recognized(b) == b.magic \in {"gnu", "ustar"}

IsDescriptor(b) == Recognized(b) /\ b.kind \in Descriptors

\* The size of a member: a zero size field gives way to the pax record.
MemberSize(b, paxSize) ==
    IF b.size = 0 /\ paxSize # None THEN paxSize ELSE b.size
=============================================================================
