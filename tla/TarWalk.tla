------------------------------ MODULE TarWalk ------------------------------
(***************************************************************************)
(* What the stream of entries promises, with no reader in sight: a walk    *)
(* over a complete archive that takes each member in one step.  A member   *)
(* is yielded, or recorded as describing the next one; the walk ends at    *)
(* the end of the archive or at a block of zeros, and fails on the first   *)
(* malformed header, on a member that runs past the end, or on a           *)
(* descriptor that describes nothing.                                      *)
(***************************************************************************)
EXTENDS TarFormat, SequencesExt

CONSTANTS Faults    \* TRUE: reading the archive may fail at any point

VARIABLES
    arch, opt,      \* as in EntriesStream
    at,             \* offset of the next member
    desc,           \* what has been said of the next member
    given,          \* the members yielded
    status          \* "none", "end", "error", or "fault"

walk == <<arch, opt, at, desc, given, status>>

NoDesc == [long |-> None, link |-> None, pax |-> None]

Init ==
    /\ at = 0 /\ desc = NoDesc /\ given = <<>> /\ status = "none"

Here == BlockAt(arch, at)

Size == MemberSize(Here, IF desc.pax = None THEN None ELSE desc.pax.size)

\* The header at `at` is there and says where its member ends.
Sound ==
    /\ at + Block <= arch.len
    /\ ~Here.zero /\ Here.cksum /\ Size # None
    /\ at + Block + RoundUp(Size) <= U64Max /\ Size + Block - 1 <= U64Max

Describes == ~opt.raw /\ IsDescriptor(Here)
IsSparse  == ~opt.raw /\ ~Describes /\ Here.kind = "sparse"

-----------------------------------------------------------------------------
(***************************************************************************)
(* The map of a sparse member: the pairs of its header and of the chain of *)
(* extension blocks that follows it.                                       *)
(***************************************************************************)

Extended(k) == BlockAt(arch, at + k * Block).ext

\* Lengths k of a complete chain: block k is the first that is not extended.
ChainLengths ==
    {k \in 0 .. Len(arch.blocks) :
        /\ ~Extended(k)
        /\ \A j \in 0 .. k - 1 : Extended(j)
        /\ at + (k + 1) * Block <= arch.len}

SparseMap(k) ==
    FlattenSeq([j \in 1 .. k + 1 |-> BlockAt(arch, at + (j - 1) * Block).sparse])

Lengths(m) == [i \in DOMAIN m |-> m[i].len]
Stored(m)  == FoldLeft(+, 0, Lengths(m))
End(m)     == IF m = <<>> THEN 0 ELSE Last(m).offset + Last(m).len

(***************************************************************************)
(* Pairs are in order and do not overlap, each piece of data starts on a   *)
(* block, and together they are the data stored and the file described.    *)
(***************************************************************************)
ValidMap(m) ==
    /\ \A i \in DOMAIN m :
        /\ m[i] # None
        /\ m[i].offset + m[i].len <= U64Max
        /\ m[i].offset >= End(SubSeq(m, 1, i - 1))
        /\ m[i].len > 0 => Stored(SubSeq(m, 1, i - 1)) % Block = 0
    /\ Stored(m) = Size
    /\ End(m) = Here.real

ValidSparse(k) == Here.magic = "gnu" /\ ValidMap(SparseMap(k))

-----------------------------------------------------------------------------
\* The walk is at a member, and takes it.
Walk(A) == status = "none" /\ A /\ UNCHANGED <<arch, opt>>

SkipZeros ==
    /\ opt.zeros /\ at + Block <= arch.len /\ Here.zero
    /\ at' = at + Block
    /\ UNCHANGED <<desc, given, status>>

\* The bytes of the payload that exist; a pax record may not survive a cut.
Describe ==
    LET to  == Min2(at + Block + Size, arch.len)
        run == [from |-> at + Block, to |-> to]
        cut == to < at + Block + Size
    IN  /\ Sound /\ Describes
        /\ \/ Here.kind = "longname" /\ desc' = [desc EXCEPT !.long = run]
           \/ Here.kind = "longlink" /\ desc' = [desc EXCEPT !.link = run]
           \/ /\ Here.kind = "pax"
              /\ \E s \in {Here.pax} \cup IF cut THEN {None} ELSE {} :
                    desc' = [desc EXCEPT !.pax = [bytes |-> run, size |-> s]]
        /\ at' = at + Block + RoundUp(Size)
        /\ UNCHANGED <<given, status>>

Member(size) ==
    [blk |-> Here, hpos |-> at, fpos |-> at + Block, size |-> size,
     long |-> desc.long, link |-> desc.link, pax |-> desc.pax]

Give ==
    /\ Sound /\ ~Describes /\ ~IsSparse
    /\ given' = Append(given, Member(Size))
    /\ at' = at + Block + RoundUp(Size)
    /\ desc' = NoDesc
    /\ UNCHANGED status

GiveSparse ==
    /\ Sound /\ IsSparse
    /\ \E k \in ChainLengths :
        /\ ValidSparse(k)
        /\ given' = Append(given, Member(Here.real))
        /\ at' = at + (k + 1) * Block + RoundUp(Size)
    /\ desc' = NoDesc
    /\ UNCHANGED status

\* The archive stops here: properly, unless something was said of a member to come.
Stop ==
    /\ \/ at = arch.len
       \/ at + Block <= arch.len /\ Here.zero /\ ~opt.zeros
    /\ status' = IF desc = NoDesc THEN "end" ELSE "error"
    /\ UNCHANGED <<at, desc, given>>

\* A member ends past the end, the header is cut short, or it is malformed.
Reject ==
    /\ \/ /\ at # arch.len /\ at + Block > arch.len
          /\ UNCHANGED at
       \/ /\ at + Block <= arch.len /\ ~Here.zero /\ ~Sound
          /\ at' = at + Block
       \/ /\ Sound /\ IsSparse /\ \A k \in ChainLengths : ~ValidSparse(k)
          /\ UNCHANGED at
    /\ status' = "error"
    /\ UNCHANGED <<desc, given>>

Fault ==
    /\ Faults /\ status' = "fault"
    /\ UNCHANGED <<at, desc, given>>

\* Archive::entries again, before anything was read.
Reopen ==
    /\ at = 0 /\ desc = NoDesc /\ given = <<>>
    /\ status' = "none"
    /\ UNCHANGED <<arch, opt, at, desc, given>>

Next ==
    \/ Walk(SkipZeros) \/ Walk(Describe) \/ Walk(Give) \/ Walk(GiveSparse)
    \/ Walk(Stop) \/ Walk(Reject) \/ Walk(Fault)
    \/ Reopen

Spec == Init /\ [][Next]_walk
=============================================================================
