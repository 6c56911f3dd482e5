----------------------------- MODULE MCEntries -----------------------------
(***************************************************************************)
(* EntriesStream for TLC: blocks of 2 bytes, u64 up to 63, and archives of *)
(* a few blocks that between them have every kind of member and defect.    *)
(***************************************************************************)
EXTENDS EntriesStream

Walk == INSTANCE TarWalk WITH
    Faults <- MayFail,
    at     <- IF fields # None THEN fields.hpos ELSE next,
    desc   <- [long |-> longname, link |-> longlink, pax |-> pax],
    given  <- [i \in DOMAIN out |->
                [blk |-> out[i].blk, hpos |-> out[i].hpos, fpos |-> out[i].fpos,
                 size |-> out[i].size, long |-> out[i].long,
                 link |-> out[i].link, pax |-> out[i].pax]],
    status <- result

\* The stream hands out what the walk over the archive promises, in its order,
\* with its sizes and descriptors, and ends or fails where the walk does.
ImplementsWalk == Walk!Spec

\* Over a reader whose seeks are deferred poll_skip may seek anew at every poll.
SeeksSettle == opt.seek # "deferred"

\* Every poll is answered: with an entry, the end, or an error.
PollAnswered == SeeksSettle /\ pc # "idle" ~> pc = "idle"

\* A caller that keeps polling reaches the end of the stream, or an error.
StreamEnds == SeeksSettle => <>done

-----------------------------------------------------------------------------
(***************************************************************************)
(* Blocks and archives                                                     *)
(***************************************************************************)

Header(kind, size) ==
    [Garbage EXCEPT !.cksum = TRUE, !.magic = "gnu", !.kind = kind,
                    !.size = size, !.sparse = <<>>]

File(n)    == Header("file", n)
Name(n)    == Header("longname", n)
Link(n)    == Header("longlink", n)
Pax(n, s)  == [Header("pax", n) EXCEPT !.pax = s]
Piece(o, n) == [offset |-> o, len |-> n]
Sparse(n, map, ext, real) ==
    [Header("sparse", n) EXCEPT !.sparse = map, !.ext = ext, !.real = real]
Ext(map, ext) == [Garbage EXCEPT !.sparse = map, !.ext = ext]
Zero == [Garbage EXCEPT !.zero = TRUE, !.size = 0, !.sparse = <<>>]
D    == Garbage

Whole(blocks)  == [blocks |-> blocks, len |-> Len(blocks) * Block]
Cut(blocks, n) == [blocks |-> blocks, len |-> n]

\* Archives on which the stream keeps its promises over any filling reader.
PlainArchives == {
    Whole(<<File(3), D, D, File(0), Zero, Zero>>),
    Whole(<<Name(3), D, D, Link(2), D, File(1), D, File(2), D, Zero>>),
    Whole(<<Pax(2, 3), D, File(0), D, D, File(0), Zero>>),
    Whole(<<Pax(1, 2), D, Link(0), D, File(2), D>>),
    Whole(<<Sparse(4, <<Piece(1, 2)>>, TRUE, 8), Ext(<<Piece(6, 2)>>, FALSE),
            D, D, File(0)>>),
    Whole(<<Sparse(2, <<Piece(0, 1), Piece(4, 1)>>, FALSE, 5), D, Zero>>),
    Whole(<<Sparse(3, <<Piece(0, 2), Piece(4, 1)>>, FALSE, 5), D, D, Zero>>),
    Whole(<<Sparse(2, <<Piece(0, 2)>>, TRUE, 2), Ext(<<>>, FALSE), D>>),
    Whole(<<Sparse(0, <<>>, TRUE, 0)>>),
    Whole(<<[Sparse(0, <<>>, FALSE, 0) EXCEPT !.magic = "ustar"]>>),
    Whole(<<[Name(1) EXCEPT !.magic = "old"], D, File(2), File(0), Zero>>),
    Whole(<<Name(1), D, Name(2), D, File(2), Zero, File(0), Zero>>),
    Cut(<<File(0), Name(3), D, D>>, 7),
    Cut(<<File(4), D, D>>, 5),
    Whole(<<File(0), [File(0) EXCEPT !.cksum = FALSE], Zero>>),
    Whole(<<Pax(1, 62), D, File(0), Zero>>),
    Whole(<<>>)
}

\* Archives whose reading does not survive a Pending: a descriptor without a
\* member, a descriptor longer than one read, two extension blocks.
FragileArchives == {
    Whole(<<File(0), Name(1), D>>),
    Whole(<<Link(1), D, Zero>>),
    Whole(<<Name(7), D, D, D, D, File(1), D, Zero>>),
    Whole(<<Pax(6, 1), D, D, D, File(0), D, Zero>>),
    Whole(<<Sparse(2, <<>>, TRUE, 4), Ext(<<Piece(0, 2)>>, TRUE),
            Ext(<<Piece(4, 0)>>, FALSE), D, Zero>>)
}

SteadyArchives == PlainArchives \cup FragileArchives

\* Short or oversized members, for the readers and callers that do the most.
HostileArchives == {
    Whole(<<Name(3), D, D, File(1), D, File(2), File(0), Zero>>),
    Whole(<<Pax(1, 2), D, File(0), File(5), Zero, D, D>>),
    Cut(<<File(5), D, D, D, File(0), Zero>>, 11),
    Whole(<<Sparse(2, <<Piece(0, 2)>>, TRUE, 2), Ext(<<>>, FALSE), File(0), File(0)>>)
}

\* One piece of data is skipped, before the last header: seeking is exact.
OneSkipArchives == {
    Whole(<<File(0), File(3), D, D, File(0)>>),
    Whole(<<Name(2), D, Link(2), D, File(1), D, File(0), Zero, Zero>>),
    Whole(<<Pax(2, 2), D, File(0), D, File(0), Zero, Zero>>),
    Whole(<<Name(1), D, File(0), Zero, Zero>>),
    Whole(<<File(34), D>>),
    Whole(<<File(0), [File(0) EXCEPT !.cksum = FALSE], Zero>>)
}

\* Nothing is skipped: a seek that is issued again changes nothing.
NoSkipArchives == {
    Whole(<<Name(2), D, Link(2), D, File(0), File(0), Zero>>),
    Whole(<<Zero, Zero, Pax(2, None), D, File(0), Zero, Zero>>),
    Whole(<<Sparse(0, <<Piece(2, 0)>>, TRUE, 4), Ext(<<Piece(4, 0)>>, FALSE), File(0)>>),
    Whole(<<File(0), [File(0) EXCEPT !.size = None], Zero>>)
}

OpenedArchives == SteadyArchives \cup OneSkipArchives \cup NoSkipArchives

-----------------------------------------------------------------------------
(***************************************************************************)
(* What the repository says of archives on which the code does otherwise:  *)
(* each of these is the property of one run that TLC refutes.              *)
(***************************************************************************)

\* The name an entry carries is all of the payload of its longname member.
NamesWhole ==
    \A i \in DOMAIN out :
        out[i].long # None =>
            LET header == BlockAt(arch, out[i].long.from - Block)
            IN  out[i].long.to - out[i].long.from = header.size

LongNameArchives == {Whole(<<Name(3), D, D, File(0), Zero>>)}

\* Members larger than the skip buffer, left unread by the caller.
BigArchives == {Whole(<<File(5), D, D, D, File(0), File(0), File(0), Zero>>)}

\* Three members, the first two with data.
SeekArchives == {Whole(<<File(1), D, File(2), D, File(0), File(1), D, Zero>>)}

SmallArchives == {Whole(<<File(0), Zero>>)}

-----------------------------------------------------------------------------
Option(raw, zeros, seek, checks, pend) ==
    [raw |-> raw, zeros |-> zeros, seek |-> seek, checks |-> checks, pend |-> pend]

HostileOptions == {Option(r, FALSE, "none", c, TRUE) : r, c \in BOOLEAN}
PlainOption    == {Option(FALSE, FALSE, "none", TRUE, FALSE)}
SlowOption     == {Option(FALSE, FALSE, "none", TRUE, TRUE)}
InstantOption  == {Option(FALSE, FALSE, "instant", TRUE, FALSE)}

\* Every way to open an archive.
AllOptions == OptionType

\* Ways of opening an archive in which the stream keeps its promises: a slow
\* reader, or one that never is Pending and whose seeks are right.
Suited ==
    \/ opt.seek = "none" /\ opt.pend /\ opt.checks /\ arch \in PlainArchives
    \/ opt.seek = "none" /\ ~opt.pend /\ ~opt.raw /\ arch \in SteadyArchives
    \/ opt.seek = "instant" /\ ~opt.pend /\ ~opt.raw /\ ~opt.zeros /\ arch \in OneSkipArchives
    \/ opt.seek = "deferred" /\ ~opt.pend /\ ~opt.raw /\ arch \in NoSkipArchives

SuitedInit == Init /\ Suited

SuitedSpec == SuitedInit /\ [][Next]_vars /\ Fairness
=============================================================================
