---------------------------- MODULE MCEntryRead ----------------------------
(***************************************************************************)
(* EntryRead for TLC: plain and sparse files of a few bytes, with whole    *)
(* and truncated archives, and callers that do and do not mind their       *)
(* buffers.                                                                *)
(***************************************************************************)
EXTENDS EntryRead

Pad(s, n, a)  == [kind |-> "pad", start |-> s, len |-> n, at |-> a]
Dat(s, n, a) == [kind |-> "data", start |-> s, len |-> n, at |-> a]

Layouts == {
    <<Dat(0, 3, 0)>>,
    <<Dat(0, 0, 0)>>,
    <<Pad(0, 2, 0), Dat(2, 2, 0), Dat(4, 0, 2)>>,
    <<Dat(0, 2, 0), Dat(2, 1, 2)>>,
    <<Dat(0, 2, 0), Pad(2, 1, 2), Dat(3, 2, 2)>>,
    <<Dat(0, 1, 0), Pad(1, 2, 1), Dat(3, 0, 1)>>
}

AllEntries == [pieces : Layouts, cut : 0 .. 4, pax : BOOLEAN, empty : BOOLEAN]
=============================================================================
