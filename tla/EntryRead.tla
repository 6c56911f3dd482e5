----------------------------- MODULE EntryRead -----------------------------
(***************************************************************************)
(* One entry as its caller reads it: the pieces in `data`, the piece in    *)
(* `read_state`, and the archive behind them, which knows nothing of       *)
(* pieces: a Take delivers the next bytes of the archive, and they are the *)
(* right ones only if all pieces before it were read to their ends.        *)
(*                                                                         *)
(* A Pending changes nothing here: the call has no state of its own that a *)
(* second poll would miss, so it is a stuttering step.  A future that is   *)
(* dropped is one that fails.                                              *)
(***************************************************************************)
EXTENDS Integers, Sequences

CONSTANTS
    Entries,    \* the entries that may be read, see EntryType
    BufSizes,   \* sizes of the buffers a caller reads into
    Chunk,      \* size of the buffers that read_all and io::copy read into
    MaxUnpacks, \* bound on the calls of unpack
    None

(***************************************************************************)
(* A Pad or a Data of EntryIo.  start is its offset in the file, at the    *)
(* offset of its bytes among the entry's bytes in the archive: these two   *)
(* are what add_block reckons with (cur, and size - remaining).            *)
(***************************************************************************)
PieceType == [kind : {"pad", "data"}, start : Nat, len : Nat, at : Nat]

\* How many bytes of the archive a piece has.
Stored(p) == IF p.kind = "data" THEN p.len ELSE 0

\* Pieces follow one another in the file and in the archive.
Contiguous(pieces) ==
    /\ pieces[1].start = 0 /\ pieces[1].at = 0
    /\ \A i \in 1 .. Len(pieces) - 1 :
        /\ pieces[i + 1].start = pieces[i].start + pieces[i].len
        /\ pieces[i + 1].at = pieces[i].at + Stored(pieces[i])

(***************************************************************************)
(* cut: how many of the entry's bytes the archive holds.  pax: the entry   *)
(* is itself a member of pax records.  empty: the caller may pass an empty *)
(* buffer.                                                                 *)
(***************************************************************************)
EntryType ==
    {e \in [pieces : Seq(PieceType), cut : Nat, pax : BOOLEAN, empty : BOOLEAN] :
        Len(e.pieces) > 0 /\ Contiguous(e.pieces)}

\* A byte delivered: its number among the entry's bytes in the archive, or 0 in a hole.
PaxType == [bytes : Seq(Nat), from : Nat]

ASSUME ReadAssumption ==
    /\ Entries \subseteq EntryType
    /\ BufSizes \subseteq Nat /\ Chunk \in Nat \ {0} /\ MaxUnpacks \in Nat
    /\ None \notin [i : Nat, left : Nat] /\ None \notin PaxType

VARIABLES
    entry,      \* the entry, fixed
    taken,      \* how many pieces have been removed from `data`
    read_state, \* the piece being read, and the limit left of its Take
    off,        \* bytes of the entry's data that were read from the archive
    call,       \* the call in progress, its buffer, what it has gathered, since where
    pax,        \* pax_extensions, once they were read
    got,        \* bytes delivered by poll_read since the entry was opened
    ended,      \* a read into a buffer with room has returned nothing
    unpacks     \* the files that unpack has written

vars == <<entry, taken, read_state, off, call, pax, got, ended, unpacks>>

-----------------------------------------------------------------------------
Pieces == entry.pieces
Data == SubSeq(Pieces, taken + 1, Len(Pieces))

NoCall == [api |-> "none", buf |-> 0, vec |-> <<>>, next |-> 0, from |-> 0, fresh |-> FALSE]

Init ==
    /\ entry \in Entries
    /\ taken = 0 /\ read_state = None /\ off = 0
    /\ call = NoCall /\ pax = None
    /\ got = <<>> /\ ended = FALSE /\ unpacks = <<>>

Least(a, b) == IF a <= b THEN a ELSE b

\* n bytes from the archive, or from io::repeat(0).
FromArchive(n) == [j \in 1 .. n |-> off + j]
FromRepeat(n) == [j \in 1 .. n |-> 0]

Return == call' = NoCall

Start(api, buf) ==
    /\ call = NoCall
    /\ call' = [NoCall EXCEPT !.api = api, !.buf = buf, !.from = Len(got)]
    /\ UNCHANGED <<entry, taken, read_state, off, pax, got, ended, unpacks>>

CallRead(n) ==
    /\ n > 0 \/ entry.empty
    /\ Start("read", n)

\* pax_extensions: what the stream or an earlier call has stored, or read_all.
CallPax == entry.pax /\ pax = None /\ Start("pax", Chunk)

-----------------------------------------------------------------------------
(***************************************************************************)
(* poll_read: one turn of its loop per step.                               *)
(***************************************************************************)

Reading == call.api \in {"read", "pax"}

\* The next piece is taken out of `data`.
TakePiece ==
    /\ taken' = taken + 1
    /\ read_state' = [i |-> taken + 1, left |-> Pieces[taken + 1].len]

NextPiece ==
    /\ Reading /\ read_state = None /\ taken < Len(Pieces)
    /\ TakePiece
    /\ UNCHANGED <<entry, off, call, pax, got, ended, unpacks>>

\* The end: a read returns 0 bytes, read_all what it has gathered.
Exhausted ==
    /\ Return
    /\ ended' = (ended \/ call.buf > 0)
    /\ pax' = IF call.api = "pax" THEN [bytes |-> call.vec, from |-> call.from]
                                   ELSE pax
    /\ UNCHANGED <<entry, taken, off, got, unpacks>>

NoPiece ==
    /\ Reading /\ read_state = None /\ taken = Len(Pieces)
    /\ Exhausted /\ UNCHANGED read_state

\* Mutant: read_all keeps the bytes of its last read only.
DeliverLast(bytes) ==
    /\ got' = got \o bytes
    /\ call' = IF call.api = "pax" THEN [call EXCEPT !.vec = bytes] ELSE NoCall
    /\ UNCHANGED <<entry, taken, pax, ended, unpacks>>

\* poll_read returns bytes to its caller: read returns, read_all reads on.
Deliver(bytes) ==
    /\ got' = got \o bytes
    /\ call' = IF call.api = "pax" THEN [call EXCEPT !.vec = @ \o bytes] ELSE NoCall
    /\ UNCHANGED <<entry, taken, pax, ended, unpacks>>

Current == Pieces[read_state.i]
Unlimited == call.buf       \* mutant: the limit of the Take is not heeded
Room == Least(call.buf, read_state.left)

ReadPad ==
    /\ Reading /\ read_state # None /\ Current.kind = "pad" /\ Room > 0
    /\ read_state' = [read_state EXCEPT !.left = @ - Room]
    /\ Deliver(FromRepeat(Room))
    /\ UNCHANGED off

\* A read from the archive may be short.
ReadData ==
    /\ Reading /\ read_state # None /\ Current.kind = "data"
    /\ \E n \in 1 .. Room :
        /\ off + n <= entry.cut
        /\ read_state' = [read_state EXCEPT !.left = @ - n]
        /\ off' = off + n
        /\ Deliver(FromArchive(n))

\* Nothing was read: no room, nothing left of the piece, or of the archive.
NothingRead ==
    /\ Reading /\ read_state # None
    /\ Room = 0 \/ (Current.kind = "data" /\ off >= entry.cut)

\* Mutant: the end of any piece is the end of the entry.
StopsEarly ==
    /\ NothingRead
    /\ read_state' = None
    /\ Exhausted

\* Mutant: the piece is put into read_state and left in `data`.
KeepsPiece ==
    /\ NothingRead
    /\ \/ /\ taken < Len(Pieces)
          /\ read_state' = [i |-> taken + 1, left |-> Pieces[taken + 1].len]
          /\ UNCHANGED <<entry, taken, off, call, pax, got, ended, unpacks>>
       \/ taken = Len(Pieces) /\ read_state' = None /\ Exhausted

\* Which ends the piece, whatever the reason: on to the next one, or the end.
EndPiece ==
    /\ NothingRead
    /\ \/ /\ taken < Len(Pieces)
          /\ TakePiece
          /\ UNCHANGED <<entry, off, call, pax, got, ended, unpacks>>
       \/ /\ taken = Len(Pieces)
          /\ read_state' = None
          /\ Exhausted

-----------------------------------------------------------------------------
(***************************************************************************)
(* unpack of a file: the pieces left in `data` are drained, so that none   *)
(* is left even when it fails.  read_state is not looked at.               *)
(***************************************************************************)

\* Has any piece been read in part?
Halfway == read_state # None /\ read_state.left > 0

CallUnpack ==
    /\ call = NoCall /\ Len(unpacks) < MaxUnpacks
    /\ call' = [NoCall EXCEPT !.api = "unpack", !.next = taken,
                              !.from = taken, !.fresh = ~Halfway]
    /\ taken' = Len(Pieces)
    /\ UNCHANGED <<entry, read_state, off, pax, got, ended, unpacks>>

Unpacking == call.api = "unpack"
Draining == Pieces[call.next + 1]

Append1(bytes) == call' = [call EXCEPT !.vec = @ \o bytes, !.next = @ + 1]

\* io::copy of all bytes of a piece.
CopyData ==
    /\ Unpacking /\ call.next < Len(Pieces) /\ Draining.kind = "data"
    /\ off + Draining.len <= entry.cut
    /\ off' = off + Draining.len
    /\ Append1(FromArchive(Draining.len))
    /\ UNCHANGED <<entry, taken, read_state, pax, got, ended, unpacks>>

\* A seek over the hole, and set_len.
CopyPad ==
    /\ Unpacking /\ call.next < Len(Pieces) /\ Draining.kind = "pad"
    /\ Append1(FromRepeat(Draining.len))
    /\ UNCHANGED <<entry, taken, read_state, off, pax, got, ended, unpacks>>

\* Mutant: the count that io::copy returns is not compared.
CopyShortIgnored ==
    /\ Unpacking /\ call.next < Len(Pieces) /\ Draining.kind = "data"
    /\ off + Draining.len > entry.cut
    /\ off' = entry.cut
    /\ Append1(FromArchive(entry.cut - off))
    /\ UNCHANGED <<entry, taken, read_state, pax, got, ended, unpacks>>

Written(ok) ==
    unpacks' = Append(unpacks, [ok |-> ok, bytes |-> call.vec,
                                 from |-> call.from, fresh |-> call.fresh])

\* The archive ends inside a piece: "failed to write entire file".
CopyShort ==
    /\ Unpacking /\ call.next < Len(Pieces) /\ Draining.kind = "data"
    /\ off + Draining.len > entry.cut
    /\ off' = entry.cut
    /\ Written(FALSE) /\ Return
    /\ UNCHANGED <<entry, taken, read_state, pax, got, ended>>

Unpacked ==
    /\ Unpacking /\ call.next = Len(Pieces)
    /\ Written(TRUE) /\ Return
    /\ UNCHANGED <<entry, taken, read_state, off, pax, got, ended>>

(***************************************************************************)
(* A read from the archive fails, or the caller drops the future.  What    *)
(* read_all had gathered is gone; so are the pieces unpack had drained,    *)
(* after some of the bytes of the current one.                             *)
(***************************************************************************)
Interrupted ==
    /\ call # NoCall
    /\ Return
    /\ IF Unpacking
       THEN /\ Written(FALSE)
            /\ \E n \in 0 .. (IF call.next < Len(Pieces) /\ Draining.kind = "data"
                              THEN Draining.len ELSE 0) :
                /\ n > 0 => off + n <= entry.cut
                /\ off' = off + n
       ELSE UNCHANGED <<off, unpacks>>
    /\ UNCHANGED <<entry, taken, read_state, pax, got, ended>>

Poll == NextPiece \/ NoPiece \/ ReadPad \/ ReadData \/ EndPiece
Copy == CopyData \/ CopyPad \/ CopyShort \/ Unpacked

Next ==
    \/ \E n \in BufSizes : CallRead(n)
    \/ CallPax \/ CallUnpack
    \/ Poll \/ Copy \/ Interrupted

Spec == Init /\ [][Next]_vars

\* A caller that reads on, and does not drop every future before it is done.
Fairness ==
    /\ SF_vars(Poll) /\ SF_vars(Copy)
    /\ SF_vars(\E n \in BufSizes \ {0} : CallRead(n))

FairSpec == Spec /\ Fairness

-----------------------------------------------------------------------------
(***************************************************************************)
(* The file an entry stands for                                            *)
(***************************************************************************)

SizeOf(e) == e.pieces[Len(e.pieces)].start + e.pieces[Len(e.pieces)].len
BytesOf(e) == e.pieces[Len(e.pieces)].at + Stored(e.pieces[Len(e.pieces)])

\* Byte k of the file lies in piece i.
Holds(e, i, k) == e.pieces[i].start < k /\ k <= e.pieces[i].start + e.pieces[i].len

ByteIn(e, i, k) ==
    IF e.pieces[i].kind = "pad" THEN 0 ELSE e.pieces[i].at + (k - e.pieces[i].start)

File == [k \in 1 .. SizeOf(entry) |->
            ByteIn(entry, CHOOSE i \in 1 .. Len(Pieces) : Holds(entry, i, k), k)]

-----------------------------------------------------------------------------
(***************************************************************************)
(* Properties                                                              *)
(***************************************************************************)

CallTypes ==
    [api : {"none", "read", "pax", "unpack"}, buf : Nat, vec : Seq(Nat),
     next : Nat, from : Nat, fresh : BOOLEAN]

UnpackType == [ok : BOOLEAN, bytes : Seq(Nat), from : Nat, fresh : BOOLEAN]

StateType ==
    [i : Nat, left : Nat] \cup {None}

TypeOK ==
    /\ entry \in Entries
    /\ taken \in 0 .. Len(Pieces)
    /\ read_state \in StateType
    /\ read_state # None => /\ read_state.i \in 1 .. taken
                            /\ read_state.left <= Current.len
    /\ off \in Nat
    /\ call \in CallTypes /\ call.next <= Len(Pieces)
    /\ pax \in PaxType \cup {None}
    /\ got \in Seq(Nat) /\ ended \in BOOLEAN
    /\ unpacks \in Seq(UnpackType)

\* No buffer is empty, and no hole lies past the end of the archive.
Sound == ~entry.empty /\ \A i \in 1 .. Len(Pieces) :
                            Pieces[i].kind = "pad" => Pieces[i].at <= entry.cut

\* Nor was unpack called while a piece was read in part.
Undisturbed ==
    /\ Sound
    /\ \A n \in 1 .. Len(unpacks) : unpacks[n].fresh
    /\ call.api = "unpack" => call.fresh

Whole == entry.cut >= BytesOf(entry)

\* What poll_read delivers is the file from its start, byte for byte: holes and
\* data in their places, over short reads, failed and dropped calls, and calls
\* of pax_extensions and unpack in between (entry.rs:1031-1076).
DeliveredInOrder ==
    Undisturbed =>
        \A k \in 1 .. Len(got) :
            \E i \in 1 .. Len(Pieces) : Holds(entry, i, k) /\ got[k] = ByteIn(entry, i, k)

\* An unpack that succeeds on an entry of which nothing was read has written the
\* entire contents of the file, holes and all, however soon the archive ends: one
\* that cannot says so (entry.rs:193-194, 737-754).
UnpackWhole ==
    \A n \in 1 .. Len(unpacks) :
        unpacks[n].ok /\ unpacks[n].from = 0 => unpacks[n].bytes = File

\* The same of every unpack that succeeds, as the comment has it (entry.rs:193-194).
UnpackEntire ==
    \A n \in 1 .. Len(unpacks) : unpacks[n].ok => unpacks[n].bytes = File

\* pax_extensions keeps every record, if nothing had been delivered when the call
\* that stored them began, over short reads and calls that failed before their
\* first byte (entry.rs:435-447).
PaxWhole ==
    Undisturbed /\ Whole /\ unpacks = <<>> /\ pax # None /\ pax.from = 0 =>
        pax.bytes = File

Reader == INSTANCE FileReader WITH
    file  <- File,
    lossy <- ~(Undisturbed /\ Whole /\ unpacks = <<>> /\ call.api # "unpack")

\* An entry is a file handle, as long as no buffer is empty, the archive is
\* whole and nothing was unpacked: a read gives the next bytes of the file, and
\* nothing only at its end.
ImplementsReader == Reader!Spec

\* A caller that goes on reading comes to the end.
ReaderEnds == ~entry.empty => <>ended
=============================================================================
