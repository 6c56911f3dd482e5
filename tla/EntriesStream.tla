--------------------------- MODULE EntriesStream ---------------------------
(***************************************************************************)
(* Archive::entries: the stream that walks a tar archive, polled by a      *)
(* caller over a reader that may be slow, partial or failing, while the    *)
(* entries it has handed out share the same reader.                        *)
(*                                                                         *)
(* One action is one step of a poll between two calls to the reader.  What *)
(* survives a poll that returns Pending is what the structs ArchiveInner,  *)
(* EntriesFields and EntryFields hold; the variables `call`, `scan` and    *)
(* `vec` are the locals of the poll functions and start afresh with every  *)
(* poll.  The model is of the default build (feature tokio), with the      *)
(* archive polled from one task.                                           *)
(***************************************************************************)
EXTENDS TarFormat

CONSTANTS
    Archives,       \* the byte streams a reader may hold
    Options,        \* how the archive is opened, see OptionType
    SkipBuf,        \* size of the stack buffer of poll_skip (4096 * 8)
    ReadAllCap,     \* largest first capacity of poll_read_all (128 * 1024)
    ShortReads,     \* TRUE: a read may return less than was asked for
    MayFail,        \* TRUE: a read may return an error
    SpuriousPolls,  \* TRUE: the caller may poll again without having been woken
    OutOfOrder      \* TRUE: entries are read after the stream has moved on

(***************************************************************************)
(* raw: Entries::raw.  zeros: set_ignore_zeros.  seek: "none" for          *)
(* entries(); entries_with_seek() over a reader whose seeks are "instant"  *)
(* (a Cursor) or "deferred" (a tokio File, whose poll_complete may be      *)
(* Pending).  checks: the build traps u64 overflow (debug) or wraps.       *)
(* pend: a read may return Pending, and wakes the task later.              *)
(***************************************************************************)
OptionType == [raw : BOOLEAN, zeros : BOOLEAN,
               seek : {"none", "instant", "deferred"}, checks : BOOLEAN,
               pend : BOOLEAN]

ASSUME EnvironmentAssumption ==
    /\ Archives \subseteq ArchiveType
    /\ \A a \in Archives : a.len + 2 * Block <= U64Max
    /\ Options \subseteq OptionType
    /\ SkipBuf \in Nat \ {0} /\ ReadAllCap \in Nat \ {0}
    /\ {ShortReads, MayFail, SpuriousPolls, OutOfOrder} \subseteq BOOLEAN

VARIABLES
    arch, opt,      \* the archive behind the reader and the options, fixed
    off, seeking,   \* the reader: its position, and a seek it has not completed
    pos, sbuf,      \* ArchiveInner: bytes counted, and the bytes kept in `buf`
    next, done, fields, longname, longlink, pax,    \* EntriesFields
    pc,             \* where the poll in progress stands
    waker,          \* a Pending poll has left its waker with the reader
    call, vec, scan,    \* locals of the poll in progress
    out,            \* the entries handed to the caller, with what it read of them
    result          \* "none" while the stream goes on, then "end", "error" or "fault"

reader  == <<off, seeking>>
inner   == <<pos, sbuf>>
descs   == <<longname, longlink, pax>>
stream  == <<next, done, fields, descs, result>>
locals  == <<call, vec, scan>>
vars    == <<arch, opt, reader, inner, stream, pc, waker, locals, out>>

-----------------------------------------------------------------------------
(***************************************************************************)
(* Types                                                                   *)
(***************************************************************************)

\* A run of bytes of the archive, [from, to).
Run == [from : Nat, to : Nat]

\* A pax payload: the bytes kept, and the size record found in them.
PaxType == [bytes : Run, size : Nat \cup {None}]

(***************************************************************************)
(* EntryFields.  blk is the header block read, hpos and fpos the positions *)
(* reported, size the size reported, left the bytes the Take readers in    *)
(* `data` still allow; long, link, pax the descriptors attached; got the   *)
(* runs of archive bytes its reader has delivered so far.                  *)
(***************************************************************************)
EntryType ==
    [blk : BlockType, hpos : Nat, fpos : Nat, size : Nat, left : Nat,
     long : Run \cup {None}, link : Run \cup {None}, pax : PaxType \cup {None},
     got : Seq(Run)]

ASSUME NoEntryAssumption == None \notin EntryType

\* processed, header_pos, and amt and rem of poll_skip.
CallType == [processed : Nat, hpos : Nat, amt : Nat, rem : Nat]
NoCall   == [processed |-> 0, hpos |-> 0, amt |-> 0, rem |-> 0]
NoRun    == [from |-> 0, to |-> 0]

\* poll_parse_sparse_header: pairs still to add, is_extended, cur, remaining.
ScanType == [todo : Seq(SparseDesc \cup {None}), more : BOOLEAN,
             cur : Nat, remaining : Nat]
NoScan   == [todo |-> <<>>, more |-> FALSE, cur |-> 0, remaining |-> 0]

PCs == {"idle", "parked", "delta", "skip", "seek", "header", "dispatch",
        "payload", "sparse", "panicked"}

FlagTypes == seeking \in BOOLEAN /\ done \in BOOLEAN /\ waker \in BOOLEAN

ReaderTypes == off \in Nat /\ pos \in Nat /\ sbuf \in 0 .. Block - 1

StreamTypes ==
    /\ next \in Nat
    /\ result \in {"none", "end", "error", "fault"}
    /\ fields \in EntryType \cup {None}
    /\ longname \in Run \cup {None} /\ longlink \in Run \cup {None}
    /\ pax \in PaxType \cup {None}

PollTypes ==
    /\ pc \in PCs
    /\ call \in CallType /\ vec \in Run /\ scan \in ScanType

TypeOK ==
    /\ arch \in Archives /\ opt \in Options
    /\ FlagTypes /\ ReaderTypes /\ StreamTypes /\ PollTypes
    /\ out \in Seq(EntryType)

\* pos counts bytes that were read, each once: reads only go forward.
Counted == pos <= off /\ pos <= arch.len

\* A poll past the header has a member at hand.
HasFields == pc \in {"dispatch", "payload", "sparse"} => fields # None

\* Types, and what they rest on: offsets and remainders stay natural numbers
\* because pos never passes the end of the archive.
TypeInv == TypeOK /\ Counted /\ HasFields

Init ==
    /\ arch \in Archives /\ opt \in Options
    /\ off = 0 /\ seeking = FALSE
    /\ pos = 0 /\ sbuf = 0
    /\ next = 0 /\ done = FALSE /\ fields = None
    /\ longname = None /\ longlink = None /\ pax = None
    /\ pc = "idle" /\ waker = FALSE
    /\ call = NoCall /\ vec = NoRun /\ scan = NoScan
    /\ out = <<>> /\ result = "none"

-----------------------------------------------------------------------------
(***************************************************************************)
(* The reader behind the archive (external)                                *)
(***************************************************************************)

Avail == IF off < arch.len THEN arch.len - off ELSE 0

\* How many bytes a read into a buffer of `cap` bytes may return; 0 is EOF.
Reads(cap) ==
    LET most == Min2(cap, Avail)
    IN  IF ShortReads /\ most > 0 THEN 1 .. most ELSE {most}

\* Mutant: pos counts what was read, and so does the caller of poll_read.
AdvanceTwice(n) ==
    /\ off' = off + n
    /\ pos' = pos + 2 * n
    /\ UNCHANGED seeking

\* ArchiveInner::poll_read returning Ready: pos counts what was read.
Advance(n) ==
    /\ off' = off + n
    /\ pos' = pos + n
    /\ UNCHANGED seeking

-----------------------------------------------------------------------------
(***************************************************************************)
(* How a poll ends                                                         *)
(***************************************************************************)

EndPoll(where) ==
    /\ pc' = where
    /\ call' = NoCall /\ vec' = NoRun /\ scan' = NoScan

\* Mutant: nobody holds the waker.
ParkLost(registered) == EndPoll("parked") /\ waker' = FALSE

\* Poll::Pending; registered says whether somebody holds the waker.
Park(registered) == EndPoll("parked") /\ waker' = registered

\* Mutant: an error does not set done.
FinishResumes(r) ==
    /\ EndPoll("idle") /\ waker' = FALSE
    /\ done' = (r = "end") /\ result' = r

\* Poll::Ready(None) or Poll::Ready(Some(Err(e))): the stream is fused.
Finish(r) ==
    /\ EndPoll("idle") /\ waker' = FALSE
    /\ done' = TRUE /\ result' = r

Panic == EndPoll("panicked") /\ waker' = FALSE

\* Poll::Ready(Some(Ok(entry))) with the descriptors the entry takes.
Yield(e) ==
    /\ EndPoll("idle") /\ waker' = FALSE
    /\ out' = Append(out, e)
    /\ UNCHANGED <<done, result>>

-----------------------------------------------------------------------------
(***************************************************************************)
(* The caller                                                              *)
(***************************************************************************)

\* Entries::poll_next on a stream that is not done.
Poll ==
    /\ \/ pc = "idle"
       \/ pc = "parked" /\ (waker \/ SpuriousPolls)
    /\ ~done
    /\ waker' = FALSE
    /\ IF ~opt.raw /\ fields # None
       THEN /\ pc' = "dispatch"
            /\ UNCHANGED call
       ELSE /\ pc' = "delta"
            /\ call' = [call EXCEPT !.processed = 1, !.hpos = next]
    /\ UNCHANGED <<arch, opt, reader, inner, stream, vec, scan, out>>

\* A stream that is done answers None for ever.
PollDone ==
    /\ pc = "idle" /\ done
    /\ UNCHANGED vars

(***************************************************************************)
(* Archive::entries again, after the first stream was dropped: allowed     *)
(* while nothing has been counted.                                         *)
(***************************************************************************)
CallEntries ==
    /\ pc \in {"idle", "parked"}
    /\ pos = 0
    /\ next' = 0 /\ done' = FALSE /\ fields' = None
    /\ longname' = None /\ longlink' = None /\ pax' = None
    /\ result' = "none"
    /\ pc' = "idle" /\ waker' = FALSE
    /\ UNCHANGED <<arch, opt, reader, inner, locals, out>>

\* got, after a read that delivered [off, off + n).
Deliver(got, n) ==
    LET last == Len(got)
    IN  IF last > 0 /\ got[last].to = off
        THEN [got EXCEPT ![last].to = off + n]
        ELSE Append(got, [from |-> off, to |-> off + n])

(***************************************************************************)
(* The caller reads from an entry it holds.  The entry's reader goes       *)
(* through ArchiveInner::poll_read, so it moves the same pos.              *)
(***************************************************************************)
ReadEntry(i) ==
    /\ IF OutOfOrder THEN pc \in {"idle", "parked"}
                     ELSE pc = "idle" /\ ~done /\ i = Len(out)
    /\ out[i].left > 0
    /\ \E n \in 1 .. Min2(out[i].left, Avail) :
        /\ Advance(n)
        /\ out' = [out EXCEPT ![i].left = @ - n, ![i].got = Deliver(@, n)]
    /\ UNCHANGED <<arch, opt, sbuf, stream, pc, waker, locals>>

-----------------------------------------------------------------------------
(***************************************************************************)
(* poll_next_entry_raw: get to the next header                             *)
(***************************************************************************)

\* let delta = self.next - pos
ComputeDelta ==
    /\ pc = "delta"
    /\ IF pos <= next \/ ~opt.checks
       THEN LET delta == WrappingSub(next, pos)
            IN  /\ call' = [call EXCEPT !.amt = delta, !.rem = delta]
                /\ pc' = IF opt.seek = "none" THEN "skip" ELSE "seek"
                /\ UNCHANGED <<waker, vec, scan>>
       ELSE Panic
    /\ UNCHANGED <<arch, opt, reader, inner, stream, out>>

\* One round of the loop of poll_skip; its buffer is cut to amt, not to rem.
SkipRead ==
    /\ pc = "skip" /\ call.rem > 0
    /\ \E n \in Reads(Min2(call.amt, SkipBuf)) :
        /\ Advance(n)
        /\ \/ /\ n = 0
              /\ Finish("error")
           \/ /\ n > 0 /\ (n <= call.rem \/ ~opt.checks)
              /\ call' = [call EXCEPT !.rem = WrappingSub(@, n)]
              /\ UNCHANGED <<pc, waker, done, result, vec, scan>>
           \/ /\ n > call.rem /\ opt.checks
              /\ Panic
              /\ UNCHANGED <<done, result>>
    /\ UNCHANGED <<arch, opt, sbuf, next, fields, descs, out>>

SkipDone ==
    /\ pc = "skip" /\ call.rem = 0
    /\ pc' = "header"
    /\ UNCHANGED <<arch, opt, reader, inner, stream, waker, locals, out>>

(***************************************************************************)
(* poll_skip over a seekable archive: first let an earlier seek complete,  *)
(* then seek by delta from where the reader is.  pos is not touched.       *)
(***************************************************************************)
SeekDrain ==
    /\ pc = "seek" /\ seeking
    /\ seeking' = FALSE
    /\ UNCHANGED <<arch, opt, off, inner, stream, pc, waker, locals, out>>

SeekTargetNext == off + next        \* mutant
SeekTarget == off + call.amt

SeekSkip ==
    /\ pc = "seek" /\ ~seeking
    /\ IF call.amt > I64Max \/ SeekTarget > U64Max
       THEN Finish("error") /\ UNCHANGED <<off, seeking>>
       ELSE /\ off' = SeekTarget
            /\ \/ opt.seek = "deferred" /\ seeking' = TRUE /\ Park(TRUE)
               \/ pc' = "header" /\ UNCHANGED <<seeking, waker, locals>>
            /\ UNCHANGED <<done, result>>
    /\ UNCHANGED <<arch, opt, inner, next, fields, descs, out>>

-----------------------------------------------------------------------------
(***************************************************************************)
(* poll_try_read_all: one read, into what is missing of a block.  A short  *)
(* read is kept in sbuf and the poll returns Pending, without a waker: the *)
(* reader was ready.  A block completed out of sbuf panics, because        *)
(* copy_from_slice is given fewer bytes than the block has.                *)
(***************************************************************************)

\* poll_parse_sparse_header has added its pairs and wants an extension block.
WantsExtension == pc = "sparse" /\ scan.todo = <<>> /\ scan.more

BlockShort ==
    /\ pc = "header" \/ WantsExtension
    /\ \E n \in Reads(Block - sbuf) :
        /\ 0 < n /\ n < Block - sbuf
        /\ Advance(n)
        /\ sbuf' = sbuf + n
    /\ Park(FALSE)
    /\ UNCHANGED <<arch, opt, stream, out>>

BlockResume ==
    /\ pc = "header" \/ WantsExtension
    /\ sbuf > 0
    /\ Block - sbuf \in Reads(Block - sbuf)
    /\ Advance(Block - sbuf)
    /\ sbuf' = 0
    /\ Panic
    /\ UNCHANGED <<arch, opt, stream, out>>

\* A whole block read at once; b is its content.
BlockRead(b) ==
    /\ sbuf = 0
    /\ Block \in Reads(Block)
    /\ b = BlockAt(arch, off)
    /\ Advance(Block)

\* The reader is at its end.
BlockEof == Reads(Block - sbuf) = {0}

-----------------------------------------------------------------------------
(***************************************************************************)
(* poll_next_entry_raw: the header                                         *)
(***************************************************************************)

\* Mutant: descriptors without a member are forgotten.
NoMoreMembersQuiet == Finish("end")

\* Ok(None): an error when descriptors were read in this same poll.
NoMoreMembers == Finish(IF call.processed > 1 THEN "error" ELSE "end")

HeaderEof ==
    /\ pc = "header" /\ BlockEof
    /\ IF sbuf = 0 THEN NoMoreMembers ELSE Finish("error")
    /\ UNCHANGED <<arch, opt, reader, inner, next, fields, descs, out>>

ZeroBlock ==
    /\ pc = "header"
    /\ \E b \in {BlockAt(arch, off)} : BlockRead(b) /\ b.zero
    /\ IF opt.zeros
       THEN /\ next' = next + Block
            /\ pc' = "delta"
            /\ call' = [call EXCEPT !.hpos = next + Block]
            /\ UNCHANGED <<waker, vec, scan, done, result>>
       ELSE NoMoreMembers /\ UNCHANGED next
    /\ UNCHANGED <<arch, opt, sbuf, fields, descs, out>>

\* The pax size that applies to the header being parsed.
PaxSize == IF opt.raw \/ pax = None THEN None ELSE pax.size

\* The padded member of size n ends within u64.
SizeFits(n) ==
    /\ n + Block - 1 <= U64Max
    /\ next + Block + RoundUp(n) <= U64Max

HeaderOk(b) ==
    /\ b.cksum
    /\ MemberSize(b, PaxSize) # None
    /\ SizeFits(MemberSize(b, PaxSize))

RejectHeader ==
    /\ pc = "header"
    /\ \E b \in {BlockAt(arch, off)} : BlockRead(b) /\ ~b.zero /\ ~HeaderOk(b)
    /\ next' = next + Block
    /\ Finish("error")
    /\ UNCHANGED <<arch, opt, sbuf, fields, descs, out>>

\* Mutant: the entry reads its padding as well.
EntryOfPadded(b) ==
    LET size == MemberSize(b, PaxSize)
    IN  [blk |-> b, hpos |-> call.hpos, fpos |-> next + Block,
         size |-> size, left |-> RoundUp(size),
         long |-> None, link |-> None, pax |-> None, got |-> <<>>]

EntryOf(b) ==
    LET size == MemberSize(b, PaxSize)
    IN  [blk |-> b, hpos |-> call.hpos, fpos |-> next + Block,
         size |-> size, left |-> size,
         long |-> None, link |-> None, pax |-> None, got |-> <<>>]

\* Mutant: the pax size does not count for where the next header is.
AfterHeaderSize(b) == next + Block + RoundUp(b.size)

AfterMember(b) == next + Block + RoundUp(EntryOf(b).size)

ReadMember ==
    /\ pc = "header"
    /\ \E b \in {BlockAt(arch, off)} :
        /\ BlockRead(b) /\ ~b.zero /\ HeaderOk(b)
        /\ next' = AfterMember(b)
        /\ IF opt.raw
           THEN Yield(EntryOf(b)) /\ UNCHANGED fields
           ELSE /\ fields' = EntryOf(b)
                /\ pc' = "dispatch"
                /\ UNCHANGED <<waker, locals, out, done, result>>
    /\ UNCHANGED <<arch, opt, sbuf, descs>>

-----------------------------------------------------------------------------
(***************************************************************************)
(* poll_next_entry: descriptors of the next member.  The tests for two     *)
(* descriptors of one kind look at `fields`, whose long_pathname,          *)
(* long_linkname and pax_extensions are still None here: they never fail,  *)
(* and a second descriptor replaces the first.                             *)
(***************************************************************************)

StartDescriptor ==
    /\ pc = "dispatch" /\ IsDescriptor(fields.blk)
    /\ pc' = "payload"
    /\ vec' = [from |-> off, to |-> off]
    /\ UNCHANGED <<arch, opt, reader, inner, stream, waker, call, scan, out>>

\* Free capacity of the vector of poll_read_all, which doubles when it is full.
Room == ReadAllCap - ((vec.to - vec.from) % ReadAllCap)

\* EntryFields::poll_read, through the Take over the archive.
PayloadRead ==
    /\ pc = "payload" /\ fields.left > 0
    /\ \E n \in Reads(Min2(fields.left, Room)) :
        /\ n > 0
        /\ Advance(n)
        /\ fields' = [fields EXCEPT !.left = @ - n]
        /\ vec' = [vec EXCEPT !.to = @ + n]
    /\ UNCHANGED <<arch, opt, sbuf, next, done, descs, result,
                   pc, waker, call, scan, out>>

\* The size record found in the bytes kept: all of the payload, or a part of it.
PaxReadings ==
    IF vec = [from |-> fields.fpos, to |-> fields.fpos + fields.size]
    THEN {fields.blk.pax}
    ELSE {fields.blk.pax, None}

\* The Take is exhausted, or the archive is: no error either way.
PayloadDone ==
    /\ pc = "payload" /\ (fields.left = 0 \/ Avail = 0)
    /\ \/ fields.blk.kind = "longname" /\ longname' = vec /\ UNCHANGED <<longlink, pax>>
       \/ fields.blk.kind = "longlink" /\ longlink' = vec /\ UNCHANGED <<longname, pax>>
       \/ /\ fields.blk.kind = "pax"
          /\ \E s \in PaxReadings : pax' = [bytes |-> vec, size |-> s]
          /\ UNCHANGED <<longname, longlink>>
    /\ fields' = None
    /\ vec' = NoRun
    /\ pc' = "delta"
    /\ call' = [call EXCEPT !.processed = @ + 1, !.hpos = next]
    /\ UNCHANGED <<arch, opt, reader, inner, next, done, result, waker, scan, out>>

\* Mutant: descriptors are copied to the member, not taken by it.
YieldMemberKeeps(size) ==
    /\ Yield([fields EXCEPT !.size = size, !.long = longname,
                            !.link = longlink, !.pax = pax])
    /\ fields' = None
    /\ UNCHANGED descs

\* Hand over the member in fields, with the descriptors collected for it.
YieldMember(size) ==
    /\ Yield([fields EXCEPT !.size = size, !.long = longname,
                            !.link = longlink, !.pax = pax])
    /\ fields' = None
    /\ longname' = None /\ longlink' = None /\ pax' = None

YieldPlain ==
    /\ pc = "dispatch"
    /\ ~IsDescriptor(fields.blk) /\ fields.blk.kind # "sparse"
    /\ YieldMember(fields.size)
    /\ UNCHANGED <<arch, opt, reader, inner, next>>

-----------------------------------------------------------------------------
(***************************************************************************)
(* poll_parse_sparse_header.  It starts from the header again whenever the *)
(* member is dispatched again, with `next` as it is.                       *)
(***************************************************************************)

StartSparse ==
    /\ pc = "dispatch"
    /\ ~IsDescriptor(fields.blk) /\ fields.blk.kind = "sparse"
    /\ IF fields.blk.magic = "gnu"
       THEN /\ pc' = "sparse"
            /\ scan' = [todo |-> fields.blk.sparse, more |-> fields.blk.ext,
                        cur |-> 0, remaining |-> fields.size]
            /\ UNCHANGED <<waker, call, vec, done, result>>
       ELSE Finish("error")
    /\ UNCHANGED <<arch, opt, reader, inner, next, fields, descs, out>>

\* Mutant: a piece may not start where the one before it ends.
SparseFitsApart(d) ==
    /\ d # None
    /\ d.len # 0 => (fields.size - scan.remaining) % Block = 0
    /\ scan.cur < d.offset
    /\ d.offset + d.len <= U64Max
    /\ d.len <= scan.remaining

\* What add_block accepts: aligned, in order, inside u64 and the member.
SparseFits(d) ==
    /\ d # None
    /\ d.len # 0 => (fields.size - scan.remaining) % Block = 0
    /\ scan.cur <= d.offset
    /\ d.offset + d.len <= U64Max
    /\ d.len <= scan.remaining

AddSparseBlock ==
    /\ pc = "sparse" /\ scan.todo # <<>>
    /\ LET d == Head(scan.todo)
       IN  IF SparseFits(d)
           THEN /\ scan' = [scan EXCEPT !.todo = Tail(@),
                                        !.cur = d.offset + d.len,
                                        !.remaining = @ - d.len]
                /\ UNCHANGED <<pc, waker, call, vec, done, result>>
           ELSE Finish("error")
    /\ UNCHANGED <<arch, opt, reader, inner, next, fields, descs, out>>

ExtensionEof ==
    /\ WantsExtension /\ BlockEof
    /\ Finish("error")
    /\ UNCHANGED <<arch, opt, reader, inner, next, fields, descs, out>>

ReadExtension ==
    /\ WantsExtension
    /\ \E b \in {BlockAt(arch, off)} :
        /\ BlockRead(b)
        /\ scan' = [scan EXCEPT !.todo = b.sparse, !.more = b.ext]
    /\ next' = next + Block
    /\ UNCHANGED <<arch, opt, sbuf, done, fields, descs, result,
                   pc, waker, call, vec, out>>

SparseDone ==
    /\ pc = "sparse" /\ scan.todo = <<>> /\ ~scan.more
    /\ IF scan.cur = fields.blk.real /\ scan.remaining = 0
       THEN YieldMember(scan.cur)
       ELSE Finish("error") /\ UNCHANGED <<fields, descs, out>>
    /\ UNCHANGED <<arch, opt, reader, inner, next>>

-----------------------------------------------------------------------------
(***************************************************************************)
(* The reader is not ready, or fails                                       *)
(***************************************************************************)

\* The poll in progress is about to call the reader.
AtRead ==
    \/ pc = "skip" /\ call.rem > 0
    \/ pc = "header"
    \/ pc = "payload" /\ fields.left > 0
    \/ WantsExtension

ReadPending ==
    /\ opt.pend /\ AtRead
    /\ Park(TRUE)
    /\ UNCHANGED <<arch, opt, reader, inner, stream, out>>

ReadFails ==
    /\ MayFail /\ AtRead
    /\ Finish("fault")
    /\ UNCHANGED <<arch, opt, reader, inner, next, fields, descs, out>>

-----------------------------------------------------------------------------
\* Steps in which the reader delivers bytes or its end.
ReaderStep ==
    \/ SkipRead \/ BlockShort \/ BlockResume
    \/ HeaderEof \/ ZeroBlock \/ RejectHeader \/ ReadMember
    \/ PayloadRead \/ ExtensionEof \/ ReadExtension

\* Steps a poll takes by itself.
PollStep ==
    \/ ComputeDelta \/ SkipDone \/ SeekDrain \/ SeekSkip
    \/ StartDescriptor \/ PayloadDone \/ YieldPlain
    \/ StartSparse \/ AddSparseBlock \/ SparseDone

Next ==
    \/ Poll \/ PollDone \/ CallEntries
    \/ \E i \in DOMAIN out : ReadEntry(i)
    \/ ReaderStep \/ PollStep
    \/ ReadPending \/ ReadFails

Spec == Init /\ [][Next]_vars

(***************************************************************************)
(* The caller polls whenever it may, a poll runs on, and a reader that is  *)
(* asked again and again answers in the end.                               *)
(***************************************************************************)
Fairness == WF_vars(Poll) /\ WF_vars(PollStep) /\ SF_vars(ReaderStep)

FairSpec == Spec /\ Fairness

-----------------------------------------------------------------------------
(***************************************************************************)
(* Properties                                                              *)
(***************************************************************************)

\* An entry is what the header block at hpos says, and its data starts after it.
Genuine(e) ==
    /\ e.blk = BlockAt(arch, e.hpos)
    /\ ~e.blk.zero /\ e.blk.cksum
    /\ e.fpos = e.hpos + Block

\* raw_header_position and raw_file_position of every entry handed out are
\* where its header was read from and where that header ends: no loss of
\* framing goes unnoticed as a made-up entry (entry.rs:172-190).
HeaderPosGenuine == \A i \in DOMAIN out : Genuine(out[i])

(***************************************************************************)
(* Why, when nothing seeks: pos is the position of the reader, so that a   *)
(* skip that comes to rest does so at `next`, wrapped or not, and a header *)
(* is parsed where header_pos says.  A subtraction that wrapped leaves a   *)
(* rem that no archive is long enough to satisfy.                          *)
(***************************************************************************)
InStep == pos = off /\ off <= arch.len

Aimed ==
    /\ pc # "seek"
    /\ pc = "skip" => call.rem \in {next - off, next - off + U64Max + 1}
    /\ pc = "header" => off = next
    /\ pc \in {"delta", "skip", "header"} => call.hpos = next

Framing ==
    /\ InStep /\ Aimed
    /\ fields # None => Genuine(fields)
    /\ HeaderPosGenuine

\* A long name, long link or pax header that an entry carries was read between
\* the entry before it and itself: descriptors never skip to a later member.
DescriptorsBelong ==
    \A i \in DOMAIN out :
        \A run \in {out[i].long, out[i].link,
                    IF out[i].pax = None THEN None ELSE out[i].pax.bytes} \ {None} :
            /\ run.to <= out[i].hpos
            /\ i > 1 => out[i - 1].fpos < run.from

\* A member starts after the padded end of the one before: the stream never
\* takes bytes of a member's data for the next header, whatever the caller
\* has read of it.  (The size of a sparse entry is that of the file instead.)
MembersDisjoint ==
    \A i \in DOMAIN out :
        i > 1 /\ (opt.raw \/ out[i - 1].blk.kind # "sparse") =>
            out[i - 1].fpos + RoundUp(out[i - 1].size) <= out[i].hpos

\* The data of an entry starts after its header and its extension blocks.
DataStart(e) ==
    IF opt.raw \/ e.blk.kind # "sparse" THEN e.fpos
    ELSE LET Extended(k) == BlockAt(arch, e.hpos + k * Block).ext
         IN  e.fpos + Block * CHOOSE k \in 0 .. Len(arch.blocks) :
                                ~Extended(k) /\ \A j \in 0 .. k - 1 : Extended(j)

\* Reading in order gives each entry its own bytes, from the first one on,
\* without a gap, in step with what is still to come.
ContentsInOrder ==
    \A i \in DOMAIN out :
        LET e == out[i]
        IN  \/ e.got = <<>>
            \/ /\ Len(e.got) = 1
               /\ e.got[1].from = DataStart(e)
               /\ e.got[1].to + e.left = DataStart(e) + MemberSize(e.blk,
                        IF e.pax = None THEN None ELSE e.pax.size)

\* A stream that has ended or failed says so once and hands out nothing more,
\* unless entries() is called anew (the `done` flag of EntriesFields).
StreamFused ==
    [][result # "none" => (result' = result \/ pos = 0) /\ Len(out') = Len(out)]_vars

\* A poll that returns Pending has left its waker with somebody.
NoLostWakeup == pc = "parked" => waker

\* No arithmetic or copy of the poll functions panics.
NoPanic == pc # "panicked"
=============================================================================
