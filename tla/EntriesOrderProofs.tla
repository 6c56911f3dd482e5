------------------------- MODULE EntriesOrderProofs -------------------------
(***************************************************************************)
(* Proofs about EntriesStream over an archive that is not seeked: members  *)
(* do not overlap, a descriptor belongs to the member after it, and        *)
(* entries read in order are the bytes of their members.  The first two    *)
(* follow from what lies behind what: the reader has passed the entry      *)
(* handed out last, then the descriptors held, then the member at hand;    *)
(* the last from where the reader stands when a member is handed over.     *)
(***************************************************************************)
EXTENDS EntriesStreamProofs

USE BlockAssumption, WidthAssumption, NoneAssumption
USE DEF reader, inner, stream, descs, locals, vars

-----------------------------------------------------------------------------
\* Where the padded data of a member ends.
Ends(e) == e.fpos + RoundUp(e.size)

\* The size of the entry is that of its data in the archive.
Plain(e) == opt.raw \/ e.blk.kind # "sparse"

Last == out[Len(out)]

\* The payloads of the descriptors long, link and ext.
Payloads(long, link, ext) ==
    {long, link, IF ext = None THEN None ELSE ext.bytes} \ {None}

\* A raw stream collects nothing.
RawPlain ==
    opt.raw => fields = None /\ longname = None /\ longlink = None /\ pax = None

LastBehind ==
    out # <<>> => Last.fpos <= off /\ (Plain(Last) => Ends(Last) <= next)

FieldsBehind ==
    fields # None =>
        /\ fields.fpos <= off /\ Ends(fields) <= next
        /\ out # <<>> =>
            Last.fpos <= fields.hpos /\ (Plain(Last) => Ends(Last) <= fields.hpos)

DescsBehind ==
    \A run \in Payloads(longname, longlink, pax) :
        /\ run.to <= off
        /\ fields # None => run.to <= fields.hpos
        /\ out # <<>> => Last.fpos < run.from

\* The payload being read starts after its header; only a sparse member has a map.
PollBehind ==
    /\ pc = "payload" => fields.fpos <= vec.from /\ vec.to <= off
    /\ pc = "sparse" => fields.blk.kind = "sparse"

Behind == RawPlain /\ LastBehind /\ FieldsBehind /\ DescsBehind /\ PollBehind

Ordered == Behind /\ MembersDisjoint /\ DescriptorsBelong

-----------------------------------------------------------------------------
(***************************************************************************)
(* Types of what is compared                                               *)
(***************************************************************************)

\* The positions in an entry are numbers.
LEMMA PlaceTypes ==
  ASSUME NEW e \in EntryType
  PROVE  /\ e.hpos \in Nat /\ e.fpos \in Nat /\ e.size \in Nat
         /\ Ends(e) \in Nat /\ e.fpos <= Ends(e)
  <1>1. e.hpos \in Nat /\ e.fpos \in Nat /\ e.size \in Nat
    BY DEF EntryType
  <1>2. RoundUp(e.size) \in Nat
    BY <1>1, RoundUpNat
  <1> QED
    BY <1>1, <1>2 DEF Ends

\* Descriptors are runs of bytes.
LEMMA PayloadTypes ==
  ASSUME NEW long \in Run \cup {None}, NEW link \in Run \cup {None},
         NEW ext \in PaxType \cup {None}, NEW run \in Payloads(long, link, ext)
  PROVE  run \in Run /\ run.from \in Nat /\ run.to \in Nat
  <1>1. run \in Run
    BY DEF Payloads, PaxType
  <1> QED
    BY <1>1 DEF Run

LEMMA LastTypes ==
  ASSUME TypeInv, out # <<>>
  PROVE  /\ Len(out) \in DOMAIN out /\ Last \in EntryType
         /\ Last.hpos \in Nat /\ Last.fpos \in Nat /\ Ends(Last) \in Nat
  <1>1. Len(out) \in DOMAIN out /\ Last \in EntryType
    BY TypedFacts DEF TypeInv, Last
  <1> QED
    BY <1>1, PlaceTypes

LEMMA FieldsTypes ==
  ASSUME TypeInv, fields # None
  PROVE  /\ fields \in EntryType
         /\ fields.hpos \in Nat /\ fields.fpos \in Nat /\ Ends(fields) \in Nat
  BY TypedFacts, PlaceTypes DEF TypeInv

LEMMA HeldTypes ==
  ASSUME TypeInv, NEW run \in Payloads(longname, longlink, pax)
  PROVE  run.from \in Nat /\ run.to \in Nat
  BY TypedFacts, PayloadTypes DEF TypeInv, StreamTypes

\* A reader that is not seeked moves forward.
LEMMA OffGrows ==
  ASSUME TypeInv, Framing, [Next]_vars
  PROVE  off \in Nat /\ off' \in Nat /\ off <= off' /\ opt' = opt /\ arch' = arch
  <1>1. arch' = arch /\ opt' = opt /\ (Stays \/ Takes \/ Seeks)
    BY ReaderMoves DEF TypeInv
  <1>2. ~Seeks
    BY DEF Framing, Aimed, Seeks
  <1> QED
    BY <1>1, <1>2, TypedFacts DEF TypeInv, Stays, Takes

-----------------------------------------------------------------------------
(***************************************************************************)
(* Steps that neither find, keep nor hand over anything                    *)
(***************************************************************************)
Keeps ==
    /\ fields' = fields /\ out' = out
    /\ longname' = longname /\ longlink' = longlink /\ pax' = pax
    /\ next \in Nat /\ next' \in Nat /\ next <= next'

Rest ==
    \/ Poll \/ PollDone \/ ComputeDelta \/ SkipRead \/ SkipDone
    \/ SeekDrain \/ SeekSkip \/ BlockShort \/ BlockResume \/ HeaderEof
    \/ ZeroBlock \/ RejectHeader \/ StartDescriptor \/ StartSparse
    \/ AddSparseBlock \/ ExtensionEof \/ ReadExtension
    \/ ReadPending \/ ReadFails \/ UNCHANGED vars

LEMMA RestKeeps == ASSUME TypeInv, Rest PROVE Keeps
  <1> USE DEF TypeInv
  <1>1. CASE ZeroBlock
    <2>1. next' = next \/ next' = next + Block
      BY <1>1 DEF ZeroBlock
    <2> QED
      BY <1>1, <2>1, TypedFacts DEF ZeroBlock, Keeps
  <1>2. CASE RejectHeader \/ ReadExtension
    BY <1>2, TypedFacts DEF RejectHeader, ReadExtension, Keeps
  <1>3. CASE \/ Poll \/ PollDone \/ ComputeDelta \/ SkipRead \/ SkipDone
             \/ SeekDrain \/ SeekSkip \/ BlockShort \/ BlockResume \/ HeaderEof
             \/ StartDescriptor \/ StartSparse \/ AddSparseBlock \/ ExtensionEof
             \/ ReadPending \/ ReadFails \/ UNCHANGED vars
    <2>1. /\ fields' = fields /\ out' = out /\ next' = next
          /\ longname' = longname /\ longlink' = longlink /\ pax' = pax
      BY <1>3
         DEF Poll, PollDone, ComputeDelta, SkipRead, SkipDone, SeekDrain, SeekSkip,
             BlockShort, BlockResume, HeaderEof, StartDescriptor, StartSparse,
             AddSparseBlock, ExtensionEof, ReadPending, ReadFails
    <2> QED
      BY <2>1, TypedFacts DEF Keeps
  <1> QED
    BY <1>1, <1>2, <1>3 DEF Rest

\* What lies behind the reader stays behind it.
LEMMA KeepsBehind ==
  ASSUME TypeInv, Framing, Ordered, [Next]_vars, Keeps
  PROVE  /\ RawPlain' /\ LastBehind' /\ FieldsBehind' /\ DescsBehind'
         /\ MembersDisjoint' /\ DescriptorsBelong'
  <1> USE DEF Ordered, Behind
  <1>1. off \in Nat /\ off' \in Nat /\ off <= off' /\ opt' = opt
    BY OffGrows
  <1>2. RawPlain' /\ MembersDisjoint' /\ DescriptorsBelong'
    BY <1>1 DEF Keeps, RawPlain, MembersDisjoint, DescriptorsBelong
  <1>3. LastBehind'
    BY <1>1, LastTypes DEF Keeps, LastBehind, Last, Plain, Ends
  <1>4. FieldsBehind'
    BY <1>1, FieldsTypes DEF Keeps, FieldsBehind, Last, Plain, Ends
  <1>5. DescsBehind'
    BY <1>1, HeldTypes DEF Keeps, DescsBehind, Last
  <1> QED
    BY <1>2, <1>3, <1>4, <1>5

LEMMA RestBehind ==
  ASSUME TypeInv, Framing, Ordered, [Next]_vars, Rest PROVE Ordered'
  <1> USE DEF TypeInv
  <1>1. Keeps
    BY RestKeeps
  <1>2. CASE StartDescriptor
    <2>1. fields # None /\ fields.fpos <= off
      BY <1>2 DEF StartDescriptor, HasFields, Ordered, Behind, FieldsBehind
    <2> QED
      BY <1>1, <1>2, <2>1, KeepsBehind, OffGrows
         DEF StartDescriptor, PollBehind, Ordered, Behind
  <1>3. CASE StartSparse
    BY <1>1, <1>3, KeepsBehind
       DEF StartSparse, Finish, EndPoll, PollBehind, Ordered, Behind
  <1>4. CASE AddSparseBlock \/ ReadExtension \/ PollDone \/ UNCHANGED vars
    <2>1. (pc' = pc /\ vec' = vec) \/ pc' = "idle"
      BY <1>4 DEF AddSparseBlock, ReadExtension, PollDone, Finish, EndPoll
    <2>2. vec.to \in Nat
      BY TypedFacts DEF Run
    <2> QED
      BY <1>1, <2>1, <2>2, KeepsBehind, OffGrows
         DEF Keeps, PollBehind, Ordered, Behind
  <1>5. CASE \/ Poll \/ ComputeDelta \/ SkipRead \/ SkipDone \/ SeekDrain \/ SeekSkip
             \/ BlockShort \/ BlockResume \/ HeaderEof \/ ZeroBlock \/ RejectHeader
             \/ ExtensionEof \/ ReadPending \/ ReadFails
    <2>1. pc' \notin {"payload", "sparse"}
      BY <1>5
         DEF Poll, ComputeDelta, SkipRead, SkipDone, SeekDrain, SeekSkip, BlockShort,
             BlockResume, HeaderEof, ZeroBlock, RejectHeader, ExtensionEof,
             ReadPending, ReadFails, NoMoreMembers, Finish, Park, Panic, EndPoll
    <2> QED
      BY <1>1, <2>1, KeepsBehind DEF PollBehind, Ordered, Behind
  <1> QED
    BY <1>2, <1>3, <1>4, <1>5 DEF Rest

-----------------------------------------------------------------------------
(***************************************************************************)
(* Steps that find, keep or hand over something                            *)
(***************************************************************************)

\* An entry handed out starts where those before it end, and what it carries
\* lies between the entry before it and itself.
After(e) ==
    /\ out # <<>> /\ Plain(Last) => Ends(Last) <= e.hpos
    /\ \A run \in Payloads(e.long, e.link, e.pax) :
        /\ run.to <= e.hpos
        /\ out # <<>> => Last.fpos < run.from

LEMMA AppendOrdered ==
  ASSUME TypeInv, Ordered, NEW e, After(e), out' = Append(out, e), opt' = opt
  PROVE  MembersDisjoint' /\ DescriptorsBelong' /\ Last' = e /\ out' # <<>>
  <1>0. out \in Seq(EntryType)
    BY TypedFacts DEF TypeInv
  <1>1. /\ Len(out') = Len(out) + 1 /\ DOMAIN out' = 1 .. Len(out) + 1
        /\ DOMAIN out = 1 .. Len(out) /\ Len(out) \in Nat
        /\ \A i \in 1 .. Len(out) : out'[i] = out[i]
        /\ out'[Len(out) + 1] = e
    BY <1>0
  <1>2. Last' = e /\ out' # <<>>
    BY <1>0, <1>1 DEF Last
  <1>3. ASSUME NEW i \in DOMAIN out', i > 1
        PROVE  \/ i \in DOMAIN out /\ out'[i] = out[i] /\ out'[i - 1] = out[i - 1]
               \/ i = Len(out) + 1 /\ out'[i] = e /\ out'[i - 1] = Last /\ out # <<>>
    <2>1. i \in 1 .. Len(out) + 1 /\ i - 1 \in 1 .. Len(out)
      BY <1>1, <1>3
    <2>2. CASE i = Len(out) + 1
      BY <1>0, <1>1, <2>1, <2>2 DEF Last
    <2>3. CASE i # Len(out) + 1
      BY <1>1, <2>1, <2>3
    <2> QED
      BY <2>2, <2>3
  <1>4. MembersDisjoint'
    <2> SUFFICES ASSUME NEW i \in DOMAIN out', i > 1,
                        opt'.raw \/ out'[i - 1].blk.kind # "sparse"
                 PROVE  Ends(out'[i - 1]) <= out'[i].hpos
      BY DEF MembersDisjoint, Ends
    <2>1. CASE i \in DOMAIN out /\ out'[i] = out[i] /\ out'[i - 1] = out[i - 1]
      BY <2>1 DEF Ordered, MembersDisjoint, Ends
    <2>2. CASE out'[i] = e /\ out'[i - 1] = Last /\ out # <<>>
      BY <2>2 DEF After, Plain
    <2> QED
      BY <1>3, <2>1, <2>2
  <1>5. DescriptorsBelong'
    <2> SUFFICES ASSUME NEW i \in DOMAIN out',
                        NEW run \in Payloads(out'[i].long, out'[i].link, out'[i].pax)
                 PROVE  /\ run.to <= out'[i].hpos
                        /\ i > 1 => out'[i - 1].fpos < run.from
      BY DEF DescriptorsBelong, Payloads
    <2>1. CASE i \in DOMAIN out
      <3>1. out'[i] = out[i] /\ (i > 1 => out'[i - 1] = out[i - 1])
        BY <1>1, <2>1
      <3> QED
        BY <2>1, <3>1 DEF Ordered, DescriptorsBelong, Payloads
    <2>2. CASE i \notin DOMAIN out
      <3>1. out'[i] = e /\ (i > 1 => out'[i - 1] = Last /\ out # <<>>)
        BY <1>1, <1>3, <2>2
      <3> QED
        BY <3>1 DEF After
    <2> QED
      BY <2>1, <2>2
  <1> QED
    BY <1>2, <1>4, <1>5

\* A header is parsed where the member before it ends (Framing).
LEMMA ReadMemberOrdered ==
  ASSUME TypeInv, Framing, Ordered, ReadMember PROVE Ordered'
  <1> USE DEF TypeInv
  <1> DEFINE e == EntryOf(BlockAt(arch, off))
  <1>1. /\ off = next /\ call.hpos = next /\ off \in Nat /\ next \in Nat
        /\ off' = off + Block /\ opt' = opt
    BY TypedFacts DEF ReadMember, BlockRead, Advance, Framing, Aimed
  <1>2. /\ e.hpos = off /\ e.fpos = off' /\ e.size \in Nat /\ next' = Ends(e)
        /\ e.long = None /\ e.link = None /\ e.pax = None
    <2>1. e.size \in Nat
      BY TypedFacts, EntryOfType, BlockAtType, ArchType, PlaceTypes DEF ReadMember, HeaderOk
    <2> QED
      BY <1>1, <2>1 DEF ReadMember, AfterMember, EntryOf, Ends
  <1>3. next' \in Nat /\ next <= next' /\ off' \in Nat /\ off <= off'
    BY <1>1, <1>2, RoundUpNat DEF Ends
  <1>4. out # <<>> => Last.fpos <= off /\ (Plain(Last) => Ends(Last) <= off)
    BY <1>1 DEF Ordered, Behind, LastBehind
  <1>5. CASE opt.raw
    <2>1. out' = Append(out, e) /\ fields' = fields /\ pc' = "idle"
      BY <1>5 DEF ReadMember, Yield, EndPoll
    <2>2. longname' = longname /\ longlink' = longlink /\ pax' = pax
      BY DEF ReadMember
    <2>3. After(e)
      BY <1>2, <1>4 DEF After, Payloads
    <2>4. MembersDisjoint' /\ DescriptorsBelong' /\ Last' = e
      BY <1>1, <2>1, <2>3, AppendOrdered
    <2>5. RawPlain' /\ fields' = None /\ longname' = None /\ longlink' = None /\ pax' = None
      BY <1>1, <1>5, <2>1, <2>2 DEF Ordered, Behind, RawPlain
    <2>6. LastBehind'
      BY <1>2, <1>3, <2>4 DEF LastBehind, Plain, Ends
    <2>7. DescsBehind'
      BY <2>5 DEF DescsBehind, Payloads
    <2> QED
      BY <2>1, <2>4, <2>5, <2>6, <2>7 DEF Ordered, Behind, FieldsBehind, PollBehind
  <1>6. CASE ~opt.raw
    <2>1. /\ out' = out /\ fields' = e /\ pc' = "dispatch"
          /\ longname' = longname /\ longlink' = longlink /\ pax' = pax
      BY <1>6 DEF ReadMember
    <2>2. MembersDisjoint' /\ DescriptorsBelong'
      BY <1>1, <2>1 DEF Ordered, MembersDisjoint, DescriptorsBelong
    <2>3. LastBehind'
      BY <1>1, <1>3, <1>4, <2>1, LastTypes DEF Ordered, Behind, LastBehind, Last, Plain, Ends
    <2>4. FieldsBehind'
      BY <1>1, <1>2, <1>3, <1>4, <2>1 DEF FieldsBehind, Last, Plain, Ends
    <2>5. DescsBehind'
      BY <1>1, <1>2, <1>3, <2>1, HeldTypes DEF Ordered, Behind, DescsBehind, Last
    <2> QED
      BY <1>1, <1>6, <2>1, <2>2, <2>3, <2>4, <2>5 DEF Ordered, Behind, RawPlain, PollBehind
  <1> QED
    BY <1>5, <1>6

\* The member at hand is handed over with what was collected for it.
LEMMA YieldOrdered ==
  ASSUME TypeInv, Ordered, fields # None, NEW size \in Nat, YieldMember(size),
         fields.blk.kind # "sparse" => size = fields.size,
         opt' = opt, off' = off, next' = next
  PROVE  Ordered'
  <1> USE DEF Ordered, Behind
  <1> DEFINE e == [fields EXCEPT !.size = size, !.long = longname,
                                 !.link = longlink, !.pax = pax]
  <1>1. /\ out' = Append(out, e) /\ fields' = None /\ pc' = "idle"
        /\ longname' = None /\ longlink' = None /\ pax' = None
    BY DEF YieldMember, Yield, EndPoll
  <1>2. /\ e.blk = fields.blk /\ e.hpos = fields.hpos /\ e.fpos = fields.fpos
        /\ e.size = size /\ e.long = longname /\ e.link = longlink /\ e.pax = pax
    BY FieldsTypes DEF EntryType
  <1> HIDE DEF e
  <1>3. After(e)
    BY <1>2 DEF After, FieldsBehind, DescsBehind
  <1>4. MembersDisjoint' /\ DescriptorsBelong' /\ Last' = e
    BY <1>1, <1>3, AppendOrdered
  <1>5. ~opt.raw
    BY DEF RawPlain
  <1>6. LastBehind'
    <2>1. e.fpos <= off
      BY <1>2 DEF FieldsBehind
    <2>2. ASSUME e.blk.kind # "sparse" PROVE Ends(e) <= next
      BY <1>2, <2>2 DEF FieldsBehind, Ends
    <2> QED
      BY <1>4, <1>5, <2>1, <2>2 DEF LastBehind, Plain, Ends
  <1> QED
    BY <1>1, <1>4, <1>6 DEF RawPlain, FieldsBehind, DescsBehind, Payloads, PollBehind

\* The whole of a plain member, or the file a sparse map describes.
LEMMA HandOverOrdered ==
  ASSUME TypeInv, Ordered, YieldPlain \/ SparseDone PROVE Ordered'
  <1> USE DEF TypeInv
  <1>1. fields # None
    BY DEF YieldPlain, SparseDone, HasFields
  <1>2. opt' = opt /\ off' = off /\ next' = next
    BY DEF YieldPlain, SparseDone
  <1>3. CASE YieldPlain
    BY <1>1, <1>2, <1>3, YieldOrdered, FieldsTypes, PlaceTypes DEF YieldPlain
  <1>4. CASE SparseDone /\ YieldMember(scan.cur)
    <2>1. fields.blk.kind = "sparse"
      BY <1>4 DEF SparseDone, Ordered, Behind, PollBehind
    <2>2. scan.cur \in Nat
      BY TypedFacts DEF ScanType
    <2> QED
      BY <1>1, <1>2, <1>4, <2>1, <2>2, YieldOrdered
  <1>5. CASE SparseDone /\ ~YieldMember(scan.cur)
    <2>1. /\ out' = out /\ fields' = fields /\ pc' = "idle"
          /\ longname' = longname /\ longlink' = longlink /\ pax' = pax
      BY <1>5 DEF SparseDone, Finish, EndPoll
    <2> QED
      BY <1>2, <2>1
         DEF Ordered, Behind, RawPlain, LastBehind, FieldsBehind, DescsBehind, PollBehind,
             MembersDisjoint, DescriptorsBelong, Last, Plain, Ends
  <1> QED
    BY <1>3, <1>4, <1>5

\* Bytes of a payload are taken after its header.
LEMMA PayloadReadOrdered ==
  ASSUME TypeInv, Framing, Ordered, [Next]_vars, PayloadRead PROVE Ordered'
  <1> USE DEF TypeInv
  <1>1. PICK n \in Reads(Min2(fields.left, Room)) :
          /\ off' = off + n
          /\ fields' = [fields EXCEPT !.left = @ - n]
          /\ vec' = [vec EXCEPT !.to = @ + n]
    BY DEF PayloadRead, Advance
  <1>2. fields # None /\ pc = "payload"
    BY DEF PayloadRead, HasFields
  <1>3. /\ out' = out /\ pc' = pc /\ next' = next /\ opt' = opt
        /\ longname' = longname /\ longlink' = longlink /\ pax' = pax
    BY DEF PayloadRead
  <1>4. /\ fields'.blk = fields.blk /\ fields'.hpos = fields.hpos
        /\ fields'.fpos = fields.fpos /\ fields'.size = fields.size
    BY <1>1, <1>2, FieldsTypes DEF EntryType
  <1>5. off \in Nat /\ off' \in Nat /\ off <= off'
    BY OffGrows
  <1>6. vec'.from = vec.from /\ vec'.to = vec.to + n /\ vec.to \in Nat
    BY <1>1, TypedFacts DEF Run
  <1>7. RawPlain' /\ MembersDisjoint' /\ DescriptorsBelong'
    BY <1>2, <1>3 DEF Ordered, Behind, RawPlain, MembersDisjoint, DescriptorsBelong
  <1>8. LastBehind'
    BY <1>3, <1>5, LastTypes DEF Ordered, Behind, LastBehind, Last, Plain, Ends
  <1>9. FieldsBehind'
    BY <1>2, <1>3, <1>4, <1>5, FieldsTypes DEF Ordered, Behind, FieldsBehind, Last, Plain, Ends
  <1>10. DescsBehind'
    BY <1>2, <1>3, <1>4, <1>5, HeldTypes DEF Ordered, Behind, DescsBehind, Last
  <1>11. PollBehind'
    <2>1. Min2(fields.left, Room) \in Nat
      <3>1. fields.left \in Nat
        BY <1>2, FieldsTypes DEF EntryType
      <3>2. Room \in Nat
        BY TypedFacts, EnvironmentAssumption DEF Room, Run
      <3> QED
        BY <3>1, <3>2 DEF Min2
    <2>2. n \in Nat
      BY <1>1, <2>1, ReadsBounds
    <2> QED
      BY <1>1, <1>2, <1>3, <1>4, <1>5, <1>6, <2>2 DEF Ordered, Behind, PollBehind
  <1> QED
    BY <1>7, <1>8, <1>9, <1>10, <1>11 DEF Ordered, Behind

\* A payload that was read is behind the reader and after the last entry.
LEMMA PayloadDoneOrdered ==
  ASSUME TypeInv, Framing, Ordered, PayloadDone PROVE Ordered'
  <1> USE DEF TypeInv
  <1>1. /\ fields # None /\ pc = "payload"
        /\ fields' = None /\ out' = out /\ pc' = "delta"
        /\ off' = off /\ next' = next /\ opt' = opt
    BY DEF PayloadDone, HasFields
  <1>2. Payloads(longname', longlink', pax')
          \subseteq Payloads(longname, longlink, pax) \cup {vec}
    <2>1. CASE longname' = vec /\ longlink' = longlink /\ pax' = pax
      BY <2>1 DEF Payloads
    <2>2. CASE longlink' = vec /\ longname' = longname /\ pax' = pax
      BY <2>2 DEF Payloads
    <2>3. CASE /\ \E s \in PaxReadings : pax' = [bytes |-> vec, size |-> s]
               /\ longname' = longname /\ longlink' = longlink
      BY <2>3 DEF Payloads
    <2> QED
      BY <2>1, <2>2, <2>3 DEF PayloadDone
  <1>3. vec.to <= off /\ (out # <<>> => Last.fpos < vec.from)
    <2>1. fields.fpos <= vec.from /\ vec.to <= off
      BY <1>1 DEF Ordered, Behind, PollBehind
    <2>2. fields.fpos = fields.hpos + Block
      BY <1>1 DEF Framing, Genuine
    <2>3. out # <<>> => Last.fpos <= fields.hpos
      BY <1>1 DEF Ordered, Behind, FieldsBehind
    <2>4. vec.from \in Nat
      BY TypedFacts DEF Run
    <2> QED
      BY <1>1, <2>1, <2>2, <2>3, <2>4, LastTypes, FieldsTypes
  <1>4. DescsBehind'
    <2> SUFFICES ASSUME NEW run \in Payloads(longname', longlink', pax')
                 PROVE  run.to <= off /\ (out # <<>> => Last.fpos < run.from)
      BY <1>1 DEF DescsBehind, Last
    <2> QED
      BY <1>2, <1>3 DEF Ordered, Behind, DescsBehind
  <1>5. RawPlain'
    BY <1>1 DEF Ordered, Behind, RawPlain
  <1> QED
    BY <1>1, <1>4, <1>5
       DEF Ordered, Behind, LastBehind, FieldsBehind, PollBehind,
           MembersDisjoint, DescriptorsBelong, Last, Plain

\* Before a byte has been counted nothing has been handed out.
LEMMA NothingYet ==
  ASSUME TypeInv, Framing, Ordered, off = 0 PROVE out = <<>>
  <1> SUFFICES ASSUME out # <<>> PROVE FALSE
    OBVIOUS
  <1>1. Last.fpos = Last.hpos + Block /\ Last.hpos \in Nat
    BY LastTypes DEF Framing, HeaderPosGenuine, Genuine, Last
  <1>2. Last.fpos <= 0
    BY DEF Ordered, Behind, LastBehind
  <1> QED
    BY <1>1, <1>2

\* entries() can only be called anew before anything was handed out.
LEMMA CallEntriesOrdered ==
  ASSUME TypeInv, Framing, Ordered, CallEntries PROVE Ordered'
  <1>1. /\ fields' = None /\ out' = out /\ pc' = "idle" /\ off = 0
        /\ longname' = None /\ longlink' = None /\ pax' = None
    BY DEF CallEntries, Framing, InStep
  <1>2. out = <<>>
    BY <1>1, NothingYet
  <1> QED
    BY <1>1, <1>2
       DEF Ordered, Behind, RawPlain, LastBehind, FieldsBehind, DescsBehind, Payloads,
           PollBehind, MembersDisjoint, DescriptorsBelong

\* Reading an entry changes nothing of where it is and what it carries.
LEMMA ReadEntryKeeps ==
  ASSUME TypeInv, NEW i \in DOMAIN out, ReadEntry(i)
  PROVE  /\ Len(out') = Len(out) /\ DOMAIN out' = DOMAIN out
         /\ \A j \in DOMAIN out :
              /\ out'[j].blk = out[j].blk /\ out'[j].hpos = out[j].hpos
              /\ out'[j].fpos = out[j].fpos /\ out'[j].size = out[j].size
              /\ out'[j].long = out[j].long /\ out'[j].link = out[j].link
              /\ out'[j].pax = out[j].pax
  <1>1. PICK n :
          out' = [out EXCEPT ![i].left = @ - n, ![i].got = Deliver(@, n)]
    BY DEF ReadEntry
  <1>2. out \in Seq(EntryType)
    BY TypedFacts DEF TypeInv
  <1>3. DOMAIN out' = DOMAIN out /\ Len(out') = Len(out)
    BY <1>1, <1>2
  <1> SUFFICES ASSUME NEW j \in DOMAIN out
               PROVE  /\ out'[j].blk = out[j].blk /\ out'[j].hpos = out[j].hpos
                      /\ out'[j].fpos = out[j].fpos /\ out'[j].size = out[j].size
                      /\ out'[j].long = out[j].long /\ out'[j].link = out[j].link
                      /\ out'[j].pax = out[j].pax
    BY <1>3
  <1>4. out[j] \in EntryType
    BY <1>2
  <1> DEFINE l == out[i].left - n
             g == Deliver(out[i].got, n)
  <1>5. out'[j] = out[j] \/ out'[j] = [out[j] EXCEPT !.left = l, !.got = g]
    BY <1>1, <1>2
  <1> HIDE DEF l, g
  <1> QED
    BY <1>4, <1>5 DEF EntryType

LEMMA ReadEntryOrdered ==
  ASSUME TypeInv, Framing, Ordered, [Next]_vars, NEW i \in DOMAIN out, ReadEntry(i)
  PROVE  Ordered'
  <1>1. /\ fields' = fields /\ next' = next /\ opt' = opt /\ pc' = pc
        /\ longname' = longname /\ longlink' = longlink /\ pax' = pax
        /\ pc \in {"idle", "parked"}
    BY DEF ReadEntry
  <1>2. off \in Nat /\ off' \in Nat /\ off <= off'
    BY OffGrows
  <1>3. /\ DOMAIN out' = DOMAIN out /\ out' # <<>> /\ out # <<>>
        /\ \A j \in DOMAIN out :
              /\ out'[j].blk = out[j].blk /\ out'[j].hpos = out[j].hpos
              /\ out'[j].fpos = out[j].fpos /\ out'[j].size = out[j].size
              /\ out'[j].long = out[j].long /\ out'[j].link = out[j].link
              /\ out'[j].pax = out[j].pax
    BY ReadEntryKeeps
  <1>4. Last'.blk = Last.blk /\ Last'.fpos = Last.fpos /\ Last'.size = Last.size
    BY <1>3, ReadEntryKeeps, LastTypes DEF Last
  <1>5. MembersDisjoint' /\ DescriptorsBelong'
    <2>1. \A j \in DOMAIN out : j > 1 => j - 1 \in DOMAIN out
      BY TypedFacts DEF TypeInv
    <2>2. MembersDisjoint'
      BY <1>1, <1>3, <2>1 DEF Ordered, MembersDisjoint
    <2>3. DescriptorsBelong'
      BY <1>1, <1>3, <2>1 DEF Ordered, DescriptorsBelong
    <2> QED
      BY <2>2, <2>3
  <1>6. LastBehind'
    BY <1>1, <1>2, <1>3, <1>4, LastTypes DEF Ordered, Behind, LastBehind, Plain, Ends
  <1>7. FieldsBehind'
    BY <1>1, <1>2, <1>3, <1>4, FieldsTypes DEF Ordered, Behind, FieldsBehind, Plain, Ends
  <1>8. DescsBehind'
    BY <1>1, <1>2, <1>3, <1>4, HeldTypes DEF Ordered, Behind, DescsBehind
  <1> QED
    BY <1>1, <1>5, <1>6, <1>7, <1>8 DEF Ordered, Behind, RawPlain, PollBehind

-----------------------------------------------------------------------------
LEMMA OrderedStep ==
  TypeInv /\ Framing /\ Ordered /\ [Next]_vars => Ordered'
  <1> SUFFICES ASSUME TypeInv, Framing, Ordered, [Next]_vars PROVE Ordered'
    OBVIOUS
  <1> QED
    BY RestBehind, ReadMemberOrdered, HandOverOrdered, PayloadReadOrdered,
       PayloadDoneOrdered, CallEntriesOrdered, ReadEntryOrdered
       DEF Next, ReaderStep, PollStep, Rest

LEMMA OrderedInit == Init => Ordered
  BY DEF Init, Ordered, Behind, RawPlain, LastBehind, FieldsBehind, DescsBehind,
         Payloads, PollBehind, MembersDisjoint, DescriptorsBelong

LEMMA OrderedCorrect == ASSUME SeekFree PROVE Spec => []Ordered
  BY OrderedInit, OrderedStep, TypeCorrect, FramingCorrect, PTL DEF Spec

(***************************************************************************)
(* Over any reader and for any caller, a member of an archive that is not  *)
(* seeked starts after the padded end of the one before: no byte of a      *)
(* member's data is taken for the next header (archive.rs:313-381).        *)
(***************************************************************************)
THEOREM DisjointCorrect == ASSUME SeekFree PROVE Spec => []MembersDisjoint
  <1>1. Ordered => MembersDisjoint
    BY DEF Ordered
  <1> QED
    BY <1>1, OrderedCorrect, PTL

(***************************************************************************)
(* And a long name, long link or pax header an entry carries was read      *)
(* between the entry before it and itself, though the descriptors survive  *)
(* polls that return Pending (archive.rs:439-487).                         *)
(***************************************************************************)
THEOREM BelongCorrect == ASSUME SeekFree PROVE Spec => []DescriptorsBelong
  <1>1. Ordered => DescriptorsBelong
    BY DEF Ordered
  <1> QED
    BY <1>1, OrderedCorrect, PTL

-----------------------------------------------------------------------------
(***************************************************************************)
(* What a poll goes on from                                                *)
(***************************************************************************)

\* A poll that goes on from fields has one, and the others have none; a
\* stream that is done is not polled.
Handed ==
    /\ pc \in {"delta", "skip", "header"} => fields = None
    /\ pc = "idle" => fields = None \/ done
    /\ done => pc = "idle"
    /\ pc = "payload" => IsDescriptor(fields.blk)
    /\ pc = "sparse" => ~IsDescriptor(fields.blk)

-----------------------------------------------------------------------------
(***************************************************************************)
(* Contents                                                                *)
(***************************************************************************)

\* A sparse map that has to be read again, after a Pending, has at most one
\* extension block: those that were read are not read again.
MapsResume ==
    \A o \in Options : o.pend =>
        \A a \in Archives : \A k \in Nat :
            BlockAt(a, k).ext => ~BlockAt(a, k + Block).ext

\* The block k blocks after the one at h, in archive a, says that one follows.
Extends(a, h, k) == BlockAt(a, h + k * Block).ext

\* So do the k blocks from h on.
Exts(a, h, k) == \A j \in 0 .. k - 1 : Extends(a, h, j)

\* DataStart, with the archive and the option spelled out.
Start(a, raw, e) ==
    IF raw \/ e.blk.kind # "sparse" THEN e.fpos
    ELSE e.fpos + Block * CHOOSE k \in 0 .. Len(a.blocks) :
                            ~Extends(a, e.hpos, k) /\ Exts(a, e.hpos, k)

\* The size of the data of an entry, as its header and its pax records say.
Owed(e) == MemberSize(e.blk, IF e.pax = None THEN None ELSE e.pax.size)

\* What an entry has delivered is the start of its data.
InOrder(a, raw, e) ==
    \/ e.got = <<>>
    \/ /\ Len(e.got) = 1
       /\ e.got[1].from = Start(a, raw, e)
       /\ e.got[1].to + e.left = Start(a, raw, e) + Owed(e)

\* The reader stands where the last entry was read to.
LastAtHand ==
    pc = "idle" /\ ~done /\ out # <<>> =>
        \/ /\ Last.got = <<>>
           /\ off = Start(arch, opt.raw, Last)
           /\ Last.left = Owed(Last)
        \/ Len(Last.got) = 1 /\ Last.got[1].to = off

\* Nothing of a member has been read before it is handed over, ...
FieldsWhole ==
    fields # None /\ ~IsDescriptor(fields.blk) =>
        fields.got = <<>> /\ fields.left = MemberSize(fields.blk, PaxSize)

\* ... and the reader stands after its header, or, once a part of an extension
\* block was kept, where no map is ever completed.
FieldsAhead ==
    fields # None /\ ~IsDescriptor(fields.blk) /\ pc \in {"parked", "dispatch"} =>
        \/ sbuf = 0 /\ off = fields.fpos
        \/ sbuf > 0 /\ fields.blk.kind = "sparse" /\ fields.blk.ext

\* k extension blocks of the map have been read, and the last block read, or
\* the header, says whether another follows.
MapRead(k) ==
    /\ off = fields.fpos + k * Block
    /\ Exts(arch, fields.hpos, k)
    /\ scan.more = Extends(arch, fields.hpos, k)

\* While a map is read the reader stands after the extension blocks read.
MapAhead ==
    pc = "sparse" =>
        \/ sbuf > 0 /\ scan.more /\ fields.blk.ext
        \/ sbuf = 0 /\ \E k \in Nat : MapRead(k)

Contents ==
    /\ LastAtHand /\ FieldsWhole /\ FieldsAhead /\ MapAhead
    /\ \A i \in DOMAIN out : InOrder(arch, opt.raw, out[i])

-----------------------------------------------------------------------------
LEMMA HandedStep ==
  ASSUME TypeInv, Framing, Ordered, Handed, [Next]_vars PROVE Handed'
  <1> USE DEF Handed
  <1>1. CASE Poll
    <2>1. fields' = fields /\ done' = done /\ ~done
      BY <1>1 DEF Poll
    <2>2. \/ pc' = "dispatch"
          \/ pc' = "delta" /\ (opt.raw \/ fields = None)
      BY <1>1 DEF Poll
    <2>3. opt.raw => fields = None
      BY DEF Ordered, Behind, RawPlain
    <2> QED
      BY <2>1, <2>2, <2>3
  <1>2. CASE PollDone \/ UNCHANGED vars
    BY <1>2 DEF PollDone
  <1>3. CASE CallEntries
    BY <1>3 DEF CallEntries
  <1>4. ASSUME NEW i \in DOMAIN out, ReadEntry(i) PROVE Handed'
    BY <1>4 DEF ReadEntry
  <1>5. CASE ComputeDelta \/ SkipRead \/ SkipDone
    BY <1>5 DEF ComputeDelta, SkipRead, SkipDone, Panic, Finish, EndPoll
  <1>6. CASE SeekDrain \/ SeekSkip
    BY <1>6 DEF SeekDrain, SeekSkip, Framing, Aimed
  <1>7. CASE BlockShort \/ BlockResume
    BY <1>7 DEF BlockShort, BlockResume, WantsExtension, Panic, Park, EndPoll
  <1>8. CASE ZeroBlock \/ RejectHeader \/ HeaderEof
    BY <1>8 DEF ZeroBlock, RejectHeader, HeaderEof, NoMoreMembers, Finish, EndPoll
  <1>9. CASE ReadMember
    BY <1>9 DEF ReadMember, Yield, EndPoll
  <1>10. CASE StartDescriptor \/ PayloadDone
    BY <1>10 DEF StartDescriptor, PayloadDone
  <1>11. CASE PayloadRead
    <2>1. PICK n : fields' = [fields EXCEPT !.left = @ - n]
      BY <1>11 DEF PayloadRead
    <2>2. fields \in EntryType
      BY <1>11, FieldsTypes DEF PayloadRead, TypeInv, HasFields
    <2>3. fields'.blk = fields.blk
      BY <2>1, <2>2 DEF EntryType
    <2>4. pc = "payload" /\ UNCHANGED <<pc, done>>
      BY <1>11 DEF PayloadRead
    <2> QED
      BY <2>3, <2>4
  <1>12. CASE YieldPlain \/ SparseDone
    BY <1>12 DEF YieldPlain, SparseDone, YieldMember, Yield, Finish, EndPoll
  <1>13. CASE StartSparse \/ AddSparseBlock \/ ExtensionEof \/ ReadFails
    BY <1>13 DEF StartSparse, AddSparseBlock, ExtensionEof, ReadFails, Finish, EndPoll
  <1>14. CASE ReadExtension
    BY <1>14 DEF ReadExtension
  <1>15. CASE ReadPending
    BY <1>15 DEF ReadPending, AtRead, WantsExtension, Park, EndPoll
  <1> QED
    BY <1>1, <1>2, <1>3, <1>4, <1>5, <1>6, <1>7, <1>8, <1>9, <1>10, <1>11, <1>12,
       <1>13, <1>14, <1>15
       DEF Next, ReaderStep, PollStep

LEMMA HandedCorrect == ASSUME SeekFree PROVE Spec => []Handed
  <1>1. Init => Handed
    BY DEF Init, Handed
  <1>2. TypeInv /\ Framing /\ Ordered /\ Handed /\ [Next]_vars => Handed'
    BY HandedStep
  <1> QED
    BY <1>1, <1>2, TypeCorrect, FramingCorrect, OrderedCorrect, PTL DEF Spec

-----------------------------------------------------------------------------
(***************************************************************************)
(* Where the data of a sparse member starts                                *)
(***************************************************************************)

\* k blocks on there are at least k blocks behind.
LEMMA BlocksBehind ==
  ASSUME NEW h \in Nat, NEW k \in Nat
  PROVE  h + k * Block \in Nat /\ (h + k * Block) \div Block >= k
  <1> DEFINE n == h + k * Block
             q == n \div Block
  <1>1. k * Block \in Nat
    OBVIOUS
  <1>2. n \in Nat /\ n >= k * Block
    BY <1>1
  <1> HIDE DEF n
  <1>3. q \in Int /\ n < q * Block + Block
    BY <1>2
  <1> HIDE DEF q
  <1>4. CASE q < k
    <2>1. (k - q - 1) * Block >= 0
      <3>1. k - q - 1 \in Nat
        BY <1>3, <1>4
      <3> QED
        BY <3>1
    <2>2. (k - q - 1) * Block = k * Block - (q * Block + Block)
      BY <1>3
    <2>3. q * Block \in Int
      BY <1>3
    <2> QED
      BY <1>1, <1>2, <1>3, <2>1, <2>2, <2>3
  <1> QED
    BY <1>2, <1>3, <1>4 DEF n, q

\* A block that says another follows lies in the archive.
LEMMA ExtendsInside ==
  ASSUME NEW a \in ArchiveType, NEW h \in Nat, NEW k \in Nat, Extends(a, h, k)
  PROVE  k + 1 <= Len(a.blocks)
  <1> DEFINE q == (h + k * Block) \div Block
  <1>1. h + k * Block \in Nat /\ q >= k /\ q \in Int
    BY BlocksBehind
  <1>2. q + 1 \in DOMAIN a.blocks
    BY DEF Extends, BlockAt, Garbage
  <1> HIDE DEF q
  <1>3. a.blocks \in Seq(BlockType)
    BY DEF ArchiveType
  <1> QED
    BY <1>1, <1>2, <1>3

\* The data starts after the extension blocks, however many they are.
LEMMA StartsAt ==
  ASSUME NEW a \in ArchiveType, NEW e \in EntryType, e.blk.kind = "sparse",
         NEW k \in Nat, Exts(a, e.hpos, k), ~Extends(a, e.hpos, k)
  PROVE  Start(a, FALSE, e) = e.fpos + k * Block
  <1> DEFINE P(m) == ~Extends(a, e.hpos, m) /\ Exts(a, e.hpos, m)
             c == CHOOSE m \in 0 .. Len(a.blocks) : P(m)
  <1>1. e.hpos \in Nat /\ e.fpos \in Nat
    BY DEF EntryType
  <1>2. Len(a.blocks) \in Nat
    BY DEF ArchiveType
  <1>3. k \in 0 .. Len(a.blocks)
    <2>1. ASSUME k # 0 PROVE k <= Len(a.blocks)
      <3>1. k - 1 \in Nat /\ k - 1 \in 0 .. k - 1
        BY <2>1
      <3>2. Extends(a, e.hpos, k - 1)
        BY <3>1 DEF Exts
      <3>3. (k - 1) + 1 <= Len(a.blocks)
        BY <1>1, <3>1, <3>2, ExtendsInside
      <3> QED
        BY <1>2, <3>3
    <2> QED
      BY <1>2, <2>1
  <1>4. c \in 0 .. Len(a.blocks) /\ P(c)
    BY <1>3
  <1>5. Start(a, FALSE, e) = e.fpos + Block * c
    BY Zenon DEF Start
  <1> HIDE DEF c
  <1>6. c \in Nat
    BY <1>2, <1>4
  <1>7. ~(c < k)
    BY <1>4, <1>6 DEF Exts
  <1>8. ~(k < c)
    BY <1>4, <1>6 DEF Exts
  <1>9. c = k
    BY <1>6, <1>7, <1>8
  <1>10. Block * k = k * Block
    OBVIOUS
  <1> QED
    BY <1>5, <1>9, <1>10, Zenon

-----------------------------------------------------------------------------
(***************************************************************************)
(* Steps that neither find, keep nor hand over anything                    *)
(***************************************************************************)

LEMMA KeepsContents ==
  ASSUME TypeInv, Framing, Contents, [Next]_vars, Keeps, pc' # "idle" \/ done'
  PROVE  /\ LastAtHand' /\ FieldsWhole'
         /\ (\A i \in DOMAIN out : InOrder(arch, opt.raw, out[i]))'
  <1>1. opt' = opt /\ arch' = arch
    BY OffGrows
  <1> QED
    BY <1>1 DEF Keeps, Contents, LastAtHand, FieldsWhole, PaxSize

\* A member that is not a descriptor is at hand only while its map is read.
LEMMA AfterBlock ==
  ASSUME TypeInv, NEW b, BlockRead(b) PROVE off' = off + Block /\ off \in Nat /\ sbuf = 0
  BY TypedFacts DEF BlockRead, Advance, TypeInv

\* The header of a sparse member says whether an extension block follows it.
LEMMA FirstExtends ==
  ASSUME TypeInv, Framing, fields # None
  PROVE  /\ Extends(arch, fields.hpos, 0) = fields.blk.ext
         /\ fields.fpos = fields.hpos + Block
         /\ fields.hpos \in Nat /\ fields.fpos \in Nat
  <1>1. fields.blk = BlockAt(arch, fields.hpos) /\ fields.fpos = fields.hpos + Block
    BY DEF Framing, Genuine
  <1>2. fields.hpos \in Nat /\ fields.fpos \in Nat
    BY FieldsTypes
  <1>3. fields.hpos + 0 * Block = fields.hpos
    BY <1>2
  <1> QED
    BY <1>1, <1>2, <1>3 DEF Extends

\* A map starts from the header.
LEMMA StartSparseMap ==
  ASSUME TypeInv, Framing, FieldsAhead, StartSparse, pc' # "idle" PROVE MapAhead'
  <1>1. /\ pc = "dispatch" /\ fields # None /\ ~IsDescriptor(fields.blk)
        /\ scan' = [todo |-> fields.blk.sparse, more |-> fields.blk.ext,
                    cur |-> 0, remaining |-> fields.size]
        /\ UNCHANGED <<off, sbuf, fields, arch>>
    BY DEF StartSparse, Finish, EndPoll, TypeInv, HasFields
  <1>2. scan'.more = fields.blk.ext
    BY <1>1
  <1>3. CASE sbuf > 0 /\ fields.blk.ext
    BY <1>1, <1>2, <1>3 DEF MapAhead
  <1>4. CASE sbuf = 0 /\ off = fields.fpos
    <2>1. off = fields.fpos + 0 * Block /\ 0 \in Nat
      BY <1>1, <1>4, FirstExtends
    <2>2. Exts(arch, fields.hpos, 0)
      BY DEF Exts
    <2>3. scan'.more = Extends(arch, fields.hpos, 0)
      BY <1>1, <1>2, FirstExtends
    <2> QED
      BY <1>1, <1>4, <2>1, <2>2, <2>3 DEF MapAhead, MapRead
  <1> QED
    BY <1>1, <1>3, <1>4 DEF FieldsAhead

\* An extension block is the next one after those read.
LEMMA ReadExtensionMap ==
  ASSUME TypeInv, Framing, MapAhead, ReadExtension PROVE MapAhead'
  <1> DEFINE b == BlockAt(arch, off)
  <1>1. /\ BlockRead(b) /\ pc = "sparse" /\ scan.more /\ fields # None
        /\ scan' = [scan EXCEPT !.todo = b.sparse, !.more = b.ext]
        /\ UNCHANGED <<sbuf, fields, arch, pc>>
    BY DEF ReadExtension, WantsExtension, TypeInv, HasFields
  <1>2. scan'.more = b.ext /\ sbuf = 0 /\ off' = off + Block
    BY <1>1, TypedFacts, AfterBlock DEF TypeInv, ScanType
  <1>3. PICK k \in Nat : MapRead(k)
    BY <1>1, <1>2 DEF MapAhead
  <1> HIDE DEF b
  <1>4. fields.fpos = fields.hpos + Block /\ fields.hpos \in Nat /\ fields.fpos \in Nat
    BY <1>1, FirstExtends
  <1>5. PICK m \in Nat : m = k + 1
    OBVIOUS
  <1>6. m * Block = k * Block + Block /\ k * Block \in Nat
    BY <1>5
  <1>7. off = fields.hpos + m * Block /\ off' = fields.fpos + m * Block
    BY <1>2, <1>3, <1>4, <1>6 DEF MapRead
  <1>8. Exts(arch, fields.hpos, m)
    <2> SUFFICES ASSUME NEW j \in 0 .. m - 1 PROVE Extends(arch, fields.hpos, j)
      BY DEF Exts
    <2>1. j = k \/ j \in 0 .. k - 1
      BY <1>5
    <2> QED
      BY <1>1, <1>3, <2>1 DEF Exts, MapRead
  <1>9. scan'.more = Extends(arch, fields.hpos, m)
    BY <1>2, <1>7 DEF Extends, b
  <1> QED
    BY <1>1, <1>2, <1>7, <1>8, <1>9 DEF MapAhead, MapRead

\* Where a map may be suspended nothing of it has been read, or it is lost.
LEMMA Suspended ==
  ASSUME TypeInv, Framing, MapAhead, WantsExtension
  PROVE  /\ fields # None /\ fields.blk.ext
         /\ sbuf = 0 => \E k \in Nat : MapRead(k) /\ Extends(arch, fields.hpos, k)
  <1>1. pc = "sparse" /\ scan.more /\ fields # None
    BY DEF WantsExtension, TypeInv, HasFields
  <1>2. CASE sbuf = 0
    <2>1. PICK k \in Nat : MapRead(k)
      BY <1>1, <1>2 DEF MapAhead
    <2>4. Extends(arch, fields.hpos, k)
      BY <1>1, <2>1 DEF MapRead
    <2>2. k = 0 \/ 0 \in 0 .. k - 1
      OBVIOUS
    <2>3. Extends(arch, fields.hpos, 0)
      BY <2>1, <2>2, <2>4 DEF Exts, MapRead
    <2> QED
      BY <1>1, <2>1, <2>3, <2>4, FirstExtends
  <1>3. CASE sbuf # 0
    BY <1>1, <1>3 DEF MapAhead
  <1> QED
    BY <1>2, <1>3

\* A Pending of the reader comes before the first extension block.
LEMMA ReadPendingAhead ==
  ASSUME MapsResume, TypeInv, Framing, Handed, Ordered, MapAhead, ReadPending
  PROVE  FieldsAhead'
  <1>1. /\ UNCHANGED <<off, sbuf, fields>> /\ opt.pend /\ AtRead
    BY DEF ReadPending
  <1>2. CASE fields = None \/ IsDescriptor(fields.blk)
    BY <1>1, <1>2 DEF FieldsAhead
  <1>3. CASE fields # None /\ ~IsDescriptor(fields.blk)
    <2>1. WantsExtension
      BY <1>1, <1>3 DEF AtRead, Handed
    <2>2. fields.blk.kind = "sparse" /\ fields.blk.ext
      BY <2>1, Suspended DEF WantsExtension, Ordered, Behind, PollBehind
    <2>3. CASE sbuf # 0
      BY <1>1, <2>2, <2>3, TypedFacts DEF TypeInv, FieldsAhead
    <2>4. CASE sbuf = 0
      <3>1. PICK k \in Nat : MapRead(k) /\ Extends(arch, fields.hpos, k)
        BY <2>1, <2>4, Suspended
      <3>2. k = 0
        <4> SUFFICES ASSUME k # 0 PROVE FALSE
          OBVIOUS
        <4>1. PICK j \in Nat : j = k - 1 /\ j \in 0 .. k - 1
          OBVIOUS
        <4>2. Extends(arch, fields.hpos, j)
          BY <3>1, <4>1 DEF Exts, MapRead
        <4>3. fields.hpos \in Nat /\ j * Block \in Nat /\ k * Block = j * Block + Block
          BY <1>3, <4>1, FirstExtends
        <4> DEFINE r == j * Block
                   q == k * Block
        <4>4. r \in Nat /\ q = r + Block
          BY <4>3
        <4> HIDE DEF r, q
        <4>5. PICK o \in Nat : o = fields.hpos + r /\ fields.hpos + q = o + Block
          BY <4>3, <4>4
        <4>6. BlockAt(arch, o).ext /\ BlockAt(arch, o + Block).ext
          BY <3>1, <4>2, <4>5 DEF Extends, r, q
        <4>7. arch \in Archives /\ opt \in Options
          BY DEF TypeInv, TypeOK
        <4> QED
          BY <1>1, <4>6, <4>7 DEF MapsResume
      <3>3. off = fields.fpos
        BY <1>3, <3>1, <3>2, FirstExtends DEF MapRead
      <3> QED
        BY <1>1, <2>4, <3>3 DEF FieldsAhead
    <2> QED
      BY <2>3, <2>4
  <1> QED
    BY <1>2, <1>3

\* Of a block that comes in parts a part is kept.
LEMMA BlockShortAhead ==
  ASSUME TypeInv, Framing, Handed, Ordered, MapAhead, BlockShort
  PROVE  FieldsAhead'
  <1>1. /\ fields' = fields /\ sbuf' > 0
    <2>1. PICK n \in Reads(Block - sbuf) : 0 < n /\ n < Block - sbuf /\ sbuf' = sbuf + n
      BY DEF BlockShort
    <2>2. n \in Nat /\ sbuf \in Nat
      BY <2>1, ReadsBounds, TypedFacts DEF TypeInv
    <2> QED
      BY <2>1, <2>2 DEF BlockShort
  <1>2. CASE pc = "header"
    BY <1>1, <1>2 DEF Handed, FieldsAhead
  <1>3. CASE WantsExtension
    <2>1. fields.blk.kind = "sparse" /\ fields.blk.ext
      BY <1>3, Suspended DEF WantsExtension, Ordered, Behind, PollBehind
    <2> QED
      BY <1>1, <2>1 DEF FieldsAhead
  <1> QED
    BY <1>2, <1>3 DEF BlockShort

LEMMA RestContents ==
  ASSUME MapsResume, TypeInv, Framing, Ordered, Handed, Contents, [Next]_vars, Rest
  PROVE  Contents'
  <1>1. Keeps
    BY RestKeeps
  <1>2. LastAtHand /\ FieldsWhole /\ FieldsAhead /\ MapAhead
    BY DEF Contents
  <1>3. opt' = opt /\ arch' = arch
    BY OffGrows
  <1>4. ASSUME pc' # "idle" \/ done', FieldsAhead', MapAhead' PROVE Contents'
    BY <1>1, <1>4, KeepsContents DEF Contents
  <1>5. ASSUME pc' = "idle", done' PROVE Contents'
    <2>1. FieldsAhead' /\ MapAhead'
      BY <1>5 DEF FieldsAhead, MapAhead
    <2> QED
      BY <1>4, <1>5, <2>1
  <1>6. CASE PollDone \/ UNCHANGED vars
    BY <1>6 DEF PollDone, Contents, LastAtHand, FieldsWhole, FieldsAhead, MapAhead,
                MapRead, PaxSize, Last
  <1>7. CASE Poll
    <2>1. /\ pc' \in {"dispatch", "delta"} /\ UNCHANGED <<fields, off, sbuf>>
          /\ pc = "parked" \/ (pc = "idle" /\ ~done)
      BY <1>7 DEF Poll
    <2>2. FieldsAhead' /\ MapAhead'
      BY <1>2, <2>1 DEF FieldsAhead, MapAhead, Handed
    <2> QED
      BY <1>4, <2>1, <2>2
  <1>8. CASE ComputeDelta \/ SkipRead \/ SkipDone \/ ZeroBlock \/ StartDescriptor
    <2>1. /\ pc' \in {"skip", "seek", "header", "delta", "payload", "panicked"}
             \/ (pc' = "idle" /\ done')
      BY <1>8 DEF ComputeDelta, SkipRead, SkipDone, ZeroBlock, StartDescriptor,
                  NoMoreMembers, Finish, Panic, EndPoll
    <2>2. pc' # "idle" => FieldsAhead' /\ MapAhead'
      BY <2>1 DEF FieldsAhead, MapAhead
    <2> QED
      BY <1>4, <1>5, <2>1, <2>2
  <1>9. CASE SeekDrain \/ SeekSkip
    BY <1>9 DEF SeekDrain, SeekSkip, Framing, Aimed
  <1>10. CASE BlockShort
    <2>1. pc' = "parked"
      BY <1>10 DEF BlockShort, Park, EndPoll
    <2>2. FieldsAhead' /\ MapAhead'
      BY <1>2, <1>10, <2>1, BlockShortAhead DEF MapAhead
    <2> QED
      BY <1>4, <2>1, <2>2
  <1>11. CASE BlockResume
    <2>1. pc' = "panicked"
      BY <1>11 DEF BlockResume, Panic, EndPoll
    <2>2. FieldsAhead' /\ MapAhead'
      BY <2>1 DEF FieldsAhead, MapAhead
    <2> QED
      BY <1>4, <2>1, <2>2
  <1>12. CASE HeaderEof \/ RejectHeader \/ ExtensionEof \/ ReadFails
    <2>1. pc' = "idle" /\ done'
      BY <1>12 DEF HeaderEof, RejectHeader, ExtensionEof, ReadFails, NoMoreMembers,
                   Finish, EndPoll
    <2> QED
      BY <1>5, <2>1
  <1>13. CASE StartSparse
    <2>1. pc' = "sparse" \/ (pc' = "idle" /\ done')
      BY <1>13 DEF StartSparse, Finish, EndPoll
    <2>2. pc' = "sparse" => FieldsAhead' /\ MapAhead'
      BY <1>2, <1>13, StartSparseMap DEF FieldsAhead
    <2> QED
      BY <1>4, <1>5, <2>1, <2>2
  <1>14. CASE AddSparseBlock
    <2>1. CASE pc' = "idle" /\ done'
      BY <1>5, <2>1
    <2>2. CASE ~(pc' = "idle" /\ done')
      <3> DEFINE d == Head(scan.todo)
      <3>1. /\ scan' = [scan EXCEPT !.todo = Tail(@), !.cur = d.offset + d.len,
                                    !.remaining = @ - d.len]
            /\ UNCHANGED <<pc, off, sbuf, fields>> /\ pc = "sparse"
        BY <1>14, <2>2 DEF AddSparseBlock, Finish, EndPoll
      <3>2. scan'.more = scan.more
        BY <3>1, TypedFacts DEF TypeInv, ScanType
      <3>3. FieldsAhead' /\ MapAhead'
        BY <1>2, <1>3, <3>1, <3>2 DEF FieldsAhead, MapAhead, MapRead
      <3> QED
        BY <1>4, <3>1, <3>3
    <2> QED
      BY <2>1, <2>2
  <1>15. CASE ReadExtension
    <2>1. pc' = "sparse"
      BY <1>15 DEF ReadExtension, WantsExtension
    <2>2. FieldsAhead' /\ MapAhead'
      BY <1>2, <1>15, <2>1, ReadExtensionMap DEF FieldsAhead
    <2> QED
      BY <1>4, <2>1, <2>2
  <1>16. CASE ReadPending
    <2>1. pc' = "parked"
      BY <1>16 DEF ReadPending, Park, EndPoll
    <2>2. FieldsAhead' /\ MapAhead'
      BY <1>2, <1>16, <2>1, ReadPendingAhead DEF MapAhead
    <2> QED
      BY <1>4, <2>1, <2>2
  <1> QED
    BY <1>6, <1>7, <1>8, <1>9, <1>10, <1>11, <1>12, <1>13, <1>14, <1>15, <1>16 DEF Rest

-----------------------------------------------------------------------------
(***************************************************************************)
(* Steps that find, keep or hand over something                            *)
(***************************************************************************)

\* An entry nothing has been read of is handed over at the start of its data.
LEMMA AppendContents ==
  ASSUME TypeInv, Contents, NEW e, e.got = <<>>, out' = Append(out, e),
         off' = Start(arch, opt.raw, e), e.left = Owed(e), arch' = arch, opt' = opt
  PROVE  LastAtHand' /\ (\A i \in DOMAIN out : InOrder(arch, opt.raw, out[i]))'
  <1>0. out \in Seq(EntryType)
    BY TypedFacts DEF TypeInv
  <1>1. /\ Last' = e /\ DOMAIN out' = DOMAIN out \cup {Len(out) + 1}
        /\ \A i \in DOMAIN out : out'[i] = out[i]
        /\ out'[Len(out) + 1] = e
    BY <1>0 DEF Last
  <1>2. InOrder(arch, opt.raw, e)
    BY DEF InOrder
  <1>3. \A i \in DOMAIN out' : InOrder(arch', opt'.raw, out'[i])
    BY <1>1, <1>2 DEF Contents
  <1>4. LastAtHand'
    BY <1>1 DEF LastAtHand
  <1> QED
    BY <1>3, <1>4

LEMMA ReadMemberContents ==
  ASSUME TypeInv, Framing, Ordered, Handed, Contents, ReadMember PROVE Contents'
  <1> DEFINE b == BlockAt(arch, off)
             e == EntryOf(b)
  <1>1. /\ off = next /\ off' = off + Block /\ off \in Nat /\ sbuf = 0
        /\ fields = None
        /\ UNCHANGED <<sbuf, pax, arch, opt>>
    BY AfterBlock DEF ReadMember, Framing, Aimed, Handed
  <1>2. /\ e.fpos = off' /\ e.got = <<>> /\ e.blk = b /\ e.left = MemberSize(b, PaxSize)
        /\ e.pax = None
    BY <1>1 DEF EntryOf
  <1>3. PaxSize' = PaxSize
    BY <1>1 DEF PaxSize
  <1>4. CASE opt.raw
    <2>1. out' = Append(out, e) /\ fields' = None /\ pc' = "idle"
      BY <1>1, <1>4 DEF ReadMember, Yield, EndPoll
    <2> HIDE DEF e, b
    <2>2. off' = Start(arch, opt.raw, e) /\ e.left = Owed(e)
      BY <1>2, <1>4 DEF Start, Owed, PaxSize
    <2>3. LastAtHand' /\ (\A i \in DOMAIN out : InOrder(arch, opt.raw, out[i]))'
      BY <1>1, <1>2, <2>1, <2>2, AppendContents
    <2> QED
      BY <2>1, <2>3 DEF Contents, FieldsWhole, FieldsAhead, MapAhead
  <1>5. CASE ~opt.raw
    <2>1. out' = out /\ fields' = e /\ pc' = "dispatch"
      BY <1>5 DEF ReadMember
    <2> HIDE DEF e, b
    <2>2. FieldsWhole' /\ FieldsAhead'
      BY <1>1, <1>2, <1>3, <2>1 DEF FieldsWhole, FieldsAhead
    <2>3. LastAtHand' /\ MapAhead'
      BY <2>1 DEF LastAtHand, MapAhead
    <2> QED
      BY <1>1, <2>1, <2>2, <2>3 DEF Contents
  <1> QED
    BY <1>4, <1>5

\* A payload is read of a descriptor, which is not handed over.
LEMMA PayloadContents ==
  ASSUME TypeInv, Framing, Handed, Contents, [Next]_vars, PayloadRead \/ PayloadDone
  PROVE  Contents'
  <1>1. /\ pc = "payload" /\ fields # None /\ IsDescriptor(fields.blk) /\ out' = out
        /\ pc' \in {"payload", "delta"}
    BY DEF PayloadRead, PayloadDone, TypeInv, HasFields, Handed
  <1>2. fields' = None \/ IsDescriptor(fields'.blk)
    <2>1. CASE PayloadRead
      <3>1. PICK n : fields' = [fields EXCEPT !.left = @ - n]
        BY <2>1 DEF PayloadRead
      <3>2. fields'.blk = fields.blk
        BY <1>1, <3>1, FieldsTypes DEF EntryType
      <3> QED
        BY <1>1, <3>2
    <2>2. CASE PayloadDone
      BY <2>2 DEF PayloadDone
    <2> QED
      BY <2>1, <2>2
  <1>3. opt' = opt /\ arch' = arch
    BY OffGrows
  <1> QED
    BY <1>1, <1>2, <1>3 DEF Contents, LastAtHand, FieldsWhole, FieldsAhead, MapAhead

LEMMA CallEntriesContents ==
  ASSUME TypeInv, Framing, Ordered, Contents, CallEntries PROVE Contents'
  <1>1. /\ fields' = None /\ out' = out /\ pc' = "idle" /\ off = 0
        /\ UNCHANGED <<arch, opt>>
    BY DEF CallEntries, Framing, InStep
  <1>2. out = <<>>
    BY <1>1, NothingYet
  <1> QED
    BY <1>1, <1>2 DEF Contents, LastAtHand, FieldsWhole, FieldsAhead, MapAhead

\* The member is handed over at the start of its data.
LEMMA HandOverContents ==
  ASSUME TypeInv, Framing, Ordered, Contents, fields # None,
         ~IsDescriptor(fields.blk), NEW size, YieldMember(size),
         off' = off, arch' = arch, opt' = opt,
         off = Start(arch, opt.raw, fields)
  PROVE  Contents'
  <1> DEFINE e == [fields EXCEPT !.size = size, !.long = longname,
                                 !.link = longlink, !.pax = pax]
  <1>1. out' = Append(out, e) /\ fields' = None /\ pc' = "idle"
    BY DEF YieldMember, Yield, EndPoll
  <1>2. /\ e.blk = fields.blk /\ e.hpos = fields.hpos /\ e.fpos = fields.fpos
        /\ e.left = fields.left /\ e.got = fields.got /\ e.pax = pax
    BY FieldsTypes DEF EntryType
  <1> HIDE DEF e
  <1>3. ~opt.raw
    BY DEF Ordered, Behind, RawPlain
  <1>4. e.got = <<>> /\ e.left = Owed(e)
    BY <1>2, <1>3 DEF Contents, FieldsWhole, Owed, PaxSize
  <1>5. off' = Start(arch, opt.raw, e)
    <2>1. Start(arch, opt.raw, e) = Start(arch, opt.raw, fields)
      BY <1>2 DEF Start
    <2> QED
      BY <2>1
  <1>6. LastAtHand' /\ (\A i \in DOMAIN out : InOrder(arch, opt.raw, out[i]))'
    BY <1>1, <1>4, <1>5, AppendContents
  <1> QED
    BY <1>1, <1>6 DEF Contents, FieldsWhole, FieldsAhead, MapAhead

LEMMA YieldPlainContents ==
  ASSUME TypeInv, Framing, Ordered, Contents, YieldPlain PROVE Contents'
  <1>1. /\ pc = "dispatch" /\ fields # None /\ ~IsDescriptor(fields.blk)
        /\ fields.blk.kind # "sparse" /\ YieldMember(fields.size)
        /\ UNCHANGED <<off, arch, opt>>
    BY DEF YieldPlain, TypeInv, HasFields
  <1>2. off = fields.fpos
    BY <1>1 DEF Contents, FieldsAhead
  <1>3. off = Start(arch, opt.raw, fields)
    BY <1>1, <1>2 DEF Start
  <1> QED
    BY <1>1, <1>3, HandOverContents

LEMMA SparseDoneContents ==
  ASSUME TypeInv, Framing, Ordered, Handed, Contents, SparseDone PROVE Contents'
  <1>1. /\ pc = "sparse" /\ fields # None /\ ~IsDescriptor(fields.blk)
        /\ fields.blk.kind = "sparse" /\ ~scan.more
        /\ UNCHANGED <<off, arch, opt>>
    BY DEF SparseDone, TypeInv, HasFields, Handed, Ordered, Behind, PollBehind
  <1>2. CASE YieldMember(scan.cur)
    <2>1. PICK k \in Nat : MapRead(k)
      BY <1>1 DEF Contents, MapAhead
    <2>2. off = fields.fpos + k * Block /\ Exts(arch, fields.hpos, k)
          /\ ~Extends(arch, fields.hpos, k)
      BY <1>1, <2>1 DEF MapRead
    <2>3. arch \in ArchiveType /\ fields \in EntryType /\ opt.raw = FALSE
      <3>1. opt \in OptionType
        BY EnvironmentAssumption DEF TypeInv, TypeOK
      <3>2. opt.raw \in BOOLEAN
        BY <3>1 DEF OptionType
      <3> QED
        BY <1>1, <3>2, ArchType, FieldsTypes DEF TypeInv, Ordered, Behind, RawPlain
    <2>4. off = Start(arch, opt.raw, fields)
      BY <1>1, <2>2, <2>3, StartsAt
    <2> QED
      BY <1>1, <1>2, <2>4, HandOverContents
  <1>3. CASE ~YieldMember(scan.cur)
    <2>1. pc' = "idle" /\ done' /\ fields' = fields /\ out' = out /\ pax' = pax
      BY <1>3 DEF SparseDone, Finish, EndPoll
    <2> QED
      BY <1>1, <2>1 DEF Contents, LastAtHand, FieldsWhole, FieldsAhead, MapAhead, PaxSize
  <1> QED
    BY <1>2, <1>3

\* Reading goes on where it stopped, or begins where the reader stands.
LEMMA DeliverOne ==
  ASSUME NEW got \in Seq(Run), NEW n \in Nat, off \in Nat,
         got = <<>> \/ (Len(got) = 1 /\ got[1].to = off)
  PROVE  /\ Len(Deliver(got, n)) = 1 /\ Deliver(got, n)[1].to = off + n
         /\ got = <<>> => Deliver(got, n)[1].from = off
         /\ got # <<>> => Deliver(got, n)[1].from = got[1].from
  <1>1. CASE got = <<>>
    <2>1. Deliver(got, n) = <<[from |-> off, to |-> off + n]>>
      BY <1>1 DEF Deliver
    <2> QED
      BY <1>1, <2>1
  <1>2. CASE Len(got) = 1 /\ got[1].to = off
    <2>1. got[1] \in Run /\ 1 \in DOMAIN got
      BY <1>2
    <2>2. Deliver(got, n) = [got EXCEPT ![1] = [got[1] EXCEPT !.to = off + n]]
      BY <1>2 DEF Deliver
    <2> DEFINE r == [got[1] EXCEPT !.to = off + n]
    <2>3. r.to = off + n /\ r.from = got[1].from
      BY <2>1 DEF Run
    <2> HIDE DEF r
    <2>4. Deliver(got, n) = [got EXCEPT ![1] = r]
      BY <2>2 DEF r
    <2>5. Len(Deliver(got, n)) = 1 /\ Deliver(got, n)[1] = r
      BY <1>2, <2>1, <2>4
    <2> QED
      BY <1>2, <2>3, <2>5
  <1> QED
    BY <1>1, <1>2

LEMMA ReadEntryContents ==
  ASSUME ~OutOfOrder, TypeInv, Framing, Handed, Contents, [Next]_vars,
         NEW i \in DOMAIN out, ReadEntry(i)
  PROVE  Contents'
  <1>1. PICK n \in 1 .. Min2(out[i].left, Avail) :
          /\ off' = off + n
          /\ out' = [out EXCEPT ![i].left = @ - n, ![i].got = Deliver(@, n)]
    BY DEF ReadEntry, Advance
  <1>2. /\ pc = "idle" /\ ~done /\ i = Len(out) /\ out # <<>> /\ fields = None
        /\ UNCHANGED <<pc, fields, done>>
    BY DEF ReadEntry, Handed
  <1>3. arch' = arch /\ opt' = opt
    BY OffGrows
  <1>4. /\ out \in Seq(EntryType) /\ out[i] \in EntryType /\ out[i].left \in Nat
        /\ out[i].got \in Seq(Run) /\ n \in Nat /\ off \in Nat
    <2>1. out \in Seq(EntryType) /\ out[i] \in EntryType /\ off \in Nat
      BY TypedFacts DEF TypeInv
    <2>2. out[i].left \in Nat /\ out[i].got \in Seq(Run)
      BY <2>1 DEF EntryType
    <2>3. Avail \in Nat
      BY <2>1, ArchType DEF TypeInv, Avail
    <2> QED
      BY <1>1, <2>1, <2>2, <2>3 DEF Min2
  <1> DEFINE e == out[i]
             l == e.left - n
             g == Deliver(e.got, n)
             f == [e EXCEPT !.left = l, !.got = g]
  <1>5. /\ out' = [out EXCEPT ![i] = f]
        /\ f.left = l /\ f.got = g /\ f.blk = e.blk /\ f.hpos = e.hpos
        /\ f.fpos = e.fpos /\ f.pax = e.pax
    BY <1>1, <1>4 DEF EntryType
  <1>6. Last = e
    BY <1>2 DEF Last
  <1>7. \/ e.got = <<>> /\ off = Start(arch, opt.raw, e) /\ e.left = Owed(e)
        \/ Len(e.got) = 1 /\ e.got[1].to = off
    BY <1>2, <1>6 DEF Contents, LastAtHand
  <1>8. /\ Len(g) = 1 /\ g[1].to = off + n
        /\ e.got = <<>> => g[1].from = off
        /\ e.got # <<>> => g[1].from = e.got[1].from
    BY <1>4, <1>7, DeliverOne
  <1>9. l = e.left - n
    OBVIOUS
  <1> HIDE DEF f, g, l
  <1>10. Last' = f /\ DOMAIN out' = DOMAIN out
         /\ \A j \in DOMAIN out : out'[j] = IF j = i THEN f ELSE out[j]
    BY <1>2, <1>4, <1>5 DEF Last
  <1>11. Start(arch, opt.raw, f) = Start(arch, opt.raw, e) /\ Owed(f) = Owed(e)
    BY <1>5 DEF Start, Owed
  <1>12. InOrder(arch, opt.raw, f)
    <2>1. CASE e.got = <<>>
      <3>1. off = Start(arch, opt.raw, e) /\ e.left = Owed(e)
        BY <1>7, <2>1
      <3>2. g[1].to + l = off + Owed(e) /\ g[1].from = off
        BY <1>4, <1>8, <1>9, <2>1, <3>1
      <3> QED
        BY <1>5, <1>8, <1>11, <3>1, <3>2 DEF InOrder
    <2>2. CASE e.got # <<>>
      <3>1. /\ Len(e.got) = 1 /\ e.got[1].from = Start(arch, opt.raw, e)
            /\ e.got[1].to + e.left = Start(arch, opt.raw, e) + Owed(e)
        BY <2>2 DEF Contents, InOrder
      <3>2. e.got[1].to = off
        BY <1>7, <2>2
      <3>3. g[1].to + l = e.got[1].to + e.left /\ g[1].from = e.got[1].from
        BY <1>4, <1>8, <1>9, <2>2, <3>2
      <3> QED
        BY <1>5, <1>8, <1>11, <3>1, <3>3 DEF InOrder
    <2> QED
      BY <2>1, <2>2
  <1>13. (\A j \in DOMAIN out : InOrder(arch, opt.raw, out[j]))'
    BY <1>3, <1>10, <1>12 DEF Contents
  <1>14. LastAtHand'
    BY <1>1, <1>5, <1>8, <1>10 DEF LastAtHand
  <1> QED
    BY <1>2, <1>13, <1>14 DEF Contents, FieldsWhole, FieldsAhead, MapAhead

LEMMA ContentsStep ==
  ASSUME ~OutOfOrder, MapsResume, TypeInv, Framing, Ordered, Handed, Contents, [Next]_vars
  PROVE  Contents'
  BY RestContents, ReadMemberContents, PayloadContents, CallEntriesContents,
     YieldPlainContents, SparseDoneContents, ReadEntryContents
     DEF Next, ReaderStep, PollStep, Rest

LEMMA ContentsInit == Init => Contents
  BY DEF Init, Contents, LastAtHand, FieldsWhole, FieldsAhead, MapAhead

\* Where the data of an entry starts is where the property says.
LEMMA StartIs == ASSUME NEW e PROVE DataStart(e) = Start(arch, opt.raw, e)
  BY Zenon DEF DataStart, Start, Extends, Exts

(***************************************************************************)
(* A caller that reads each entry before it asks for the next gets the     *)
(* bytes of that member, from the first one on and without a gap, and as   *)
(* many are left as the header or the pax record says, over any reader     *)
(* that does not interrupt the reading of a long sparse map                *)
(* (archive.rs:374-406, 490-600).                                          *)
(***************************************************************************)
THEOREM ContentsCorrect ==
  ASSUME SeekFree, ~OutOfOrder, MapsResume PROVE Spec => []ContentsInOrder
  <1>1. TypeInv /\ Framing /\ Ordered /\ Handed /\ Contents /\ [Next]_vars => Contents'
    BY ContentsStep
  <1>2. Contents => ContentsInOrder
    BY StartIs DEF Contents, InOrder, Owed, ContentsInOrder
  <1> QED
    BY <1>1, <1>2, ContentsInit, TypeCorrect, FramingCorrect, OrderedCorrect,
       HandedCorrect, PTL DEF Spec
-----------------------------------------------------------------------------
(***************************************************************************)
(* Proofs about EntriesStream over a reader that fills the buffers it is   *)
(* given, an archive of whole blocks, and a caller that reads each entry   *)
(* before it asks for the next: no poll loses its wakeup, no poll panics.  *)
(* Both fail without these hypotheses: a block that comes in two parts is  *)
(* answered by a Pending without a waker, and then by a panic.             *)
(***************************************************************************)

\* Whole blocks.
Grid(n) == \E k \in 0 .. n : n = k * Block

\* The reader fills every buffer as far as the archive goes, the archive is
\* not cut inside a block, and entries are read while they are the last one.
FillsBlocks ==
    /\ ~ShortReads /\ ~OutOfOrder
    /\ \A a \in Archives : Grid(a.len)

Fits(n) == n = None \/ RoundUp(n) <= SkipBuf

\* In a build that traps overflow no member is larger than the buffer of
\* poll_skip, which is cut to amt and not to rem.
MembersFit ==
    \A o \in Options : o.checks =>
        \A a \in Archives : \A k \in DOMAIN a.blocks :
            Fits(a.blocks[k].size) /\ Fits(a.blocks[k].pax)

\* Blocks are read from the grid only, so that none comes in parts.
Gridded ==
    /\ sbuf = 0 /\ Grid(next)
    /\ fields # None /\ ~IsDescriptor(fields.blk) => Grid(off)

Filled == Gridded /\ NoLostWakeup

\* The reader is never past the next header, and never further from it than
\* one round of the skip loop.
Within ==
    /\ off <= next /\ next - off <= SkipBuf
    /\ fields # None => off + fields.left <= next
    /\ pc = "idle" /\ out # <<>> => off + Last.left <= next
    /\ pc = "skip" =>
        /\ call.rem = next - off
        /\ call.rem = call.amt \/ call.rem = 0 \/ Avail = 0

\* The sizes that reach a header are those of the archive.
Sizes ==
    /\ pax # None => Fits(pax.size)
    /\ fields # None => Fits(fields.blk.pax)

Reached == opt.checks => (~done => Within) /\ Sizes

-----------------------------------------------------------------------------
(***************************************************************************)
(* Whole blocks                                                            *)
(***************************************************************************)

\* A factor is no larger than the product.
LEMMA Multiple ==
  ASSUME NEW k \in Nat, NEW n \in Nat, n = k * Block PROVE Grid(n)
  <1>1. k <= n
    <2>1. Block >= 1 /\ Block \in Nat
      OBVIOUS
    <2>2. k * (Block - 1) \in Nat
      BY <2>1
    <2>3. n = k * (Block - 1) + k
      BY <2>1
    <2> QED
      BY <2>2, <2>3
  <1> QED
    BY <1>1 DEF Grid

LEMMA GridSum ==
  ASSUME NEW m \in Nat, NEW n \in Nat, Grid(m), Grid(n) PROVE Grid(m + n)
  <1>1. PICK i \in 0 .. m, j \in 0 .. n : m = i * Block /\ n = j * Block
    BY DEF Grid
  <1>2. m + n = (i + j) * Block
    BY <1>1
  <1>3. i + j \in Nat /\ m + n \in Nat
    BY <1>1
  <1> QED
    BY <1>2, <1>3, Multiple

LEMMA GridStart == Grid(0) /\ Grid(Block)
  <1>1. 0 = 0 * Block /\ Block = 1 * Block
    OBVIOUS
  <1> QED
    BY <1>1, Multiple

\* Between two points of the grid there is room for a block.
LEMMA GridGap ==
  ASSUME NEW m \in Nat, NEW n \in Nat, Grid(m), Grid(n), m < n
  PROVE  m + Block <= n
  <1>1. PICK i \in 0 .. m, j \in 0 .. n : m = i * Block /\ n = j * Block
    BY DEF Grid
  <1> DEFINE d == j - i
  <1>2. d \in Int /\ n - m = d * Block
    BY <1>1
  <1> HIDE DEF d
  <1>3. CASE d <= 0
    <2>1. d * Block <= 0
      BY <1>2, <1>3
    <2> QED
      BY <1>2, <2>1
  <1>4. CASE d >= 1
    <2>1. d * Block >= Block
      BY <1>2, <1>4
    <2> QED
      BY <1>2, <2>1
  <1> QED
    BY <1>2, <1>3, <1>4

\* Padding leads to the grid, and not back.
LEMMA RoundUpGrid ==
  ASSUME NEW n \in Nat
  PROVE  RoundUp(n) \in Nat /\ Grid(RoundUp(n)) /\ n <= RoundUp(n)
  <1> DEFINE q == (n + Block - 1) \div Block
  <1>1. q \in Nat
    OBVIOUS
  <1>2. q * Block \in Nat
    BY <1>1
  <1>3. n + Block - 1 < (q + 1) * Block
    OBVIOUS
  <1> HIDE DEF q
  <1>4. (q + 1) * Block = q * Block + Block
    BY <1>1
  <1>5. Grid(q * Block)
    BY <1>1, <1>2, Multiple
  <1>6. n <= q * Block
    BY <1>2, <1>3, <1>4
  <1>7. RoundUp(n) = q * Block
    BY DEF RoundUp, q
  <1> QED
    BY <1>2, <1>5, <1>6, <1>7

-----------------------------------------------------------------------------
(***************************************************************************)
(* No block comes in parts                                                 *)
(***************************************************************************)

\* A reader that fills its buffer returns what there is room for.
LEMMA ReadsFull ==
  ASSUME FillsBlocks, NEW cap, NEW n \in Reads(cap) PROVE n = Min2(cap, Avail)
  BY DEF FillsBlocks, Reads

\* On the grid there is a whole block to come, or nothing.
LEMMA WholeAhead ==
  ASSUME FillsBlocks, TypeInv, Grid(off) PROVE Avail = 0 \/ Block <= Avail
  <1>1. arch \in Archives /\ arch.len \in Nat /\ off \in Nat /\ Grid(arch.len)
    BY ArchType, TypedFacts DEF TypeInv, TypeOK, FillsBlocks
  <1>2. off < arch.len => off + Block <= arch.len
    BY <1>1, GridGap
  <1> QED
    BY <1>1, <1>2 DEF Avail

\* Where a block is read the reader is on the grid.
LEMMA BlocksOnGrid ==
  ASSUME TypeInv, Framing, Handed, Filled, pc = "header" \/ WantsExtension PROVE Grid(off)
  <1>1. CASE pc = "header"
    BY <1>1 DEF Framing, Aimed, Filled, Gridded
  <1>2. CASE WantsExtension
    BY <1>2 DEF WantsExtension, TypeInv, HasFields, Filled, Gridded, Handed
  <1> QED
    BY <1>1, <1>2

LEMMA NoPartBlock ==
  ASSUME FillsBlocks, TypeInv, Framing, Handed, Filled PROVE ~BlockShort /\ ~BlockResume
  <1>1. sbuf = 0 /\ Block - 0 = Block
    BY DEF Filled, Gridded
  <1>2. ~BlockResume
    BY <1>1 DEF BlockResume
  <1>3. ASSUME BlockShort PROVE FALSE
    <2>1. PICK n \in Reads(Block - sbuf) : 0 < n /\ n < Block - sbuf
      BY <1>3 DEF BlockShort
    <2>2. n = Min2(Block, Avail)
      BY <1>1, <2>1, ReadsFull
    <2>3. Avail = 0 \/ Block <= Avail
      BY <1>3, BlocksOnGrid, WholeAhead DEF BlockShort
    <2> QED
      BY <1>1, <2>1, <2>2, <2>3 DEF Min2
  <1> QED
    BY <1>2, <1>3

\* A block that is read leads from the grid to the grid.
LEMMA BlockKeepsGrid ==
  ASSUME TypeInv, Framing, Handed, Filled, NEW b, BlockRead(b), pc = "header" \/ WantsExtension
  PROVE  Grid(off') /\ off' = off + Block /\ Grid(next + Block)
  <1>1. Grid(off) /\ off \in Nat /\ next \in Nat /\ Grid(next)
    BY BlocksOnGrid, TypedFacts DEF TypeInv, Filled, Gridded
  <1>2. Grid(off + Block) /\ Grid(next + Block)
    BY <1>1, GridSum, GridStart
  <1> QED
    BY <1>2 DEF BlockRead, Advance

\* A poll that ends the stream leaves nothing to go on from.
LEMMA FinishFilled ==
  ASSUME Handed, Filled, NEW r, Finish(r), sbuf' = sbuf, fields' = fields,
         Grid(next'), fields = None \/ off' = off
  PROVE  Filled'
  BY DEF Finish, EndPoll, Filled, Gridded, Handed, NoLostWakeup

LEMMA ReadMemberFilled ==
  ASSUME TypeInv, Framing, Ordered, Handed, Filled, ReadMember PROVE Filled'
  <1> DEFINE b == BlockAt(arch, off)
             e == EntryOf(b)
  <1>1. Grid(off') /\ Grid(next + Block) /\ next + Block \in Nat /\ sbuf' = 0
    <2>1. BlockRead(b) /\ pc = "header" /\ sbuf' = sbuf
      BY DEF ReadMember
    <2> QED
      BY <2>1, BlockKeepsGrid, TypedFacts DEF TypeInv, Filled, Gridded
  <1>2. e.size \in Nat
    BY TypedFacts, EntryOfType, BlockAtType, ArchType DEF ReadMember, TypeInv
  <1>3. next' = next + Block + RoundUp(e.size)
    BY DEF ReadMember, AfterMember
  <1>4. Grid(next')
    BY <1>1, <1>2, <1>3, RoundUpGrid, GridSum
  <1>5. \/ pc' = "idle" /\ fields' = fields
        \/ pc' = "dispatch" /\ fields' = e
    BY DEF ReadMember, Yield, EndPoll
  <1>6. fields = None
    BY DEF ReadMember, Filled, Handed
  <1> HIDE DEF e, b
  <1> QED
    BY <1>1, <1>4, <1>5, <1>6 DEF Filled, Gridded, Handed, NoLostWakeup

LEMMA ExtensionFilled ==
  ASSUME TypeInv, Framing, Handed, Filled, ReadExtension PROVE Filled'
  <1>1. PICK b : BlockRead(b)
    BY DEF ReadExtension
  <1>2. WantsExtension /\ next' = next + Block
        /\ UNCHANGED <<sbuf, fields, pc, waker, done>>
    BY DEF ReadExtension
  <1>3. Grid(off') /\ Grid(next')
    BY <1>1, <1>2, BlockKeepsGrid
  <1> QED
    BY <1>2, <1>3 DEF Filled, Gridded, Handed, NoLostWakeup

\* The member at hand stays what it is while its payload is read.
LEMMA PayloadReadFilled ==
  ASSUME TypeInv, Handed, Filled, PayloadRead PROVE Filled'
  <1>1. PICK n : fields' = [fields EXCEPT !.left = @ - n]
    BY DEF PayloadRead
  <1>2. fields \in EntryType
    BY FieldsTypes DEF PayloadRead, TypeInv, HasFields
  <1>3. fields'.blk = fields.blk
    BY <1>1, <1>2 DEF EntryType
  <1>4. pc = "payload" /\ UNCHANGED <<sbuf, next, pc, waker, done>>
    BY DEF PayloadRead
  <1> QED
    BY <1>3, <1>4 DEF Filled, Gridded, Handed, NoLostWakeup

\* Headers that are not members.
LEMMA HeaderFilled ==
  ASSUME TypeInv, Framing, Handed, Filled, ZeroBlock \/ RejectHeader \/ HeaderEof PROVE Filled'
  <1>1. fields = None /\ fields' = fields /\ sbuf' = sbuf /\ pc = "header" /\ Grid(next)
    BY DEF ZeroBlock, RejectHeader, HeaderEof, Filled, Gridded, Handed
  <1>2. CASE ZeroBlock
    <2>1. PICK b : BlockRead(b)
      BY <1>2 DEF ZeroBlock
    <2>2. Grid(next + Block)
      BY <1>1, <2>1, BlockKeepsGrid
    <2>3. \/ next' = next + Block /\ pc' = "delta"
          \/ next' = next /\ NoMoreMembers
      BY <1>2 DEF ZeroBlock
    <2>4. CASE next' = next /\ NoMoreMembers
      BY <1>1, <2>4, FinishFilled DEF NoMoreMembers
    <2>5. CASE next' = next + Block /\ pc' = "delta"
      BY <1>1, <2>2, <2>5 DEF Filled, Gridded, Handed, NoLostWakeup
    <2> QED
      BY <2>3, <2>4, <2>5
  <1>3. CASE RejectHeader
    <2>1. PICK b : BlockRead(b)
      BY <1>3 DEF RejectHeader
    <2>2. Grid(next') /\ Finish("error")
      BY <1>1, <1>3, <2>1, BlockKeepsGrid DEF RejectHeader
    <2> QED
      BY <1>1, <2>2, FinishFilled
  <1>4. CASE HeaderEof
    <2>1. next' = next /\ \E r : Finish(r)
      BY <1>4 DEF HeaderEof, NoMoreMembers
    <2> QED
      BY <1>1, <2>1, FinishFilled
  <1> QED
    BY <1>2, <1>3, <1>4

LEMMA FilledStep ==
  ASSUME FillsBlocks, TypeInv, Framing, Ordered, Handed, Filled, opt.seek = "none", [Next]_vars
  PROVE  Filled'
  <1> USE DEF Filled, Gridded, Handed, NoLostWakeup
  <1>1. CASE Poll
    <2>1. UNCHANGED <<off, sbuf, next, fields, done>> /\ ~done
      BY <1>1 DEF Poll
    <2>2. \/ pc' = "dispatch"
          \/ pc' = "delta" /\ (opt.raw \/ fields = None)
      BY <1>1 DEF Poll
    <2>3. opt.raw => fields = None
      BY DEF Ordered, Behind, RawPlain
    <2> QED
      BY <2>1, <2>2, <2>3
  <1>2. CASE PollDone \/ UNCHANGED vars
    BY <1>2 DEF PollDone
  <1>3. CASE CallEntries
    BY <1>3, GridStart DEF CallEntries
  <1>4. ASSUME NEW i \in DOMAIN out, ReadEntry(i) PROVE Filled'
    BY <1>4 DEF ReadEntry, FillsBlocks
  <1>5. CASE ComputeDelta
    BY <1>5 DEF ComputeDelta, Panic, EndPoll
  <1>6. CASE SkipRead
    BY <1>6 DEF SkipRead, Panic, Finish, EndPoll
  <1>7. CASE SkipDone
    BY <1>7 DEF SkipDone
  <1>8. CASE SeekDrain \/ SeekSkip
    BY <1>8 DEF SeekDrain, SeekSkip, Framing, Aimed
  <1>9. CASE BlockShort \/ BlockResume
    BY <1>9, NoPartBlock
  <1>10. CASE ZeroBlock \/ RejectHeader \/ HeaderEof
    BY <1>10, HeaderFilled
  <1>11. CASE ReadMember
    BY <1>11, ReadMemberFilled
  <1>12. CASE StartDescriptor
    BY <1>12 DEF StartDescriptor
  <1>13. CASE PayloadRead
    BY <1>13, PayloadReadFilled
  <1>14. CASE PayloadDone
    BY <1>14 DEF PayloadDone
  <1>15. CASE YieldPlain
    BY <1>15 DEF YieldPlain, YieldMember, Yield, EndPoll
  <1>16. CASE StartSparse
    BY <1>16 DEF StartSparse, Finish, EndPoll
  <1>17. CASE AddSparseBlock
    BY <1>17 DEF AddSparseBlock, Finish, EndPoll
  <1>18. CASE ExtensionEof \/ ReadFails
    BY <1>18 DEF ExtensionEof, ReadFails, Finish, EndPoll
  <1>19. CASE ReadExtension
    BY <1>19, ExtensionFilled
  <1>20. CASE SparseDone
    BY <1>20 DEF SparseDone, YieldMember, Yield, Finish, EndPoll
  <1>21. CASE ReadPending
    BY <1>21 DEF ReadPending, AtRead, WantsExtension, Park, EndPoll
  <1> QED
    BY <1>1, <1>2, <1>3, <1>4, <1>5, <1>6, <1>7, <1>8, <1>9, <1>10, <1>11, <1>12, <1>13,
       <1>14, <1>15, <1>16, <1>17, <1>18, <1>19, <1>20, <1>21
       DEF Next, ReaderStep, PollStep

LEMMA FilledInit == Init => Filled
  BY GridStart DEF Init, Filled, Gridded, Handed, NoLostWakeup

\* Nothing seeks, whatever the option at hand.
LEMMA NoSeek == ASSUME SeekFree, TypeInv PROVE opt.seek = "none"
  BY DEF SeekFree, TypeInv, TypeOK

LEMMA FilledCorrect == ASSUME SeekFree, FillsBlocks PROVE Spec => []Filled
  <1>1. TypeInv /\ Framing /\ Ordered /\ Handed /\ Filled /\ [Next]_vars => Filled'
    BY FilledStep, NoSeek
  <1> QED
    BY <1>1, FilledInit, TypeCorrect, FramingCorrect, OrderedCorrect, HandedCorrect,
       PTL DEF Spec

(***************************************************************************)
(* Over a reader that fills its buffers and an archive of whole blocks,    *)
(* every poll that returns Pending has left its waker with the reader:     *)
(* poll_try_read_all, which forgets it after a short read                  *)
(* (archive.rs:806-809), never sees one.                                   *)
(***************************************************************************)
THEOREM WakeupCorrect ==
  ASSUME SeekFree, FillsBlocks PROVE Spec => []NoLostWakeup
  <1>1. Filled => NoLostWakeup
    BY DEF Filled
  <1> QED
    BY <1>1, FilledCorrect, PTL

-----------------------------------------------------------------------------
(***************************************************************************)
(* No poll overshoots the next header                                      *)
(***************************************************************************)

\* No block of the archive announces a member that does not fit.
LEMMA BlockFits ==
  ASSUME MembersFit, TypeInv, opt.checks, NEW o
  PROVE  Fits(BlockAt(arch, o).size) /\ Fits(BlockAt(arch, o).pax)
  <1>1. arch \in Archives /\ opt \in Options
    BY DEF TypeInv, TypeOK
  <1>2. \/ \E k \in DOMAIN arch.blocks : BlockAt(arch, o) = arch.blocks[k]
        \/ BlockAt(arch, o) = Garbage
    BY DEF BlockAt
  <1>3. Garbage.size = None /\ Garbage.pax = None
    BY DEF Garbage
  <1> QED
    BY <1>1, <1>2, <1>3 DEF MembersFit, Fits

\* A header leads to the end of its member, and the member fits.
LEMMA ReadMemberReached ==
  ASSUME MembersFit, TypeInv, Framing, Reached, opt.checks, ReadMember, ~done,
         fields = None
  PROVE  Within' /\ Sizes'
  <1> DEFINE b == BlockAt(arch, off)
             e == EntryOf(b)
  <1>1. /\ off = next /\ off' = off + Block /\ off \in Nat /\ pc = "header"
        /\ pax' = pax
    BY AfterBlock DEF ReadMember, Framing, Aimed
  <1>2. e.size \in Nat /\ e.left = e.size /\ e.blk = b /\ e \in EntryType
    BY TypedFacts, EntryOfType, BlockAtType, ArchType DEF ReadMember, TypeInv, EntryOf
  <1>3. next' = next + Block + RoundUp(e.size)
    BY DEF ReadMember, AfterMember
  <1>4. RoundUp(e.size) <= SkipBuf /\ Fits(b.pax)
    <2>1. Fits(b.size) /\ Fits(b.pax)
      BY BlockFits
    <2>2. pax # None => Fits(pax.size)
      BY DEF Reached, Sizes
    <2>3. e.size \in {b.size, PaxSize} /\ (e.size = b.size \/ PaxSize # None)
      BY DEF EntryOf, MemberSize
    <2>4. Fits(e.size)
      BY <2>1, <2>2, <2>3 DEF PaxSize
    <2> HIDE DEF b, e
    <2> QED
      BY <1>2, <2>1, <2>4 DEF Fits
  <1>5. RoundUp(e.size) \in Nat /\ e.size <= RoundUp(e.size)
    BY <1>2, RoundUpGrid
  <1>6. \/ pc' = "idle" /\ fields' = None /\ out' = Append(out, e)
        \/ pc' = "dispatch" /\ fields' = e
    BY DEF ReadMember, Yield, EndPoll
  <1>7. out' = Append(out, e) => Last' = e
    BY TypedFacts DEF TypeInv, Last
  <1> HIDE DEF e, b
  <1>8. off' <= next' /\ next' - off' <= SkipBuf /\ off' + e.left <= next'
    BY <1>1, <1>2, <1>3, <1>4, <1>5
  <1> QED
    BY <1>1, <1>2, <1>4, <1>6, <1>7, <1>8 DEF Within, Sizes, Reached

\* One round of the skip loop takes all that is to be skipped, or all there is.
LEMMA SkipReadReached ==
  ASSUME FillsBlocks, TypeInv, Framing, Within, fields = None, SkipRead, pc' # "idle"
  PROVE  Within' /\ pc' # "panicked"
  <1>1. PICK n \in Reads(Min2(call.amt, SkipBuf)) :
          /\ Advance(n)
          /\ \/ n = 0 /\ Finish("error")
             \/ /\ n > 0
                /\ call' = [call EXCEPT !.rem = WrappingSub(@, n)]
                /\ pc' = pc
             \/ n > call.rem /\ Panic
    BY DEF SkipRead
  <1>2. /\ pc = "skip" /\ call.rem > 0 /\ next' = next /\ fields' = fields
        /\ arch' = arch
    BY DEF SkipRead
  <1>3. /\ call \in CallType /\ call.rem \in Nat /\ call.amt \in Nat
        /\ SkipBuf \in Nat /\ off \in Nat /\ next \in Nat /\ arch.len \in Nat
    BY TypedFacts, ArchType, EnvironmentAssumption DEF TypeInv, CallType
  <1>4. n = Min2(Min2(call.amt, SkipBuf), Avail)
    BY <1>1, ReadsFull
  <1>5. Avail \in Nat
    BY <1>3 DEF Avail
  <1>6. call.rem = next - off /\ call.rem <= SkipBuf
    BY <1>2 DEF Within
  <1>7. ~Finish("error")
    BY DEF Finish, EndPoll
  <1>8. call.rem = call.amt
    <2>1. CASE Avail = 0
      <3>1. n = 0
        BY <1>3, <1>4, <2>1 DEF Min2
      <3> QED
        BY <1>1, <1>3, <1>7, <3>1, <1>2
    <2> QED
      BY <1>2, <2>1 DEF Within
  <1>9. n = Min2(call.rem, Avail) /\ n \in Nat /\ n <= call.rem
    BY <1>3, <1>4, <1>5, <1>6, <1>8 DEF Min2
  <1>10. call' = [call EXCEPT !.rem = WrappingSub(@, n)] /\ pc' = "skip" /\ off' = off + n
    BY <1>1, <1>2, <1>3, <1>7, <1>9 DEF Advance
  <1>11. call'.rem = call.rem - n /\ call'.amt = call.amt
    BY <1>3, <1>9, <1>10 DEF CallType, WrappingSub
  <1>12. n < call.rem => Avail' = 0
    BY <1>2, <1>3, <1>9, <1>10 DEF Avail, Min2
  <1>13. call'.rem = next - off' /\ off' <= next
    BY <1>3, <1>6, <1>9, <1>10, <1>11
  <1>14. next - off' <= SkipBuf
    BY <1>3, <1>6, <1>9, <1>10
  <1>15. call'.rem = 0 \/ Avail' = 0
    BY <1>3, <1>9, <1>11, <1>12
  <1> QED
    BY <1>2, <1>10, <1>11, <1>13, <1>14, <1>15 DEF Within

\* Bytes of a payload are bytes of its member.
LEMMA PayloadReadReached ==
  ASSUME TypeInv, Within, Sizes, PayloadRead PROVE Within' /\ Sizes'
  <1>1. PICK n \in Reads(Min2(fields.left, Room)) :
          off' = off + n /\ fields' = [fields EXCEPT !.left = @ - n]
    BY DEF PayloadRead, Advance
  <1>2. fields # None /\ pc = "payload"
    BY DEF PayloadRead, TypeInv, HasFields
  <1>3. /\ fields \in EntryType /\ fields.left \in Nat
        /\ off \in Nat /\ next \in Nat
    BY <1>2, FieldsTypes, TypedFacts DEF EntryType, TypeInv
  <1>4. n \in Nat /\ n <= fields.left
    <2>1. Room \in Nat
      BY TypedFacts, EnvironmentAssumption DEF TypeInv, Room, Run
    <2>2. Min2(fields.left, Room) \in Nat /\ Min2(fields.left, Room) <= fields.left
      BY <1>3, <2>1 DEF Min2
    <2> QED
      BY <1>3, <2>2, ReadsBounds DEF TypeInv
  <1>5. fields'.left = fields.left - n /\ fields'.blk = fields.blk
    BY <1>1, <1>3 DEF EntryType
  <1>6. next' = next /\ pc' = pc /\ pax' = pax
    BY DEF PayloadRead
  <1>7. off + fields.left <= next /\ next - off <= SkipBuf /\ SkipBuf \in Nat
    BY <1>2, EnvironmentAssumption DEF Within
  <1>8. off' + fields'.left <= next' /\ off' <= next' /\ next' - off' <= SkipBuf
    BY <1>1, <1>3, <1>4, <1>5, <1>6, <1>7
  <1> QED
    BY <1>2, <1>5, <1>6, <1>8 DEF Within, Sizes

\* A pax record keeps the size that is in the archive, or loses it.
LEMMA PayloadDoneReached ==
  ASSUME TypeInv, Within, Sizes, PayloadDone PROVE Within' /\ Sizes'
  <1>1. fields # None /\ fields' = None /\ pc' = "delta" /\ off' = off /\ next' = next
    BY DEF PayloadDone, TypeInv, HasFields
  <1>2. pax' = pax \/ \E s \in PaxReadings : pax' = [bytes |-> vec, size |-> s]
    BY DEF PayloadDone
  <1>3. PaxReadings \subseteq {fields.blk.pax, None}
    BY DEF PaxReadings
  <1>4. pax' # None => Fits(pax'.size)
    BY <1>1, <1>2, <1>3 DEF Sizes, Fits
  <1> QED
    BY <1>1, <1>4 DEF Within, Sizes

\* The caller reads no more of the last entry than there is of it.
LEMMA ReadEntryReached ==
  ASSUME FillsBlocks, TypeInv, Handed, Within, Sizes, NEW i \in DOMAIN out, ReadEntry(i)
  PROVE  Within' /\ Sizes'
  <1>1. PICK n \in 1 .. Min2(out[i].left, Avail) :
          /\ off' = off + n
          /\ out' = [out EXCEPT ![i].left = @ - n, ![i].got = Deliver(@, n)]
    BY DEF ReadEntry, Advance
  <1>2. /\ pc = "idle" /\ ~done /\ i = Len(out) /\ out # <<>>
        /\ pc' = pc /\ next' = next /\ fields' = fields /\ pax' = pax
    BY DEF ReadEntry, FillsBlocks
  <1>3. fields = None
    BY <1>2 DEF Handed
  <1>4. /\ out \in Seq(EntryType) /\ out[i] \in EntryType /\ out[i].left \in Nat
        /\ Avail \in Nat /\ off \in Nat /\ next \in Nat
    <2>1. out \in Seq(EntryType) /\ out[i] \in EntryType /\ off \in Nat /\ next \in Nat
      BY TypedFacts DEF TypeInv
    <2>2. Avail \in Nat
      BY ArchType, <2>1 DEF TypeInv, Avail
    <2> QED
      BY <2>1, <2>2 DEF EntryType
  <1>5. n \in Nat /\ n <= out[i].left
    BY <1>1, <1>4 DEF Min2
  <1>6. Len(out') = Len(out) /\ out'[i].left = out[i].left - n
    <2> DEFINE l == out[i].left - n
               g == Deliver(out[i].got, n)
    <2>1. Len(out') = Len(out) /\ out'[i] = [out[i] EXCEPT !.left = l, !.got = g]
      BY <1>1, <1>4
    <2> HIDE DEF l, g
    <2>2. out'[i].left = l
      BY <1>4, <2>1 DEF EntryType
    <2> QED
      BY <2>1, <2>2 DEF l
  <1>7. off + out[i].left <= next /\ next - off <= SkipBuf /\ SkipBuf \in Nat
    BY <1>2, EnvironmentAssumption DEF Within, Last
  <1>8. Last' = out'[i]
    BY <1>2, <1>6 DEF Last
  <1> DEFINE l == out'[i].left
  <1>9. l = out[i].left - n /\ Last'.left = l
    BY <1>6, <1>8
  <1> HIDE DEF l
  <1>10. off' + l <= next' /\ off' <= next' /\ next' - off' <= SkipBuf
    BY <1>1, <1>2, <1>4, <1>5, <1>7, <1>9
  <1> QED
    BY <1>2, <1>3, <1>9, <1>10 DEF Within, Sizes

\* Handing over a member leaves what is left of it ahead of the reader.
LEMMA HandOverReached ==
  ASSUME TypeInv, Within, Sizes, fields # None, NEW size, YieldMember(size),
         off' = off, next' = next
  PROVE  Within' /\ Sizes'
  <1> DEFINE e == [fields EXCEPT !.size = size, !.long = longname,
                                 !.link = longlink, !.pax = pax]
  <1>1. out' = Append(out, e) /\ fields' = None /\ pc' = "idle" /\ pax' = None
    BY DEF YieldMember, Yield, EndPoll
  <1>2. e.left = fields.left
    BY FieldsTypes DEF EntryType
  <1> HIDE DEF e
  <1>3. Last' = e
    BY <1>1, TypedFacts DEF TypeInv, Last
  <1> QED
    BY <1>1, <1>2, <1>3 DEF Within, Sizes

\* Steps that move neither the reader nor the next header.
LEMMA RestReached ==
  ASSUME Within, Sizes, off' = off, next' = next, fields' = fields, pax' = pax,
         out' = out, pc' \notin {"idle", "skip"}
  PROVE  Within' /\ Sizes'
  BY DEF Within, Sizes

\* And steps that move both by a block.
LEMMA BlockReached ==
  ASSUME TypeInv, Within, Sizes, off' = off + Block, next' = next + Block,
         fields' = fields, pax' = pax, pc' \notin {"idle", "skip"}
  PROVE  Within' /\ Sizes'
  <1>1. off \in Nat /\ next \in Nat /\ SkipBuf \in Nat
    BY TypedFacts, EnvironmentAssumption DEF TypeInv
  <1>2. fields # None => fields.left \in Nat
    BY FieldsTypes DEF EntryType
  <1> QED
    BY <1>1, <1>2 DEF Within, Sizes

\* After the end or an error there is nothing more to reach.
LEMMA FinishReached ==
  ASSUME Sizes, NEW r, Finish(r), fields' = fields, pax' = pax
  PROVE  (~done' => Within') /\ Sizes'
  BY DEF Finish, Sizes

\* let delta = self.next - pos: pos is never past next.
LEMMA ComputeDeltaReached ==
  ASSUME TypeInv, Framing, Within, Sizes, ComputeDelta, opt.seek = "none"
  PROVE  Within' /\ Sizes' /\ pc' = "skip"
  <1>1. pos = off /\ off <= next /\ pc = "delta" /\ off \in Nat /\ next \in Nat
    BY TypedFacts DEF ComputeDelta, Framing, InStep, Within, TypeInv
  <1>2. /\ call' = [call EXCEPT !.amt = next - off, !.rem = next - off]
        /\ pc' = "skip"
    BY <1>1 DEF ComputeDelta, WrappingSub
  <1>3. call'.amt = next - off /\ call'.rem = next - off
    BY <1>2, TypedFacts DEF TypeInv, CallType
  <1>4. UNCHANGED <<off, next, fields, pax, out>>
    BY DEF ComputeDelta
  <1> QED
    BY <1>2, <1>3, <1>4 DEF Within, Sizes

LEMMA ReachedStep ==
  ASSUME FillsBlocks, MembersFit, TypeInv, Framing, Ordered, Handed, Filled,
         opt.seek = "none", opt.checks, Reached, [Next]_vars
  PROVE  (~done' => Within') /\ Sizes'
  <1>1. Sizes
    BY DEF Reached
  <1>2. pc # "idle" => ~done
    BY DEF Handed
  <1>3. ~done => Within
    BY DEF Reached
  <1>4. CASE PollDone \/ UNCHANGED vars
    BY <1>1, <1>3, <1>4 DEF PollDone, Within, Sizes, Avail, Last
  <1>5. CASE Poll
    <2>1. ~done /\ pc' \in {"dispatch", "delta"}
          /\ UNCHANGED <<off, next, fields, pax, out>>
      BY <1>5 DEF Poll
    <2> QED
      BY <1>1, <1>3, <2>1, RestReached
  <1>6. CASE CallEntries
    <2>1. off = 0 /\ next' = 0 /\ off' = off /\ fields' = None /\ pax' = None
          /\ pc' = "idle" /\ out' = out
      BY <1>6 DEF CallEntries, Framing, InStep
    <2>2. out = <<>>
      BY <2>1, NothingYet
    <2>3. SkipBuf \in Nat
      BY EnvironmentAssumption
    <2> QED
      BY <2>1, <2>2, <2>3 DEF Within, Sizes
  <1>7. ASSUME NEW i \in DOMAIN out, ReadEntry(i) PROVE (~done' => Within') /\ Sizes'
    <2>1. ~done
      BY <1>7 DEF ReadEntry, FillsBlocks
    <2> QED
      BY <1>1, <1>3, <1>7, <2>1, ReadEntryReached
  <1>8. CASE ComputeDelta
    <2>1. ~done
      BY <1>2, <1>8 DEF ComputeDelta
    <2> QED
      BY <1>1, <1>3, <1>8, <2>1, ComputeDeltaReached
  <1>9. CASE SkipRead
    <2>1. ~done /\ fields = None /\ fields' = fields /\ pax' = pax
      BY <1>1, <1>2, <1>9 DEF SkipRead, Handed
    <2>2. pc' = "idle" => done'
      BY <1>9 DEF SkipRead, Finish, Panic, EndPoll
    <2>3. Sizes'
      BY <1>1, <2>1 DEF Sizes
    <2> QED
      BY <1>3, <1>9, <2>1, <2>2, <2>3, SkipReadReached
  <1>10. CASE SkipDone \/ StartDescriptor
    <2>1. ~done /\ pc' \in {"header", "payload"}
          /\ UNCHANGED <<off, next, fields, pax, out>>
      BY <1>2, <1>10 DEF SkipDone, StartDescriptor
    <2> QED
      BY <1>1, <1>3, <2>1, RestReached
  <1>11. CASE SeekDrain \/ SeekSkip
    BY <1>11 DEF SeekDrain, SeekSkip, Framing, Aimed
  <1>12. CASE BlockShort \/ BlockResume
    BY <1>12, NoPartBlock
  <1>13. CASE HeaderEof \/ RejectHeader \/ ExtensionEof \/ ReadFails
    <2>1. fields' = fields /\ pax' = pax /\ \E r : Finish(r)
      BY <1>13 DEF HeaderEof, RejectHeader, ExtensionEof, ReadFails, NoMoreMembers
    <2> QED
      BY <1>1, <2>1, FinishReached
  <1>14. CASE ZeroBlock
    <2>1. fields' = fields /\ pax' = pax /\ ~done /\ off' = off + Block
      BY <1>2, <1>14, AfterBlock DEF ZeroBlock
    <2>2. \/ \E r : Finish(r)
          \/ next' = next + Block /\ pc' = "delta"
      BY <1>14 DEF ZeroBlock, NoMoreMembers
    <2> QED
      BY <1>1, <1>3, <2>1, <2>2, FinishReached, BlockReached
  <1>15. CASE ReadMember
    <2>1. ~done /\ fields = None
      BY <1>1, <1>2, <1>15 DEF ReadMember, Handed
    <2> QED
      BY <1>15, <2>1, ReadMemberReached
  <1>16. CASE PayloadRead
    BY <1>1, <1>2, <1>3, <1>16, PayloadReadReached DEF PayloadRead
  <1>17. CASE PayloadDone
    BY <1>1, <1>2, <1>3, <1>17, PayloadDoneReached DEF PayloadDone
  <1>18. CASE YieldPlain
    <2>1. ~done /\ fields # None /\ YieldMember(fields.size) /\ off' = off /\ next' = next
      BY <1>2, <1>18 DEF YieldPlain, TypeInv, HasFields
    <2> QED
      BY <1>1, <1>3, <2>1, HandOverReached
  <1>19. CASE SparseDone
    <2>1. ~done /\ fields # None /\ off' = off /\ next' = next
      BY <1>2, <1>19 DEF SparseDone, TypeInv, HasFields
    <2>2. \/ YieldMember(scan.cur)
          \/ Finish("error") /\ fields' = fields /\ pax' = pax
      BY <1>19 DEF SparseDone
    <2> QED
      BY <1>1, <1>3, <2>1, <2>2, HandOverReached, FinishReached
  <1>20. CASE StartSparse \/ AddSparseBlock
    <2>1. ~done /\ UNCHANGED <<off, next, fields, pax, out>>
      BY <1>2, <1>20 DEF StartSparse, AddSparseBlock
    <2>2. pc' = "sparse" \/ Finish("error")
      BY <1>20 DEF StartSparse, AddSparseBlock
    <2> QED
      BY <1>1, <1>3, <2>1, <2>2, RestReached, FinishReached
  <1>21. CASE ReadExtension
    <2>1. /\ ~done /\ pc' = "sparse" /\ next' = next + Block
          /\ fields' = fields /\ pax' = pax /\ off' = off + Block
      BY <1>2, <1>21, AfterBlock DEF ReadExtension, WantsExtension
    <2> QED
      BY <1>1, <1>3, <2>1, BlockReached
  <1>22. CASE ReadPending
    <2>1. ~done /\ pc' = "parked" /\ UNCHANGED <<off, next, fields, pax, out>>
      BY <1>2, <1>22 DEF ReadPending, AtRead, WantsExtension, Park, EndPoll
    <2> QED
      BY <1>1, <1>3, <2>1, RestReached
  <1> QED
    BY <1>4, <1>5, <1>6, <1>7, <1>8, <1>9, <1>10, <1>11, <1>12, <1>13, <1>14, <1>15,
       <1>16, <1>17, <1>18, <1>19, <1>20, <1>21, <1>22
       DEF Next, ReaderStep, PollStep

\* What could panic is the subtraction, the skip loop, and a block in two parts.
LEMMA PanicStep ==
  ASSUME FillsBlocks, TypeInv, Framing, Handed, Filled, opt.seek = "none",
         Reached, NoPanic, [Next]_vars
  PROVE  NoPanic'
  <1> USE DEF NoPanic
  <1>1. pc # "idle" => ~done
    BY DEF Handed
  <1>2. CASE ComputeDelta
    <2>1. CASE opt.checks
      <3>1. Within /\ Sizes
        BY <1>1, <1>2, <2>1 DEF ComputeDelta, Reached
      <3> QED
        BY <1>2, <3>1, ComputeDeltaReached
    <2>2. CASE ~opt.checks
      BY <1>2, <2>2 DEF ComputeDelta
    <2> QED
      BY <2>1, <2>2
  <1>3. CASE SkipRead
    <2>1. CASE opt.checks
      <3>1. Within /\ fields = None
        BY <1>1, <1>3, <2>1 DEF SkipRead, Reached, Handed
      <3> QED
        BY <1>3, <3>1, SkipReadReached
    <2>2. CASE ~opt.checks
      BY <1>3, <2>2 DEF SkipRead, Finish, EndPoll
    <2> QED
      BY <2>1, <2>2
  <1>4. CASE BlockShort \/ BlockResume
    BY <1>4, NoPartBlock
  <1>5. ASSUME NEW i \in DOMAIN out, ReadEntry(i) PROVE NoPanic'
    BY <1>5 DEF ReadEntry
  <1>6. CASE \/ Poll \/ PollDone \/ CallEntries \/ SkipDone \/ SeekDrain \/ SeekSkip
             \/ HeaderEof \/ ZeroBlock \/ RejectHeader \/ ReadMember
             \/ UNCHANGED vars
    BY <1>6
       DEF Poll, PollDone, CallEntries, SkipDone, SeekDrain, SeekSkip, HeaderEof,
           ZeroBlock, RejectHeader, ReadMember, NoMoreMembers, Yield, Park, Finish, EndPoll
  <1>7. CASE \/ StartDescriptor \/ PayloadRead \/ PayloadDone \/ YieldPlain \/ StartSparse
             \/ AddSparseBlock \/ ExtensionEof \/ ReadExtension \/ SparseDone
             \/ ReadPending \/ ReadFails
    BY <1>7
       DEF StartDescriptor, PayloadRead, PayloadDone, YieldPlain, StartSparse,
           AddSparseBlock, ExtensionEof, ReadExtension, SparseDone, ReadPending,
           ReadFails, YieldMember, Yield, Park, Finish, EndPoll
  <1> QED
    BY <1>2, <1>3, <1>4, <1>5, <1>6, <1>7 DEF Next, ReaderStep, PollStep

LEMMA ReachedInit == Init => Reached
  <1>1. SkipBuf \in Nat
    BY EnvironmentAssumption
  <1> QED
    BY <1>1 DEF Init, Reached, Within, Sizes

(***************************************************************************)
(* Over such a reader no poll panics: where members fit the buffer of      *)
(* poll_skip neither its remainder nor `self.next - pos` goes below zero   *)
(* (archive.rs:320, 620-654), and no block is completed from a part that   *)
(* was kept (archive.rs:796-803).                                          *)
(***************************************************************************)
THEOREM PanicFree ==
  ASSUME SeekFree, FillsBlocks, MembersFit PROVE Spec => []NoPanic
  <1>1. Init => NoPanic
    BY DEF Init, NoPanic
  <1>2. TypeInv /\ Framing /\ Ordered /\ Handed /\ Filled /\ Reached /\ [Next]_vars
          => Reached'
    <2> SUFFICES ASSUME TypeInv, Framing, Ordered, Handed, Filled, Reached, [Next]_vars
                 PROVE  Reached'
      OBVIOUS
    <2>1. opt' = opt
      BY OffGrows
    <2> QED
      BY <2>1, ReachedStep, NoSeek DEF Reached
  <1>3. TypeInv /\ Framing /\ Handed /\ Filled /\ Reached /\ NoPanic /\ [Next]_vars
          => NoPanic'
    BY PanicStep, NoSeek
  <1> QED
    BY <1>1, <1>2, <1>3, ReachedInit, TypeCorrect, FramingCorrect, OrderedCorrect,
       HandedCorrect, FilledCorrect, PTL DEF Spec
=============================================================================
