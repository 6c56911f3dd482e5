------------------------ MODULE EntriesStreamProofs ------------------------
(***************************************************************************)
(* Proofs about EntriesStream for every archive, block size and buffer     *)
(* size, and for every reader and caller the constants allow.              *)
(***************************************************************************)
EXTENDS EntriesStream, TLAPS

USE BlockAssumption, WidthAssumption, NoneAssumption

-----------------------------------------------------------------------------
(***************************************************************************)
(* Facts about the operators                                               *)
(***************************************************************************)

\* Padding a size gives a size.
LEMMA RoundUpNat == ASSUME NEW n \in Nat PROVE RoundUp(n) \in Nat
  <1> DEFINE q == (n + Block - 1) \div Block
  <1>1. q \in Nat
    OBVIOUS
  <1>2. q * Block \in Nat
    BY <1>1
  <1> QED
    BY <1>2 DEF RoundUp

\* A block of a well-formed archive is a block, wherever it is looked at.
LEMMA BlockAtType ==
  ASSUME NEW a \in ArchiveType, NEW o \in Nat
  PROVE  BlockAt(a, o) \in BlockType
  <1>1. Garbage \in BlockType
    <2>1. <<None>> \in Seq(SparseDesc \cup {None})
      OBVIOUS
    <2> QED
      BY <2>1 DEF Garbage, BlockType, Magics, Kinds
  <1>2. a.blocks \in Seq(BlockType)
    BY DEF ArchiveType
  <1>3. ASSUME NEW k \in DOMAIN a.blocks PROVE a.blocks[k] \in BlockType
    BY <1>2, <1>3
  <1> QED
    BY <1>1, <1>3 DEF BlockAt

\* The archive at hand is one of the constants.
LEMMA ArchType == ASSUME TypeOK PROVE arch \in ArchiveType /\ arch.len \in Nat
  BY EnvironmentAssumption DEF TypeOK, ArchiveType

\* Every archive is shorter than the arithmetic is wide.
LEMMA LenBounded == ASSUME TypeOK PROVE arch.len <= U64Max
  BY ArchType, EnvironmentAssumption DEF TypeOK

\* A read stays within the buffer and within the archive.
LEMMA ReadsBounds ==
  ASSUME TypeOK, NEW cap \in Nat, NEW n \in Reads(cap)
  PROVE  n \in Nat /\ n <= cap /\ n <= Avail
  BY ArchType DEF Reads, Avail, Min2, TypeOK, ReaderTypes

\* A read of a positive number of bytes leaves the reader inside the archive.
LEMMA AvailBounds ==
  ASSUME TypeOK, NEW n \in Nat, n <= Avail, off <= arch.len
  PROVE  off + n \in Nat /\ off + n <= arch.len
  BY ArchType DEF Avail, TypeOK, ReaderTypes

\* The entry made of an acceptable header is an entry.
LEMMA EntryOfType ==
  ASSUME TypeOK, NEW b \in BlockType, HeaderOk(b)
  PROVE  EntryOf(b) \in EntryType /\ EntryOf(b).size \in Nat
  <1>1. PaxSize \in Nat \cup {None}
    BY DEF PaxSize, TypeOK, StreamTypes, PaxType
  <1>2. MemberSize(b, PaxSize) \in Nat
    BY <1>1 DEF HeaderOk, MemberSize, BlockType
  <1>3. next + Block \in Nat /\ call.hpos \in Nat
    BY DEF TypeOK, StreamTypes, PollTypes, CallType
  <1>4. <<>> \in Seq(Run)
    OBVIOUS
  <1> QED
    BY <1>2, <1>3, <1>4 DEF EntryOf, EntryType

\* The locals of a poll that has not begun.
LEMMA NoLocals == NoCall \in CallType /\ NoRun \in Run /\ NoScan \in ScanType
  <1>1. <<>> \in Seq(SparseDesc \cup {None})
    OBVIOUS
  <1> QED
    BY <1>1 DEF NoCall, CallType, NoRun, Run, NoScan, ScanType

\* However a poll ends, its locals are gone.
LEMMA EndPollTypes ==
  ASSUME NEW w \in PCs, EndPoll(w)
  PROVE  pc' \in PCs /\ call' \in CallType /\ vec' \in Run /\ scan' \in ScanType
  BY NoLocals DEF EndPoll

\* The three ends of a poll that hand out no entry.
LEMMA ParkTypes == ASSUME NEW r, Park(r) PROVE PollTypes'
  BY EndPollTypes DEF Park, PollTypes, PCs

LEMMA PanicTypes == ASSUME Panic PROVE PollTypes'
  BY EndPollTypes DEF Panic, PollTypes, PCs

LEMMA FinishTypes ==
  ASSUME NEW r \in {"end", "error", "fault"}, Finish(r)
  PROVE  PollTypes' /\ result' \in {"none", "end", "error", "fault"}
  BY EndPollTypes DEF Finish, PollTypes, PCs

LEMMA NoMoreTypes ==
  ASSUME NoMoreMembers
  PROVE  PollTypes' /\ result' \in {"none", "end", "error", "fault"}
  BY FinishTypes DEF NoMoreMembers

LEMMA YieldTypes ==
  ASSUME out \in Seq(EntryType), NEW e \in EntryType, Yield(e)
  PROVE  PollTypes' /\ out' \in Seq(EntryType) /\ result' = result
  <1>1. PollTypes'
    BY EndPollTypes DEF Yield, PollTypes, PCs
  <1>2. out' = Append(out, e) /\ result' = result
    BY DEF Yield
  <1> QED
    BY <1>1, <1>2

\* Reading moves the reader and the count by a number of bytes.
LEMMA AdvanceTypes ==
  ASSUME ReaderTypes, NEW n \in Nat, Advance(n)
  PROVE  off' \in Nat /\ pos' \in Nat
  BY DEF ReaderTypes, Advance

-----------------------------------------------------------------------------
(***************************************************************************)
(* Types                                                                   *)
(***************************************************************************)

LEMMA TypeInit == Init => TypeOK
  <1> SUFFICES ASSUME Init PROVE TypeOK
    OBVIOUS
  <1>1. FlagTypes
    BY Zenon DEF Init, FlagTypes
  <1>2. ReaderTypes
    BY DEF Init, ReaderTypes
  <1>3. StreamTypes
    BY DEF Init, StreamTypes
  <1>4. PollTypes
    BY NoLocals DEF Init, PollTypes, PCs
  <1>5. out \in Seq(EntryType)
    BY DEF Init
  <1> QED
    BY <1>1, <1>2, <1>3, <1>4, <1>5 DEF Init, TypeOK

\* The flags are Booleans: whatever a step does to one is of three forms.
LEMMA FlagStep == FlagTypes /\ [Next]_vars => FlagTypes'
  <1> SUFFICES ASSUME FlagTypes, [Next]_vars PROVE FlagTypes'
    OBVIOUS
  <1> USE DEF vars, reader, inner, stream, descs, locals
  <1>1. CASE Poll
    BY <1>1, Zenon DEF FlagTypes, Poll
  <1>2. CASE PollDone
    BY <1>2, Zenon DEF FlagTypes, PollDone
  <1>3. CASE CallEntries
    BY <1>3, Zenon DEF FlagTypes, CallEntries
  <1>4. ASSUME NEW i \in DOMAIN out, ReadEntry(i) PROVE FlagTypes'
    BY <1>4, Zenon DEF FlagTypes, ReadEntry, Advance
  <1>5. CASE ComputeDelta
    BY <1>5, Zenon DEF FlagTypes, ComputeDelta, Panic, EndPoll
  <1>6. CASE SkipRead
    BY <1>6, Zenon DEF FlagTypes, SkipRead, Panic, Finish, Advance, EndPoll
  <1>7. CASE SkipDone
    BY <1>7, Zenon DEF FlagTypes, SkipDone
  <1>8. CASE SeekDrain
    BY <1>8, Zenon DEF FlagTypes, SeekDrain
  <1>9. CASE SeekSkip
    BY <1>9, Zenon DEF FlagTypes, SeekSkip, Finish, Park, EndPoll
  <1>10. CASE BlockShort
    BY <1>10, Zenon DEF FlagTypes, BlockShort, Park, Advance, EndPoll
  <1>11. CASE BlockResume
    BY <1>11, Zenon DEF FlagTypes, BlockResume, Panic, Advance, EndPoll
  <1>12. CASE HeaderEof
    BY <1>12, Zenon DEF FlagTypes, HeaderEof, NoMoreMembers, Finish, EndPoll
  <1>13. CASE ZeroBlock
    BY <1>13, Zenon DEF FlagTypes, ZeroBlock, NoMoreMembers, Finish, BlockRead, Advance, EndPoll
  <1>14. CASE RejectHeader
    BY <1>14, Zenon DEF FlagTypes, RejectHeader, Finish, BlockRead, Advance, EndPoll
  <1>15. CASE ReadMember
    BY <1>15, Zenon DEF FlagTypes, ReadMember, Yield, BlockRead, Advance, EndPoll
  <1>16. CASE StartDescriptor
    BY <1>16, Zenon DEF FlagTypes, StartDescriptor
  <1>17. CASE PayloadRead
    BY <1>17, Zenon DEF FlagTypes, PayloadRead, Advance
  <1>18. CASE PayloadDone
    BY <1>18, Zenon DEF FlagTypes, PayloadDone
  <1>19. CASE YieldPlain
    BY <1>19, Zenon DEF FlagTypes, YieldPlain, YieldMember, Yield, EndPoll
  <1>20. CASE StartSparse
    BY <1>20, Zenon DEF FlagTypes, StartSparse, Finish, EndPoll
  <1>21. CASE AddSparseBlock
    BY <1>21, Zenon DEF FlagTypes, AddSparseBlock, Finish, EndPoll
  <1>22. CASE ExtensionEof
    BY <1>22, Zenon DEF FlagTypes, ExtensionEof, Finish, EndPoll
  <1>23. CASE ReadExtension
    BY <1>23, Zenon DEF FlagTypes, ReadExtension, BlockRead, Advance
  <1>24. CASE SparseDone
    BY <1>24, Zenon DEF FlagTypes, SparseDone, YieldMember, Yield, Finish, EndPoll
  <1>25. CASE ReadPending
    BY <1>25, Zenon DEF FlagTypes, ReadPending, Park, EndPoll
  <1>26. CASE ReadFails
    BY <1>26, Zenon DEF FlagTypes, ReadFails, Finish, EndPoll
  <1>27. CASE UNCHANGED vars
    BY <1>27, Zenon DEF FlagTypes
  <1> QED
    BY <1>1, <1>2, <1>3, <1>4, <1>5, <1>6, <1>7, <1>8, <1>9, <1>10, <1>11, <1>12, <1>13, <1>14, <1>15, <1>16, <1>17, <1>18, <1>19, <1>20, <1>21, <1>22, <1>23, <1>24, <1>25, <1>26, <1>27
       DEF Next, ReaderStep, PollStep

-----------------------------------------------------------------------------
\* The runs delivered stay runs.
LEMMA DeliverType ==
  ASSUME NEW got \in Seq(Run), NEW n \in Nat, off \in Nat
  PROVE  Deliver(got, n) \in Seq(Run)
  <1>1. [from |-> off, to |-> off + n] \in Run
    BY DEF Run
  <1>2. ASSUME Len(got) > 0
        PROVE  [got EXCEPT ![Len(got)].to = off + n] \in Seq(Run)
    <2>1. Len(got) \in DOMAIN got /\ got[Len(got)] \in Run
      BY <1>2
    <2>2. [got[Len(got)] EXCEPT !.to = off + n] \in Run
      BY <2>1 DEF Run
    <2> QED
      BY <2>1, <2>2
  <1> QED
    BY <1>1, <1>2 DEF Deliver

\* What an entry becomes when n of its bytes are read is an entry.
LEMMA ReadEntryType ==
  ASSUME NEW e \in EntryType, NEW n \in Nat, n <= e.left, off \in Nat
  PROVE  [e EXCEPT !.left = @ - n, !.got = Deliver(@, n)] \in EntryType
  <1>1. e.left - n \in Nat
    BY DEF EntryType
  <1>2. e.got \in Seq(Run)
    BY DEF EntryType
  <1>3. Deliver(e.got, n) \in Seq(Run)
    BY <1>2, DeliverType
  <1> QED
    BY <1>1, <1>3 DEF EntryType

LEMMA SeqUpdate ==
  ASSUME NEW S, NEW s \in Seq(S), NEW i \in DOMAIN s, NEW e \in S
  PROVE  [s EXCEPT ![i] = e] \in Seq(S)
  OBVIOUS

\* Replacing one entry by another.
LEMMA UpdateEntry ==
  ASSUME out \in Seq(EntryType), NEW i \in DOMAIN out, NEW n,
         out' = [out EXCEPT ![i].left = @ - n, ![i].got = Deliver(@, n)],
         [out[i] EXCEPT !.left = @ - n, !.got = Deliver(@, n)] \in EntryType
  PROVE  out' \in Seq(EntryType)
  <1> DEFINE e == [out[i] EXCEPT !.left = @ - n, !.got = Deliver(@, n)]
  <1>1. out' = [out EXCEPT ![i] = e] /\ e \in EntryType
    OBVIOUS
  <1>2. [out EXCEPT ![i] = e] \in Seq(EntryType)
    BY <1>1, SeqUpdate
  <1> QED
    BY <1>1, <1>2, Zenon

-----------------------------------------------------------------------------
(***************************************************************************)
(* What every step keeps, besides the flags                                *)
(***************************************************************************)
DataTypes ==
    ReaderTypes /\ StreamTypes /\ PollTypes /\ out \in Seq(EntryType)

LEMMA TypedFacts ==
  ASSUME TypeOK
  PROVE  /\ DataTypes /\ ReaderTypes /\ StreamTypes /\ PollTypes
         /\ out \in Seq(EntryType)
         /\ off \in Nat /\ pos \in Nat /\ next \in Nat
         /\ call \in CallType /\ vec \in Run /\ scan \in ScanType
         /\ fields \in EntryType \cup {None}
         /\ sbuf \in Nat /\ Block - sbuf \in Nat /\ Block \in Nat
  BY DEF TypeOK, DataTypes, ReaderTypes, StreamTypes, PollTypes

USE DEF reader, inner, stream, descs, locals, vars

\* The locals of a poll are updated field by field.
LEMMA CallUpdate ==
  ASSUME NEW c \in CallType, NEW p \in Nat, NEW h \in Nat
  PROVE  /\ [c EXCEPT !.processed = p, !.hpos = h] \in CallType
         /\ [c EXCEPT !.hpos = h] \in CallType
  BY DEF CallType

LEMMA PollTyped == ASSUME TypeOK, Poll PROVE DataTypes'
  <1>1. ReaderTypes' /\ StreamTypes' /\ out' \in Seq(EntryType)
    BY TypedFacts DEF Poll, ReaderTypes, StreamTypes
  <1>2. pc' \in PCs /\ vec' = vec /\ scan' = scan
    BY DEF Poll, PCs
  <1>3. call' = call \/ call' = [call EXCEPT !.processed = 1, !.hpos = next]
    BY DEF Poll
  <1>4. [call EXCEPT !.processed = 1, !.hpos = next] \in CallType
    BY TypedFacts DEF CallType
  <1> QED
    BY <1>1, <1>2, <1>3, <1>4, TypedFacts DEF DataTypes, PollTypes

LEMMA CallEntriesTyped == ASSUME TypeOK, CallEntries PROVE DataTypes'
  <1>1. ReaderTypes' /\ out' \in Seq(EntryType)
    BY TypedFacts DEF CallEntries, ReaderTypes
  <1>2. StreamTypes'
    BY DEF CallEntries, StreamTypes
  <1>3. PollTypes'
    BY TypedFacts DEF CallEntries, PollTypes, PCs
  <1> QED
    BY <1>1, <1>2, <1>3 DEF DataTypes

LEMMA ReadEntryTyped ==
  ASSUME TypeOK, NEW i \in DOMAIN out, ReadEntry(i) PROVE DataTypes'
  <1>1. PICK n \in 1 .. Min2(out[i].left, Avail) :
            /\ Advance(n)
            /\ out' = [out EXCEPT ![i].left = @ - n, ![i].got = Deliver(@, n)]
    BY DEF ReadEntry
  <1>2. out[i] \in EntryType
    BY TypedFacts
  <1>3. n \in Nat /\ n <= out[i].left
    <2>1. out[i].left \in Nat
      BY <1>2 DEF EntryType
    <2>2. Avail \in Nat
      BY ArchType, TypedFacts DEF Avail
    <2> QED
      BY <1>1, <2>1, <2>2 DEF Min2
  <1>4. out' \in Seq(EntryType)
    BY <1>1, <1>2, <1>3, ReadEntryType, UpdateEntry, TypedFacts
  <1>5. ReaderTypes'
    BY <1>1, <1>3, AdvanceTypes, TypedFacts DEF ReadEntry, ReaderTypes
  <1>6. StreamTypes' /\ PollTypes'
    BY TypedFacts DEF ReadEntry, StreamTypes, PollTypes
  <1> QED
    BY <1>4, <1>5, <1>6 DEF DataTypes

LEMMA ComputeDeltaTyped == ASSUME TypeOK, Counted, ComputeDelta PROVE DataTypes'
  <1>1. ReaderTypes' /\ StreamTypes' /\ out' \in Seq(EntryType)
    BY TypedFacts DEF ComputeDelta, ReaderTypes, StreamTypes
  <1>2. ASSUME ~Panic PROVE PollTypes'
    <2>1. PICK delta \in {next - pos, next - pos + U64Max + 1} :
             /\ pos <= next \/ delta = next - pos + U64Max + 1
             /\ call' = [call EXCEPT !.amt = delta, !.rem = delta]
      BY <1>2 DEF ComputeDelta, WrappingSub
    <2>2. delta \in Nat
      BY <2>1, TypedFacts, ArchType, LenBounded DEF Counted
    <2>3. call' \in CallType
      BY <2>1, <2>2, TypedFacts DEF CallType
    <2>4. pc' \in PCs /\ vec' = vec /\ scan' = scan
      BY <1>2 DEF ComputeDelta, PCs
    <2> QED
      BY <2>3, <2>4, TypedFacts DEF PollTypes
  <1> QED
    BY <1>1, <1>2, PanicTypes DEF DataTypes

LEMMA SkipReadTyped == ASSUME TypeOK, SkipRead PROVE DataTypes'
  <1>1. call.rem \in Nat /\ call.amt \in Nat
    BY TypedFacts DEF CallType
  <1>2. Min2(call.amt, SkipBuf) \in Nat
    BY <1>1, EnvironmentAssumption DEF Min2
  <1>3. PICK n \in Reads(Min2(call.amt, SkipBuf)) :
          /\ Advance(n)
          /\ \/ Finish("error")
             \/ /\ n <= call.rem \/ ~opt.checks
                /\ call' = [call EXCEPT !.rem = WrappingSub(@, n)]
                /\ UNCHANGED <<pc, result, vec, scan>>
             \/ Panic /\ result' = result
    BY DEF SkipRead
  <1>4. n \in Nat /\ n <= U64Max
    BY <1>2, ReadsBounds, LenBounded, ArchType, TypedFacts DEF Avail
  <1>5. ReaderTypes'
    BY <1>3, <1>4, AdvanceTypes, TypedFacts DEF SkipRead, ReaderTypes
  <1>6. StreamTypes' /\ PollTypes'
    <2>1. next' = next /\ fields' = fields /\ UNCHANGED <<longname, longlink, pax>>
      BY DEF SkipRead
    <2>2. CASE Finish("error")
      BY <2>1, <2>2, FinishTypes, TypedFacts DEF StreamTypes
    <2>3. CASE Panic /\ result' = result
      BY <2>1, <2>3, PanicTypes, TypedFacts DEF StreamTypes
    <2>4. ASSUME call' = [call EXCEPT !.rem = WrappingSub(@, n)],
                 UNCHANGED <<pc, result, vec, scan>>
          PROVE  StreamTypes' /\ PollTypes'
      <3>1. (IF n <= call.rem THEN call.rem - n ELSE call.rem - n + U64Max + 1) \in Nat
        BY <1>1, <1>4
      <3>2. call' \in CallType
        BY <2>4, <3>1, TypedFacts DEF CallType, WrappingSub
      <3> QED
        BY <2>1, <2>4, <3>2, TypedFacts DEF StreamTypes, PollTypes
    <2> QED
      BY <1>3, <2>2, <2>3, <2>4
  <1>7. out' \in Seq(EntryType)
    BY TypedFacts DEF SkipRead
  <1> QED
    BY <1>5, <1>6, <1>7 DEF DataTypes

LEMMA SkipDoneTyped == ASSUME TypeOK, SkipDone PROVE DataTypes'
  BY TypedFacts DEF SkipDone, DataTypes, ReaderTypes, StreamTypes, PollTypes, PCs

LEMMA SeekDrainTyped == ASSUME TypeOK, SeekDrain PROVE DataTypes'
  BY TypedFacts DEF SeekDrain, DataTypes, ReaderTypes, StreamTypes, PollTypes

LEMMA SeekSkipTyped == ASSUME TypeOK, SeekSkip PROVE DataTypes'
  <1>1. \/ off' = off
        \/ off' = off + call.amt
    BY DEF SeekSkip, SeekTarget
  <1>2. ReaderTypes'
    BY <1>1, TypedFacts DEF SeekSkip, ReaderTypes, CallType
  <1>3. /\ UNCHANGED <<next, fields, longname, longlink, pax, out>>
        /\ \/ Finish("error")
           \/ Park(TRUE) /\ result' = result
           \/ pc' = "header" /\ call' = call /\ vec' = vec /\ scan' = scan /\ result' = result
    BY DEF SeekSkip
  <1>4. StreamTypes' /\ PollTypes'
    <2>1. CASE Finish("error")
      BY <2>1, <1>3, FinishTypes, TypedFacts DEF StreamTypes
    <2>2. CASE Park(TRUE) /\ result' = result
      BY <2>2, <1>3, ParkTypes, TypedFacts DEF StreamTypes
    <2>3. CASE pc' = "header" /\ call' = call /\ vec' = vec /\ scan' = scan /\ result' = result
      BY <2>3, <1>3, TypedFacts DEF StreamTypes, PollTypes, PCs
    <2> QED
      BY <1>3, <2>1, <2>2, <2>3
  <1> QED
    BY <1>2, <1>3, <1>4, TypedFacts DEF DataTypes

LEMMA BlockShortTyped == ASSUME TypeOK, BlockShort PROVE DataTypes'
  <1>1. PICK n \in Reads(Block - sbuf) :
          0 < n /\ n < Block - sbuf /\ Advance(n) /\ sbuf' = sbuf + n
    BY DEF BlockShort
  <1>2. n \in Nat
    BY ReadsBounds, TypedFacts
  <1>3. ReaderTypes'
    BY <1>1, <1>2, AdvanceTypes, TypedFacts DEF ReaderTypes
  <1>4. StreamTypes' /\ PollTypes' /\ out' \in Seq(EntryType)
    BY ParkTypes, TypedFacts DEF BlockShort, StreamTypes
  <1> QED
    BY <1>3, <1>4 DEF DataTypes

LEMMA BlockResumeTyped == ASSUME TypeOK, BlockResume PROVE DataTypes'
  <1>1. Advance(Block - sbuf) /\ sbuf' = 0
    BY DEF BlockResume
  <1>2. ReaderTypes'
    BY <1>1, AdvanceTypes, TypedFacts DEF ReaderTypes
  <1>3. StreamTypes' /\ PollTypes' /\ out' \in Seq(EntryType)
    BY PanicTypes, TypedFacts DEF BlockResume, StreamTypes
  <1> QED
    BY <1>2, <1>3 DEF DataTypes

LEMMA HeaderEofTyped == ASSUME TypeOK, HeaderEof PROVE DataTypes'
  <1>1. NoMoreMembers \/ Finish("error")
    BY DEF HeaderEof
  <1>2. PollTypes' /\ result' \in {"none", "end", "error", "fault"}
    BY <1>1, NoMoreTypes, FinishTypes
  <1> QED
    BY <1>2, TypedFacts DEF HeaderEof, DataTypes, ReaderTypes, StreamTypes

LEMMA ZeroBlockTyped == ASSUME TypeOK, ZeroBlock PROVE DataTypes'
  <1>1. Advance(Block) /\ sbuf' = sbuf /\ UNCHANGED <<fields, longname, longlink, pax, out>>
    BY DEF ZeroBlock, BlockRead
  <1>2. ReaderTypes'
    BY <1>1, AdvanceTypes, TypedFacts DEF ReaderTypes, TypeOK
  <1>3. CASE NoMoreMembers /\ next' = next
    BY <1>1, <1>2, <1>3, NoMoreTypes, TypedFacts DEF DataTypes, StreamTypes
  <1>4. ASSUME next' = next + Block, pc' = "delta",
               call' = [call EXCEPT !.hpos = next + Block],
               UNCHANGED <<vec, scan, result>>
        PROVE  DataTypes'
    <2>0. next + Block \in Nat
      BY TypedFacts
    <2>1. call' \in CallType
      BY <1>4, <2>0, TypedFacts, CallUpdate
    <2> QED
      BY <1>1, <1>2, <1>4, <2>1, TypedFacts DEF DataTypes, StreamTypes, PollTypes, PCs
  <1> QED
    BY <1>3, <1>4 DEF ZeroBlock

LEMMA RejectHeaderTyped == ASSUME TypeOK, RejectHeader PROVE DataTypes'
  <1>1. /\ Advance(Block) /\ sbuf' = sbuf /\ next' = next + Block
        /\ UNCHANGED <<fields, longname, longlink, pax, out>>
    BY DEF RejectHeader, BlockRead
  <1>2. PollTypes' /\ result' \in {"none", "end", "error", "fault"}
    BY FinishTypes DEF RejectHeader
  <1>3. ReaderTypes'
    BY <1>1, AdvanceTypes, TypedFacts DEF ReaderTypes
  <1> QED
    BY <1>1, <1>2, <1>3, TypedFacts DEF DataTypes, StreamTypes

LEMMA ReadMemberTyped == ASSUME TypeOK, ReadMember PROVE DataTypes'
  <1> DEFINE b == BlockAt(arch, off)
  <1>1. /\ HeaderOk(b) /\ Advance(Block) /\ sbuf' = sbuf
        /\ next' = next + Block + RoundUp(EntryOf(b).size)
        /\ UNCHANGED <<longname, longlink, pax>>
        /\ \/ Yield(EntryOf(b)) /\ fields' = fields
           \/ /\ fields' = EntryOf(b) /\ pc' = "dispatch"
              /\ UNCHANGED <<call, vec, scan, out, result>>
    BY DEF ReadMember, BlockRead, AfterMember
  <1>2. b \in BlockType
    BY BlockAtType, ArchType, TypedFacts
  <1>3. EntryOf(b) \in EntryType /\ EntryOf(b).size \in Nat
    BY <1>1, <1>2, EntryOfType
  <1> HIDE DEF b
  <1>4. next' \in Nat
    <2>1. RoundUp(EntryOf(b).size) \in Nat
      BY <1>3, RoundUpNat
    <2> QED
      BY <2>1, <1>1, TypedFacts
  <1>5. ReaderTypes'
    BY <1>1, AdvanceTypes, TypedFacts DEF ReaderTypes
  <1>6. CASE Yield(EntryOf(b)) /\ fields' = fields
    BY <1>1, <1>3, <1>4, <1>5, <1>6, YieldTypes, TypedFacts DEF DataTypes, StreamTypes
  <1>7. CASE fields' = EntryOf(b) /\ pc' = "dispatch"
             /\ UNCHANGED <<call, vec, scan, out, result>>
    BY <1>1, <1>3, <1>4, <1>5, <1>7, TypedFacts
       DEF DataTypes, StreamTypes, PollTypes, PCs
  <1> QED
    BY <1>1, <1>6, <1>7

LEMMA StartDescriptorTyped == ASSUME TypeOK, StartDescriptor PROVE DataTypes'
  <1>1. vec' \in Run
    BY TypedFacts DEF StartDescriptor, Run
  <1> QED
    BY <1>1, TypedFacts
       DEF StartDescriptor, DataTypes, ReaderTypes, StreamTypes, PollTypes, PCs

LEMMA PayloadReadTyped ==
  ASSUME TypeOK, fields # None, PayloadRead
  PROVE  DataTypes' /\ fields' \in EntryType
  <1>1. fields \in EntryType /\ fields.left \in Nat
    BY TypedFacts DEF EntryType
  <1>2. PICK n \in Reads(Min2(fields.left, Room)) :
          /\ n > 0 /\ Advance(n)
          /\ fields' = [fields EXCEPT !.left = @ - n]
          /\ vec' = [vec EXCEPT !.to = @ + n]
    BY DEF PayloadRead
  <1>3. n \in Nat /\ n <= fields.left
    <2>1. vec.to \in Nat /\ vec.from \in Nat
      BY TypedFacts DEF Run
    <2>2. Room \in Nat
      BY <2>1, EnvironmentAssumption DEF Room
    <2>3. Min2(fields.left, Room) \in Nat /\ Min2(fields.left, Room) <= fields.left
      BY <1>1, <2>2 DEF Min2
    <2>4. n \in Nat /\ n <= Min2(fields.left, Room)
      BY <1>2, <2>3, ReadsBounds
    <2> QED
      BY <1>1, <2>3, <2>4
  <1>4. fields' \in EntryType
    <2>1. fields.left - n \in Nat
      BY <1>1, <1>3
    <2>2. [fields EXCEPT !.left = @ - n] \in EntryType
      BY <1>1, <2>1 DEF EntryType
    <2> QED
      BY <1>2, <2>2
  <1>5. vec' \in Run
    <2>1. [vec EXCEPT !.to = @ + n] \in Run
      BY <1>3, TypedFacts DEF Run
    <2> QED
      BY <1>2, <2>1
  <1>6. ReaderTypes'
    BY <1>2, <1>3, AdvanceTypes, TypedFacts DEF PayloadRead, ReaderTypes
  <1> QED
    BY <1>4, <1>5, <1>6, TypedFacts
       DEF PayloadRead, DataTypes, StreamTypes, PollTypes, PCs

LEMMA PayloadDoneTyped == ASSUME TypeOK, fields # None, PayloadDone PROVE DataTypes'
  <1>1. fields.blk.pax \in Nat \cup {None}
    BY TypedFacts DEF EntryType, BlockType
  <1>2. PaxReadings \subseteq Nat \cup {None}
    BY <1>1 DEF PaxReadings
  <1>3. /\ longname' \in Run \cup {None} /\ longlink' \in Run \cup {None}
        /\ pax' \in PaxType \cup {None}
    BY <1>2, TypedFacts DEF PayloadDone, PaxType, StreamTypes
  <1>4. call' \in CallType
    <2>1. call.processed + 1 \in Nat
      BY TypedFacts DEF CallType
    <2> QED
      BY <2>1, TypedFacts, CallUpdate DEF PayloadDone
  <1> QED
    BY <1>3, <1>4, TypedFacts, NoLocals
       DEF PayloadDone, DataTypes, ReaderTypes, StreamTypes, PollTypes, PCs

LEMMA YieldMemberTyped ==
  ASSUME TypeOK, fields # None, NEW size \in Nat, YieldMember(size),
         UNCHANGED <<off, pos, sbuf, next>>
  PROVE  DataTypes'
  <1> DEFINE e == [fields EXCEPT !.size = size, !.long = longname,
                                 !.link = longlink, !.pax = pax]
  <1>1. e \in EntryType
    <2>1. fields \in EntryType
      BY TypedFacts
    <2>2. /\ longname \in Run \cup {None} /\ longlink \in Run \cup {None}
          /\ pax \in PaxType \cup {None}
      BY TypedFacts DEF StreamTypes
    <2> QED
      BY <2>1, <2>2 DEF EntryType
  <1>2. Yield(e) /\ fields' = None /\ longname' = None /\ longlink' = None /\ pax' = None
    BY DEF YieldMember
  <1> HIDE DEF e
  <1>3. PollTypes' /\ out' \in Seq(EntryType) /\ result' = result
    BY <1>1, <1>2, YieldTypes, TypedFacts
  <1> QED
    BY <1>2, <1>3, TypedFacts DEF DataTypes, ReaderTypes, StreamTypes

LEMMA YieldPlainTyped == ASSUME TypeOK, fields # None, YieldPlain PROVE DataTypes'
  <1>1. fields.size \in Nat
    BY TypedFacts DEF EntryType
  <1> QED
    BY <1>1, YieldMemberTyped DEF YieldPlain

LEMMA StartSparseTyped == ASSUME TypeOK, fields # None, StartSparse PROVE DataTypes'
  <1> DEFINE s == [todo |-> fields.blk.sparse, more |-> fields.blk.ext,
                   cur |-> 0, remaining |-> fields.size]
  <1>1. /\ UNCHANGED <<off, pos, sbuf, next, fields, longname, longlink, pax, out>>
        /\ \/ Finish("error")
           \/ pc' = "sparse" /\ scan' = s /\ UNCHANGED <<call, vec, result>>
    BY DEF StartSparse
  <1>2. s \in ScanType
    <2>1. fields.blk \in BlockType /\ fields.size \in Nat
      BY TypedFacts DEF EntryType
    <2> QED
      BY <2>1 DEF BlockType, ScanType
  <1> HIDE DEF s
  <1>3. CASE Finish("error")
    BY <1>1, <1>3, FinishTypes, TypedFacts DEF DataTypes, ReaderTypes, StreamTypes
  <1>4. CASE pc' = "sparse" /\ scan' = s /\ UNCHANGED <<call, vec, result>>
    BY <1>1, <1>2, <1>4, TypedFacts
       DEF DataTypes, ReaderTypes, StreamTypes, PollTypes, PCs
  <1> QED
    BY <1>1, <1>3, <1>4

LEMMA AddSparseBlockTyped == ASSUME TypeOK, AddSparseBlock PROVE DataTypes'
  <1> DEFINE d == Head(scan.todo)
             s == [scan EXCEPT !.todo = Tail(@), !.cur = d.offset + d.len,
                               !.remaining = @ - d.len]
  <1>1. /\ scan.todo # <<>>
        /\ UNCHANGED <<off, pos, sbuf, next, fields, longname, longlink, pax, out>>
        /\ \/ Finish("error")
           \/ SparseFits(d) /\ pc' = pc /\ scan' = s /\ UNCHANGED <<call, vec, result>>
    BY DEF AddSparseBlock
  <1>2. ASSUME SparseFits(d) PROVE s \in ScanType
    <2>1. scan.todo \in Seq(SparseDesc \cup {None}) /\ scan.remaining \in Nat
      BY TypedFacts DEF ScanType
    <2>2. d \in SparseDesc \cup {None} /\ Tail(scan.todo) \in Seq(SparseDesc \cup {None})
      BY <1>1, <2>1
    <2>3. d \in SparseDesc /\ d.len <= scan.remaining
      BY <1>2, <2>2 DEF SparseFits
    <2>4. d.offset + d.len \in Nat /\ scan.remaining - d.len \in Nat
      BY <2>1, <2>3 DEF SparseDesc
    <2> HIDE DEF d
    <2> QED
      BY <2>2, <2>4, TypedFacts DEF ScanType
  <1> HIDE DEF s, d
  <1>3. CASE Finish("error")
    BY <1>1, <1>3, FinishTypes, TypedFacts DEF DataTypes, ReaderTypes, StreamTypes
  <1>4. CASE SparseFits(d) /\ pc' = pc /\ scan' = s /\ UNCHANGED <<call, vec, result>>
    BY <1>1, <1>2, <1>4, TypedFacts DEF DataTypes, ReaderTypes, StreamTypes, PollTypes
  <1> QED
    BY <1>1, <1>3, <1>4

LEMMA ExtensionEofTyped == ASSUME TypeOK, ExtensionEof PROVE DataTypes'
  BY FinishTypes, TypedFacts DEF ExtensionEof, DataTypes, ReaderTypes, StreamTypes

LEMMA ReadExtensionTyped == ASSUME TypeOK, ReadExtension PROVE DataTypes'
  <1> DEFINE b == BlockAt(arch, off)
             s == [scan EXCEPT !.todo = b.sparse, !.more = b.ext]
  <1>1. /\ Advance(Block) /\ sbuf' = sbuf /\ next' = next + Block /\ scan' = s
        /\ UNCHANGED <<fields, longname, longlink, pax, result, pc, call, vec, out>>
    BY DEF ReadExtension, BlockRead
  <1>2. s \in ScanType
    <2>1. b \in BlockType
      BY BlockAtType, ArchType, TypedFacts
    <2> HIDE DEF b
    <2> QED
      BY <2>1, TypedFacts DEF BlockType, ScanType
  <1>3. ReaderTypes'
    BY <1>1, AdvanceTypes, TypedFacts DEF ReaderTypes
  <1> HIDE DEF s
  <1> QED
    BY <1>1, <1>2, <1>3, TypedFacts DEF DataTypes, StreamTypes, PollTypes

LEMMA SparseDoneTyped == ASSUME TypeOK, fields # None, SparseDone PROVE DataTypes'
  <1>1. scan.cur \in Nat
    BY TypedFacts DEF ScanType
  <1>2. CASE Finish("error") /\ UNCHANGED <<fields, longname, longlink, pax, out>>
    BY <1>2, FinishTypes, TypedFacts DEF SparseDone, DataTypes, ReaderTypes, StreamTypes
  <1>3. CASE YieldMember(scan.cur)
    BY <1>1, <1>3, YieldMemberTyped DEF SparseDone
  <1> QED
    BY <1>2, <1>3 DEF SparseDone

LEMMA ReadPendingTyped == ASSUME TypeOK, ReadPending PROVE DataTypes'
  BY ParkTypes, TypedFacts DEF ReadPending, DataTypes, ReaderTypes, StreamTypes

LEMMA ReadFailsTyped == ASSUME TypeOK, ReadFails PROVE DataTypes'
  BY FinishTypes, TypedFacts DEF ReadFails, DataTypes, ReaderTypes, StreamTypes

-----------------------------------------------------------------------------
(***************************************************************************)
(* How a step moves the reader: not at all, by bytes that were there and   *)
(* are counted, or by a seek.                                              *)
(***************************************************************************)
Stays == off' = off /\ pos' = pos
Takes == \E n \in Nat : n <= Avail /\ off' = off + n /\ pos' = pos + n
Seeks == pc = "seek" /\ off' = off + call.amt /\ pos' = pos

\* Reading a block takes it.
LEMMA BlockReadTakes == ASSUME TypeOK, NEW b, BlockRead(b) PROVE Takes
  <1>1. Block \in Reads(Block) /\ Advance(Block)
    BY DEF BlockRead
  <1>2. Block <= Avail
    BY <1>1, ReadsBounds, TypedFacts
  <1> QED
    BY <1>1, <1>2, TypedFacts DEF Takes, Advance

LEMMA ReaderMoves ==
  ASSUME TypeOK, HasFields, [Next]_vars
  PROVE  arch' = arch /\ opt' = opt /\ (Stays \/ Takes \/ Seeks)
  <1>1. arch' = arch /\ opt' = opt
    BY DEF Next, ReaderStep, PollStep, Poll, PollDone, CallEntries, ReadEntry, ComputeDelta, SkipRead, SkipDone, SeekDrain, SeekSkip, BlockShort, BlockResume, HeaderEof, ZeroBlock, RejectHeader, ReadMember, StartDescriptor, PayloadRead, PayloadDone, YieldPlain, StartSparse, AddSparseBlock, ExtensionEof, ReadExtension, SparseDone, ReadPending, ReadFails
  <1>2. ASSUME Next PROVE Stays \/ Takes \/ Seeks
    <2>1. ASSUME NEW i \in DOMAIN out, ReadEntry(i) PROVE Takes
      <3>1. PICK n \in 1 .. Min2(out[i].left, Avail) : Advance(n)
        BY <2>1 DEF ReadEntry
      <3>2. out[i].left \in Nat /\ Avail \in Nat
        <4>1. out[i] \in EntryType
          BY <2>1, TypedFacts
        <4>2. out[i].left \in Nat
          BY <4>1 DEF EntryType
        <4>3. Avail \in Nat
          BY ArchType, TypedFacts DEF Avail
        <4> QED
          BY <4>2, <4>3
      <3> QED
        BY <3>1, <3>2 DEF Takes, Advance, Min2
    <2>2. CASE SkipRead
      <3>1. PICK n \in Reads(Min2(call.amt, SkipBuf)) : Advance(n)
        BY <2>2 DEF SkipRead
      <3>2. Min2(call.amt, SkipBuf) \in Nat
        BY TypedFacts, EnvironmentAssumption DEF CallType, Min2
      <3> QED
        BY <3>1, <3>2, ReadsBounds DEF Takes, Advance
    <2>3. CASE SeekSkip
      BY <2>3 DEF SeekSkip, SeekTarget, Stays, Seeks
    <2>4. CASE BlockShort \/ BlockResume
      <3>1. PICK n \in Reads(Block - sbuf) : Advance(n)
        BY <2>4 DEF BlockShort, BlockResume
      <3> QED
        BY <3>1, ReadsBounds, TypedFacts DEF Takes, Advance
    <2>5. CASE ZeroBlock \/ RejectHeader \/ ReadMember \/ ReadExtension
      BY <2>5, BlockReadTakes DEF ZeroBlock, RejectHeader, ReadMember, ReadExtension
    <2>6. CASE PayloadRead
      <3>1. PICK n \in Reads(Min2(fields.left, Room)) : n > 0 /\ Advance(n)
        BY <2>6 DEF PayloadRead
      <3>2. Min2(fields.left, Room) \in Nat
        <4>1. fields.left \in Nat
          BY <2>6, TypedFacts DEF HasFields, PayloadRead, EntryType
        <4>2. Room \in Nat
          BY TypedFacts, EnvironmentAssumption DEF Room, Run
        <4> QED
          BY <4>1, <4>2 DEF Min2
      <3> QED
        BY <3>1, <3>2, ReadsBounds DEF Takes, Advance
    <2>7. CASE \/ Poll \/ PollDone \/ CallEntries \/ ComputeDelta \/ SkipDone \/ SeekDrain
               \/ HeaderEof \/ StartDescriptor \/ PayloadDone \/ YieldPlain \/ StartSparse
               \/ AddSparseBlock \/ ExtensionEof \/ SparseDone \/ ReadPending \/ ReadFails
      BY <2>7 DEF Stays, Poll, PollDone, CallEntries, ComputeDelta, SkipDone, SeekDrain,
            HeaderEof, StartDescriptor, PayloadDone, YieldPlain, StartSparse,
            AddSparseBlock, ExtensionEof, SparseDone, ReadPending, ReadFails
    <2> QED
      BY <1>2, <2>1, <2>2, <2>3, <2>4, <2>5, <2>6, <2>7 DEF Next, ReaderStep, PollStep
  <1>3. CASE UNCHANGED vars
    BY <1>3 DEF Stays
  <1> QED
    BY <1>1, <1>2, <1>3

\* The count stays behind the reader and inside the archive.
LEMMA CountedStep ==
  ASSUME TypeOK, Counted, HasFields, [Next]_vars PROVE Counted'
  <1>1. arch' = arch /\ (Stays \/ Takes \/ Seeks)
    BY ReaderMoves
  <1>2. CASE Stays
    BY <1>1, <1>2 DEF Stays, Counted
  <1>3. CASE Takes
    BY <1>1, <1>3, ArchType, TypedFacts DEF Takes, Counted, Avail
  <1>4. CASE Seeks
    BY <1>1, <1>4, TypedFacts DEF Seeks, Counted, CallType
  <1> QED
    BY <1>1, <1>2, <1>3, <1>4

\* Only a header that was read leads past the header.
LEMMA HasFieldsStep ==
  ASSUME TypeOK, HasFields, [Next]_vars PROVE HasFields'
  <1> USE DEF HasFields
  <1>1. CASE Poll
    BY <1>1 DEF Poll
  <1>2. CASE PollDone
    BY <1>2 DEF PollDone
  <1>3. CASE CallEntries
    BY <1>3 DEF CallEntries
  <1>4. ASSUME NEW i \in DOMAIN out, ReadEntry(i) PROVE HasFields'
    BY <1>4 DEF ReadEntry
  <1>5. CASE ComputeDelta
    BY <1>5 DEF ComputeDelta, Panic, EndPoll
  <1>6. CASE SkipRead
    BY <1>6 DEF SkipRead, Panic, Finish, Advance, EndPoll
  <1>7. CASE SkipDone
    BY <1>7 DEF SkipDone
  <1>8. CASE SeekDrain
    BY <1>8 DEF SeekDrain
  <1>9. CASE SeekSkip
    BY <1>9 DEF SeekSkip, Finish, Park, EndPoll
  <1>10. CASE BlockShort
    BY <1>10 DEF BlockShort, Park, Advance, EndPoll
  <1>11. CASE BlockResume
    BY <1>11 DEF BlockResume, Panic, Advance, EndPoll
  <1>12. CASE HeaderEof
    BY <1>12 DEF HeaderEof, NoMoreMembers, Finish, EndPoll
  <1>13. CASE ZeroBlock
    BY <1>13 DEF ZeroBlock, NoMoreMembers, Finish, EndPoll
  <1>14. CASE RejectHeader
    BY <1>14 DEF RejectHeader, Finish, EndPoll
  <1>15. CASE ReadMember
    <2> DEFINE e == EntryOf(BlockAt(arch, off))
    <2>1. \/ pc' = "idle"
          \/ fields' = e
      BY <1>15 DEF ReadMember, Yield, EndPoll
    <2>2. e # None
      BY <1>15, EntryOfType, BlockAtType, ArchType, TypedFacts, NoEntryAssumption DEF ReadMember
    <2> HIDE DEF e
    <2> QED
      BY <2>1, <2>2
  <1>16. CASE StartDescriptor
    BY <1>16 DEF StartDescriptor
  <1>17. CASE PayloadRead
    BY <1>17, PayloadReadTyped, NoEntryAssumption DEF PayloadRead
  <1>18. CASE PayloadDone
    BY <1>18 DEF PayloadDone
  <1>19. CASE YieldPlain
    BY <1>19 DEF YieldPlain, YieldMember, Yield, EndPoll
  <1>20. CASE StartSparse
    BY <1>20 DEF StartSparse, Finish, EndPoll
  <1>21. CASE AddSparseBlock
    BY <1>21 DEF AddSparseBlock, Finish, EndPoll
  <1>22. CASE ExtensionEof
    BY <1>22 DEF ExtensionEof, Finish, EndPoll
  <1>23. CASE ReadExtension
    BY <1>23 DEF ReadExtension
  <1>24. CASE SparseDone
    BY <1>24 DEF SparseDone, YieldMember, Yield, Finish, EndPoll
  <1>25. CASE ReadPending
    BY <1>25 DEF ReadPending, Park, EndPoll
  <1>26. CASE ReadFails
    BY <1>26 DEF ReadFails, Finish, EndPoll
  <1>27. CASE UNCHANGED vars
    BY <1>27
  <1> QED
    BY <1>1, <1>2, <1>3, <1>4, <1>5, <1>6, <1>7, <1>8, <1>9, <1>10, <1>11, <1>12, <1>13, <1>14, <1>15, <1>16, <1>17, <1>18, <1>19, <1>20, <1>21, <1>22, <1>23, <1>24, <1>25, <1>26, <1>27
       DEF Next, ReaderStep, PollStep

\* The types are kept, action by action.
LEMMA DataStep ==
  ASSUME TypeOK, Counted, HasFields, [Next]_vars PROVE DataTypes'
  <1>1. CASE Poll
    BY <1>1, PollTyped
  <1>2. CASE PollDone
    BY <1>2, TypedFacts DEF PollDone, DataTypes, ReaderTypes, StreamTypes, PollTypes
  <1>3. CASE CallEntries
    BY <1>3, CallEntriesTyped
  <1>4. ASSUME NEW i \in DOMAIN out, ReadEntry(i) PROVE DataTypes'
    BY <1>4, ReadEntryTyped
  <1>5. CASE ComputeDelta
    BY <1>5, ComputeDeltaTyped
  <1>6. CASE SkipRead
    BY <1>6, SkipReadTyped
  <1>7. CASE SkipDone
    BY <1>7, SkipDoneTyped
  <1>8. CASE SeekDrain
    BY <1>8, SeekDrainTyped
  <1>9. CASE SeekSkip
    BY <1>9, SeekSkipTyped
  <1>10. CASE BlockShort
    BY <1>10, BlockShortTyped
  <1>11. CASE BlockResume
    BY <1>11, BlockResumeTyped
  <1>12. CASE HeaderEof
    BY <1>12, HeaderEofTyped
  <1>13. CASE ZeroBlock
    BY <1>13, ZeroBlockTyped
  <1>14. CASE RejectHeader
    BY <1>14, RejectHeaderTyped
  <1>15. CASE ReadMember
    BY <1>15, ReadMemberTyped
  <1>16. CASE StartDescriptor
    BY <1>16, StartDescriptorTyped
  <1>17. CASE PayloadRead
    BY <1>17, PayloadReadTyped DEF HasFields, PayloadRead
  <1>18. CASE PayloadDone
    BY <1>18, PayloadDoneTyped DEF HasFields, PayloadDone
  <1>19. CASE YieldPlain
    BY <1>19, YieldPlainTyped DEF HasFields, YieldPlain
  <1>20. CASE StartSparse
    BY <1>20, StartSparseTyped DEF HasFields, StartSparse
  <1>21. CASE AddSparseBlock
    BY <1>21, AddSparseBlockTyped
  <1>22. CASE ExtensionEof
    BY <1>22, ExtensionEofTyped
  <1>23. CASE ReadExtension
    BY <1>23, ReadExtensionTyped
  <1>24. CASE SparseDone
    BY <1>24, SparseDoneTyped DEF HasFields, SparseDone
  <1>25. CASE ReadPending
    BY <1>25, ReadPendingTyped
  <1>26. CASE ReadFails
    BY <1>26, ReadFailsTyped
  <1>27. CASE UNCHANGED vars
    BY <1>27, TypedFacts DEF DataTypes, ReaderTypes, StreamTypes, PollTypes
  <1> QED
    BY <1>1, <1>2, <1>3, <1>4, <1>5, <1>6, <1>7, <1>8, <1>9, <1>10, <1>11, <1>12, <1>13, <1>14, <1>15, <1>16, <1>17, <1>18, <1>19, <1>20, <1>21, <1>22, <1>23, <1>24, <1>25, <1>26, <1>27
       DEF Next, ReaderStep, PollStep

LEMMA TypeInvStep == TypeInv /\ [Next]_vars => TypeInv'
  <1> SUFFICES ASSUME TypeOK, Counted, HasFields, [Next]_vars PROVE TypeInv'
    BY DEF TypeInv
  <1>1. arch' \in Archives /\ opt' \in Options
    BY ReaderMoves DEF TypeOK
  <1>2. FlagTypes'
    BY FlagStep DEF TypeOK
  <1>3. TypeOK'
    BY <1>1, <1>2, DataStep DEF TypeOK, DataTypes
  <1> QED
    BY <1>3, CountedStep, HasFieldsStep DEF TypeInv

LEMMA TypeInvInit == Init => TypeInv
  BY TypeInit, ArchType DEF Init, TypeInv, Counted, HasFields

\* The stream, its reader and its entries keep their types; offsets and the
\* remainders of the skip loop stay natural numbers, whatever the reader and
\* the caller do.
THEOREM TypeCorrect == Spec => []TypeInv
  BY TypeInvInit, TypeInvStep, PTL DEF Spec

-----------------------------------------------------------------------------
\* A stream that has answered the end or an error rests, and is done.
Answered == result # "none" => done /\ pc = "idle"

\* Reading from an entry hands out no other.
LEMMA ReadKeepsLen ==
  ASSUME TypeInv, NEW i \in DOMAIN out, ReadEntry(i) PROVE Len(out') = Len(out)
  <1>1. PICK n :
          out' = [out EXCEPT ![i].left = @ - n, ![i].got = Deliver(@, n)]
    BY DEF ReadEntry
  <1>2. out \in Seq(EntryType)
    BY TypedFacts DEF TypeInv
  <1> QED
    BY <1>1, <1>2

\* After its answer a stream is only asked again, read from or begun anew.
LEMMA AnsweredRests ==
  ASSUME TypeInv, Answered, Next, result # "none"
  PROVE  /\ Len(out') = Len(out)
         /\ \/ pc' = pc /\ done' = done /\ result' = result
            \/ pos = 0 /\ result' = "none"
  <1>1. pc = "idle" /\ done
    BY DEF Answered
  <1>2. ~ReaderStep /\ ~PollStep /\ ~ReadPending /\ ~ReadFails /\ ~Poll
    BY <1>1
       DEF ReaderStep, PollStep, Poll, ComputeDelta, SkipRead, SkipDone, SeekDrain,
           SeekSkip, BlockShort, BlockResume, HeaderEof, ZeroBlock, RejectHeader,
           ReadMember, StartDescriptor, PayloadRead, PayloadDone, YieldPlain, StartSparse,
           AddSparseBlock, ExtensionEof, ReadExtension, SparseDone, ReadPending,
           ReadFails, AtRead, WantsExtension
  <1>3. CASE PollDone
    BY <1>3 DEF PollDone
  <1>4. CASE CallEntries
    BY <1>4 DEF CallEntries
  <1>5. ASSUME NEW i \in DOMAIN out, ReadEntry(i)
        PROVE  /\ Len(out') = Len(out)
               /\ pc' = pc /\ done' = done /\ result' = result
    BY <1>5, ReadKeepsLen DEF ReadEntry
  <1> QED
    BY <1>2, <1>3, <1>4, <1>5 DEF Next

\* The answer is given as the poll ends.
LEMMA AnsweredStep == TypeInv /\ Answered /\ [Next]_vars => Answered'
  <1> SUFFICES ASSUME TypeInv, Answered, [Next]_vars PROVE Answered'
    OBVIOUS
  <1>1. CASE UNCHANGED vars
    BY <1>1 DEF Answered
  <1>2. CASE Next /\ result # "none"
    BY <1>2, AnsweredRests DEF Answered
  <1>3. CASE Next /\ result = "none"
    <2>1. result' = result \/ \E r : Finish(r)
      BY <1>3
         DEF Next, ReaderStep, PollStep, Poll, PollDone, CallEntries, ReadEntry,
             ComputeDelta, SkipRead, SkipDone, SeekDrain, SeekSkip, BlockShort,
             BlockResume, HeaderEof, ZeroBlock, RejectHeader, ReadMember, NoMoreMembers,
             StartDescriptor, PayloadRead, PayloadDone, YieldPlain, YieldMember, Yield,
             StartSparse, AddSparseBlock, ExtensionEof, ReadExtension, SparseDone,
             ReadPending, ReadFails
    <2> QED
      BY <1>3, <2>1 DEF Finish, EndPoll, Answered
  <1> QED
    BY <1>1, <1>2, <1>3

(***************************************************************************)
(* Whatever the reader and the caller do, a stream that has ended or       *)
(* failed hands out nothing more and does not change its answer, unless    *)
(* entries() begins it anew (`done` in EntriesFields, archive.rs:665-676). *)
(***************************************************************************)
THEOREM FusedCorrect == Spec => StreamFused
  <1>1. Init => Answered
    BY DEF Init, Answered
  <1>2. TypeInv /\ Answered /\ [Next]_vars
          => [result # "none" => (result' = result \/ pos = 0)
                                 /\ Len(out') = Len(out)]_vars
    BY AnsweredRests
  <1> QED
    BY <1>1, <1>2, TypeCorrect, AnsweredStep, PTL DEF Spec, StreamFused

-----------------------------------------------------------------------------
(***************************************************************************)
(* Framing, for archives that are read and not seeked                      *)
(***************************************************************************)
SeekFree == \A o \in Options : o.seek = "none"

\* A reader that is never seeked is where pos says.
LEMMA InStepStep ==
  ASSUME TypeInv, Framing, [Next]_vars PROVE InStep'
  <1>1. arch' = arch /\ (Stays \/ Takes \/ Seeks)
    BY ReaderMoves DEF TypeInv
  <1>2. ~Seeks
    BY DEF Framing, Aimed, Seeks
  <1>3. CASE Stays
    BY <1>1, <1>3 DEF Stays, InStep, Framing
  <1>4. CASE Takes
    BY <1>1, <1>4, ArchType, TypedFacts DEF Takes, InStep, Framing, TypeInv, Avail
  <1> QED
    BY <1>1, <1>2, <1>3, <1>4

\* A skip that comes to rest does so at the next header: a remainder that
\* wrapped never comes to rest.
LEMMA SkipRests ==
  ASSUME TypeInv, Framing, pc = "skip", call.rem = 0 PROVE off = next
  BY ArchType, LenBounded, TypedFacts DEF TypeInv, Framing, InStep, Aimed

\* A round of the skip loop keeps the remainder right, up to one wrap.
LEMMA SkipReadAims ==
  ASSUME TypeInv, Framing, SkipRead PROVE Aimed'
  <1> USE DEF TypeInv
  <1>1. PICK n \in Reads(Min2(call.amt, SkipBuf)) :
          /\ Advance(n)
          /\ \/ Finish("error")
             \/ /\ call' = [call EXCEPT !.rem = WrappingSub(@, n)]
                /\ pc' = pc
             \/ Panic
    BY DEF SkipRead
  <1>2. n \in Nat /\ n <= Avail
    <2>1. Min2(call.amt, SkipBuf) \in Nat
      BY TypedFacts, EnvironmentAssumption DEF CallType, Min2
    <2> QED
      BY <1>1, <2>1, ReadsBounds
  <1>3. off' = off + n /\ next' = next /\ pc = "skip" /\ call.hpos = next
    BY <1>1 DEF SkipRead, Advance, Framing, Aimed
  <1>4. CASE Finish("error") \/ Panic
    BY <1>4 DEF Finish, Panic, EndPoll, Aimed
  <1>5. ASSUME call' = [call EXCEPT !.rem = WrappingSub(@, n)],
               pc' = pc
        PROVE  Aimed'
    <2>1. call \in CallType /\ call.rem \in Nat
      BY TypedFacts DEF CallType
    <2>2. call'.rem = (IF n <= call.rem THEN call.rem - n ELSE call.rem - n + U64Max + 1)
      BY <1>5, <2>1 DEF CallType, WrappingSub
    <2>3. call'.hpos = next
      BY <1>3, <1>5, <2>1 DEF CallType
    <2>4. off <= arch.len /\ arch.len <= U64Max /\ arch.len \in Nat
      BY LenBounded, ArchType DEF Framing, InStep
    <2>5. n <= arch.len - off \/ n = 0
      BY <1>2, <2>4, TypedFacts DEF Avail
    <2>6. call.rem = next - off \/ call.rem = next - off + U64Max + 1
      BY <1>3 DEF Framing, Aimed
    <2>7. call'.rem \in {next - off', next - off' + U64Max + 1}
      <3>1. CASE n <= call.rem
        <4>1. call'.rem = call.rem - n /\ off' = off + n /\ next' = next
          BY <1>3, <2>2, <3>1
        <4>2. CASE call.rem = next - off
          <5>1. call'.rem = next - (off + n)
            BY <1>2, <2>1, <4>1, <4>2, TypedFacts DEF ReaderTypes, StreamTypes
          <5> QED
            BY <4>1, <5>1
        <4>3. CASE call.rem = next - off + U64Max + 1
          <5>1. call'.rem = next - (off + n) + U64Max + 1
            <6>1. off \in Nat /\ next \in Nat /\ U64Max \in Nat /\ n \in Nat
              BY <1>2, TypedFacts, WidthAssumption
            <6>2. call'.rem = (next - off + U64Max + 1) - n
              BY <4>1, <4>3
            <6> HIDE DEF TypeInv
            <6> QED
              BY <6>1, <6>2
          <5> QED
            BY <4>1, <5>1
        <4> QED
          BY <2>6, <4>2, <4>3
      <3>2. CASE n > call.rem
        <4>1. call.rem = next - off
          BY <1>2, <2>1, <2>4, <2>5, <2>6, <3>2, TypedFacts
        <4> QED
          BY <1>2, <1>3, <2>1, <2>2, <3>2, <4>1, TypedFacts
      <3> QED
        BY <1>2, <2>1, <3>1, <3>2
    <2> QED
      BY <1>3, <1>5, <2>3, <2>7 DEF Aimed
  <1> QED
    BY <1>1, <1>4, <1>5

\* The poll heads for the next header, and header_pos says so.
LEMMA AimedStep ==
  ASSUME TypeInv, Framing, opt.seek = "none", [Next]_vars PROVE Aimed'
  <1> USE DEF TypeInv
  <1>0. Aimed /\ pos = off
    BY DEF Framing, InStep
  <1>1. CASE Poll
    <2>1. \/ pc' = "dispatch"
          \/ pc' = "delta" /\ call' = [call EXCEPT !.processed = 1, !.hpos = next]
      BY <1>1 DEF Poll
    <2>2. [call EXCEPT !.processed = 1, !.hpos = next].hpos = next
      BY TypedFacts DEF CallType
    <2>3. next' = next
      BY <1>1 DEF Poll
    <2> QED
      BY <2>1, <2>2, <2>3 DEF Aimed
  <1>2. CASE ComputeDelta
    <2>1. ASSUME ~Panic PROVE Aimed'
      <3>1. PICK delta \in {next - pos, next - pos + U64Max + 1} :
               call' = [call EXCEPT !.amt = delta, !.rem = delta]
        BY <1>2, <2>1 DEF ComputeDelta, WrappingSub
      <3>2. pc' = "skip" /\ next' = next /\ off' = off /\ pc = "delta"
        BY <1>2, <2>1 DEF ComputeDelta
      <3>3. call'.rem = delta /\ call'.hpos = call.hpos
        BY <3>1, TypedFacts DEF CallType
      <3> QED
        BY <1>0, <3>1, <3>2, <3>3 DEF Aimed
    <2> QED
      BY <2>1 DEF Panic, EndPoll, Aimed
  <1>3. CASE SkipRead
    BY <1>3, SkipReadAims
  <1>4. CASE SkipDone
    BY <1>0, <1>4, SkipRests DEF SkipDone, Aimed
  <1>5. CASE ZeroBlock
    <2>1. CASE pc' = "idle"
      BY <2>1 DEF Aimed
    <2>2. CASE pc' # "idle"
      <3>1. /\ pc' = "delta" /\ next' = next + Block
            /\ call' = [call EXCEPT !.hpos = next + Block]
        BY <1>5, <2>2 DEF ZeroBlock, NoMoreMembers, Finish, EndPoll
      <3>2. call'.hpos = next + Block
        BY <3>1, TypedFacts DEF CallType
      <3> QED
        BY <3>1, <3>2 DEF Aimed
    <2> QED
      BY <2>1, <2>2
  <1>6. CASE PayloadDone
    <2>1. /\ pc' = "delta" /\ next' = next
          /\ call' = [call EXCEPT !.processed = @ + 1, !.hpos = next]
      BY <1>6 DEF PayloadDone
    <2>2. call'.hpos = next
      BY <2>1, TypedFacts DEF CallType
    <2> QED
      BY <2>1, <2>2 DEF Aimed
  <1>7. CASE SeekDrain \/ SeekSkip
    BY <1>0, <1>7 DEF SeekDrain, SeekSkip, Aimed
  <1>8. CASE PollDone \/ UNCHANGED vars
    BY <1>0, <1>8 DEF PollDone, Aimed
  <1>9. ASSUME NEW i \in DOMAIN out, ReadEntry(i) PROVE Aimed'
    BY <1>9 DEF ReadEntry, Aimed
  <1>10. CASE \/ CallEntries \/ BlockShort \/ BlockResume \/ HeaderEof \/ RejectHeader
              \/ ReadMember \/ StartDescriptor \/ PayloadRead \/ YieldPlain \/ StartSparse
              \/ AddSparseBlock \/ ExtensionEof \/ ReadExtension \/ SparseDone
              \/ ReadPending \/ ReadFails
    <2>1. pc' \in {"idle", "parked", "panicked", "dispatch", "payload", "sparse"}
      BY <1>10 DEF CallEntries, BlockShort, BlockResume, HeaderEof, RejectHeader,
            ReadMember, StartDescriptor, PayloadRead, YieldPlain, StartSparse,
            AddSparseBlock, ExtensionEof, ReadExtension, WantsExtension, SparseDone,
            ReadPending, ReadFails, NoMoreMembers, Finish, Park, Panic, Yield,
            YieldMember, EndPoll
    <2> QED
      BY <2>1 DEF Aimed
  <1> QED
    BY <1>1, <1>2, <1>3, <1>4, <1>5, <1>6, <1>7, <1>8, <1>9, <1>10
       DEF Next, ReaderStep, PollStep

\* A header parsed where the poll aimed makes a genuine entry.
LEMMA EntryOfGenuine ==
  ASSUME TypeInv, Framing, ReadMember
  PROVE  Genuine(EntryOf(BlockAt(arch, off)))
  <1> DEFINE b == BlockAt(arch, off)
  <1>1. ~b.zero /\ b.cksum
    BY DEF ReadMember, HeaderOk
  <1>2. off = next /\ call.hpos = next
    BY DEF ReadMember, Framing, Aimed
  <1> QED
    BY <1>1, <1>2 DEF EntryOf, Genuine

(***************************************************************************)
(* The record e is what archive a holds where it says: Genuine, with the   *)
(* archive spelled out.                                                    *)
(***************************************************************************)
Heads(a, e) ==
    /\ e.blk = BlockAt(a, e.hpos)
    /\ ~e.blk.zero /\ e.blk.cksum
    /\ e.fpos = e.hpos + Block

\* Only where and what an entry is matters.
LEMMA SameHeader ==
  ASSUME NEW a, NEW e, NEW f, Heads(a, e),
         f.blk = e.blk, f.hpos = e.hpos, f.fpos = e.fpos
  PROVE  Heads(a, f)
  BY DEF Heads

\* Updates of an entry keep what and where it is.
LEMMA UpdatedHeader ==
  ASSUME NEW e \in EntryType, NEW a, Heads(a, e), NEW n, NEW g, NEW s, NEW l, NEW k, NEW p
  PROVE  /\ Heads(a, [e EXCEPT !.left = n])
         /\ Heads(a, [e EXCEPT !.left = n, !.got = g])
         /\ Heads(a, [e EXCEPT !.size = s, !.long = l, !.link = k, !.pax = p])
  <1>1. LET f == [e EXCEPT !.left = n]
        IN  f.blk = e.blk /\ f.hpos = e.hpos /\ f.fpos = e.fpos
    BY DEF EntryType
  <1>2. LET f == [e EXCEPT !.left = n, !.got = g]
        IN  f.blk = e.blk /\ f.hpos = e.hpos /\ f.fpos = e.fpos
    BY DEF EntryType
  <1>3. LET f == [e EXCEPT !.size = s, !.long = l, !.link = k, !.pax = p]
        IN  f.blk = e.blk /\ f.hpos = e.hpos /\ f.fpos = e.fpos
    BY DEF EntryType
  <1> QED
    BY <1>1, <1>2, <1>3, SameHeader

\* The member at hand comes from the header just parsed, or is the one before.
LEMMA FieldsHead ==
  ASSUME TypeInv, Framing, [Next]_vars
  PROVE  fields' = None \/ Heads(arch, fields')
  <1> USE DEF TypeInv
  <1>1. fields = None \/ (fields \in EntryType /\ Heads(arch, fields))
    BY TypedFacts DEF Framing, Genuine, Heads
  <1>2. CASE ReadMember
    <2>1. fields' = fields \/ fields' = EntryOf(BlockAt(arch, off))
      BY <1>2 DEF ReadMember
    <2> QED
      BY <1>1, <1>2, <2>1, EntryOfGenuine DEF Genuine, Heads
  <1>3. CASE PayloadRead
    <2>1. PICK n : fields' = [fields EXCEPT !.left = @ - n]
      BY <1>3 DEF PayloadRead
    <2>2. fields # None
      BY <1>3 DEF PayloadRead, HasFields
    <2> QED
      BY <1>1, <2>1, <2>2, UpdatedHeader
  <1>4. CASE CallEntries \/ PayloadDone \/ YieldPlain \/ SparseDone
    BY <1>1, <1>4 DEF CallEntries, PayloadDone, YieldPlain, SparseDone, YieldMember
  <1>5. ASSUME NEW i \in DOMAIN out, ReadEntry(i) PROVE fields' = fields
    BY <1>5 DEF ReadEntry
  <1>6. CASE \/ Poll \/ PollDone \/ ComputeDelta \/ SkipRead \/ SkipDone
             \/ SeekDrain \/ SeekSkip \/ BlockShort \/ BlockResume \/ HeaderEof
             \/ ZeroBlock \/ RejectHeader \/ StartDescriptor \/ StartSparse
             \/ AddSparseBlock \/ ExtensionEof \/ ReadExtension
             \/ ReadPending \/ ReadFails \/ UNCHANGED vars
    <2>1. fields' = fields
      BY <1>6 DEF Poll, PollDone, ComputeDelta, SkipRead, SkipDone, SeekDrain,
           SeekSkip, BlockShort, BlockResume, HeaderEof, ZeroBlock, RejectHeader,
           StartDescriptor, StartSparse, AddSparseBlock, ExtensionEof,
           ReadExtension, ReadPending, ReadFails
    <2> QED
      BY <1>1, <2>1
  <1> QED
    BY <1>1, <1>2, <1>3, <1>4, <1>5, <1>6 DEF Next, ReaderStep, PollStep

\* An entry is handed out with the header it was given.
LEMMA OutGrows ==
  ASSUME TypeInv, Framing, [Next]_vars
  PROVE  \/ out' = out
         \/ \E e : Heads(arch, e) /\ out' = Append(out, e)
         \/ \E i \in DOMAIN out : \E n :
              out' = [out EXCEPT ![i].left = @ - n, ![i].got = Deliver(@, n)]
  <1> USE DEF TypeInv
  <1>1. CASE ReadMember
    <2>1. out' = out \/ out' = Append(out, EntryOf(BlockAt(arch, off)))
      BY <1>1 DEF ReadMember, Yield
    <2>2. Heads(arch, EntryOf(BlockAt(arch, off)))
      BY <1>1, EntryOfGenuine DEF Genuine, Heads
    <2> QED
      BY <2>1, <2>2
  <1>2. ASSUME NEW size, YieldMember(size), fields # None
        PROVE  \E e : Heads(arch, e) /\ out' = Append(out, e)
    <2> DEFINE e == [fields EXCEPT !.size = size, !.long = longname,
                                   !.link = longlink, !.pax = pax]
    <2>1. fields \in EntryType /\ Heads(arch, fields)
      BY <1>2, TypedFacts DEF Framing, Genuine, Heads
    <2>2. Heads(arch, e)
      BY <2>1, UpdatedHeader
    <2>3. out' = Append(out, e)
      BY <1>2 DEF YieldMember, Yield
    <2> QED
      BY <2>2, <2>3
  <1>3. CASE YieldPlain
    BY <1>2, <1>3 DEF YieldPlain, HasFields
  <1>4. CASE SparseDone
    <2>1. fields # None
      BY <1>4 DEF SparseDone, HasFields
    <2>2. out' = out \/ YieldMember(scan.cur)
      BY <1>4 DEF SparseDone
    <2> QED
      BY <1>2, <2>1, <2>2
  <1>5. ASSUME NEW i \in DOMAIN out, ReadEntry(i)
        PROVE  \E n : out' = [out EXCEPT ![i].left = @ - n, ![i].got = Deliver(@, n)]
    BY <1>5 DEF ReadEntry
  <1>6. CASE \/ Poll \/ PollDone \/ CallEntries \/ ComputeDelta \/ SkipRead \/ SkipDone
             \/ SeekDrain \/ SeekSkip \/ BlockShort \/ BlockResume \/ HeaderEof
             \/ ZeroBlock \/ RejectHeader \/ StartDescriptor \/ PayloadRead
             \/ PayloadDone \/ StartSparse \/ AddSparseBlock \/ ExtensionEof
             \/ ReadExtension \/ ReadPending \/ ReadFails \/ UNCHANGED vars
    <2>1. out' = out
      BY <1>6 DEF Poll, PollDone, CallEntries, ComputeDelta, SkipRead, SkipDone,
           SeekDrain, SeekSkip, BlockShort, BlockResume, HeaderEof, ZeroBlock,
           RejectHeader, StartDescriptor, PayloadRead, PayloadDone, StartSparse,
           AddSparseBlock, ExtensionEof, ReadExtension, ReadPending, ReadFails
    <2> QED
      BY <2>1
  <1> QED
    BY <1>1, <1>3, <1>4, <1>5, <1>6 DEF Next, ReaderStep, PollStep

\* So every entry handed out stays genuine.
LEMMA OutGenuine ==
  ASSUME TypeInv, Framing, [Next]_vars PROVE HeaderPosGenuine'
  <1> USE DEF TypeInv
  <1>0. /\ out \in Seq(EntryType) /\ arch' = arch
        /\ \A j \in DOMAIN out : Heads(arch, out[j])
    BY TypedFacts, ReaderMoves DEF Framing, HeaderPosGenuine, Genuine, Heads
  <1> SUFFICES ASSUME NEW j \in DOMAIN out' PROVE Heads(arch, out'[j])
    BY <1>0 DEF HeaderPosGenuine, Genuine, Heads
  <1>1. CASE out' = out
    BY <1>0, <1>1
  <1>2. ASSUME NEW e, Heads(arch, e), out' = Append(out, e)
        PROVE  Heads(arch, out'[j])
    BY <1>0, <1>2
  <1>3. ASSUME NEW i \in DOMAIN out, NEW n,
               out' = [out EXCEPT ![i].left = @ - n, ![i].got = Deliver(@, n)]
        PROVE  Heads(arch, out'[j])
    <2>1. DOMAIN out' = DOMAIN out /\ out[i] \in EntryType /\ Heads(arch, out[i])
      BY <1>0, <1>3
    <2>2. CASE i = j
      <3>1. out'[j] = [out[i] EXCEPT !.left = @ - n, !.got = Deliver(@, n)]
        BY <1>3, <2>1, <2>2
      <3> DEFINE l == out[i].left - n
                 g == Deliver(out[i].got, n)
      <3>2. out'[j] = [out[i] EXCEPT !.left = l, !.got = g]
        BY <3>1
      <3> HIDE DEF l, g
      <3>3. Heads(arch, [out[i] EXCEPT !.left = l, !.got = g])
        BY <2>1, UpdatedHeader
      <3> QED
        BY <3>2, <3>3, Zenon
    <2>3. CASE i # j
      BY <1>0, <1>3, <2>1, <2>3
    <2> QED
      BY <2>2, <2>3
  <1> QED
    BY <1>1, <1>2, <1>3, OutGrows

LEMMA FramingStep ==
  TypeInv /\ Framing /\ opt.seek = "none" /\ [Next]_vars => Framing'
  <1> SUFFICES ASSUME TypeInv, Framing, opt.seek = "none", [Next]_vars PROVE Framing'
    OBVIOUS
  <1>1. arch' = arch
    BY ReaderMoves DEF TypeInv
  <1>2. (fields # None => Genuine(fields))'
    BY <1>1, FieldsHead DEF Genuine, Heads
  <1> QED
    BY <1>2, InStepStep, AimedStep, OutGenuine DEF Framing

LEMMA FramingInit == Init => Framing
  BY ArchType, TypeInvInit
     DEF Init, Framing, InStep, Aimed, HeaderPosGenuine, TypeInv

(***************************************************************************)
(* An archive that is read, over any reader and by any caller, hands out   *)
(* entries whose header and data are where they say they are; a header is  *)
(* parsed only where the member before it ends.                            *)
(***************************************************************************)
THEOREM FramingCorrect == ASSUME SeekFree PROVE Spec => []Framing
  <1>1. TypeInv => opt.seek = "none"
    BY SeekFree DEF SeekFree, TypeInv, TypeOK
  <1> QED
    BY <1>1, FramingInit, FramingStep, TypeInvInit, TypeInvStep, PTL DEF Spec

\* raw_header_position tells the truth about every entry.
THEOREM HeadersGenuine == ASSUME SeekFree PROVE Spec => []HeaderPosGenuine
  <1>1. Framing => HeaderPosGenuine
    BY DEF Framing
  <1> QED
    BY <1>1, FramingCorrect, PTL
=============================================================================
