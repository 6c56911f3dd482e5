--------------------------- MODULE EntryReadProofs ---------------------------
(***************************************************************************)
(* For every layout of an entry, every buffer and every truncation: what   *)
(* poll_read delivers is the file.  The inductive invariant says where a   *)
(* read stands: at the place in the file and in the archive that the       *)
(* current piece says, or past the end of the archive, or at a `data` that *)
(* unpack has emptied.                                                     *)
(***************************************************************************)
EXTENDS EntryRead, SequenceTheorems, WellFoundedInduction, TLAPS

\* What the constants say of the entry that is read.
LEMMA EntryFacts ==
    ASSUME entry \in Entries
    PROVE  /\ Pieces \in Seq(PieceType) /\ Len(Pieces) \in Nat \ {0}
           /\ \A i \in 1 .. Len(Pieces) :
                /\ Pieces[i] \in PieceType
                /\ Pieces[i].kind \in {"pad", "data"}
                /\ Pieces[i].start \in Nat /\ Pieces[i].len \in Nat /\ Pieces[i].at \in Nat
                /\ Stored(Pieces[i]) \in Nat
           /\ entry.cut \in Nat /\ entry.empty \in BOOLEAN
           /\ Contiguous(Pieces)
  <1>1. entry \in EntryType
    BY ReadAssumption
  <1>2. /\ Pieces \in Seq(PieceType) /\ Len(Pieces) \in Nat \ {0}
        /\ entry.cut \in Nat /\ entry.empty \in BOOLEAN /\ Contiguous(Pieces)
    BY <1>1 DEF EntryType, Pieces
  <1>3. ASSUME NEW i \in 1 .. Len(Pieces)
        PROVE  /\ Pieces[i] \in PieceType
               /\ Pieces[i].kind \in {"pad", "data"}
               /\ Pieces[i].start \in Nat /\ Pieces[i].len \in Nat /\ Pieces[i].at \in Nat
               /\ Stored(Pieces[i]) \in Nat
    <2>1. Pieces[i] \in PieceType
      BY <1>2
    <2> QED
      BY <2>1 DEF PieceType, Stored
  <1> QED
    BY <1>2, <1>3

\* A set of numbers has a least one.
LEMMA LeastNumber ==
    ASSUME NEW T \in SUBSET Nat, T # {}
    PROVE  \E n \in T : \A m \in T : n <= m
  <1> DEFINE R == OpToRel(<, Nat)
  <1>1. IsWellFoundedOn(R, Nat)
    BY NatLessThanWellFounded
  <1>2. \E x \in T : \A y \in T : ~ (<<y, x>> \in R)
    <2> HIDE DEF R
    <2> QED
      BY <1>1, WFMin
  <1>3. ASSUME NEW x \in Nat, NEW y \in Nat, ~(<<y, x>> \in R) PROVE x <= y
    BY <1>3 DEF OpToRel
  <1> QED
    BY <1>2, <1>3

\* Where every number is the one before it and a step more, each is at least
\* any earlier one and its step.
LEMMA Accumulates ==
    ASSUME NEW L \in Nat, NEW f, NEW w,
           \A k \in 1 .. L : f[k] \in Nat /\ w[k] \in Nat,
           \A k \in 1 .. L - 1 : f[k + 1] = f[k] + w[k],
           NEW i \in 1 .. L, NEW j \in 1 .. L, i < j
    PROVE  f[i] + w[i] <= f[j]
  <1> DEFINE T == {k \in 1 .. L : i < k /\ f[k] < f[i] + w[i]}
  <1>1. ASSUME T # {} PROVE FALSE
    <2>1. T \in SUBSET Nat
      OBVIOUS
    <2> HIDE DEF T
    <2>2. PICK n \in T : \A m \in T : n <= m
      BY <1>1, <2>1, LeastNumber
    <2>3. n - 1 \notin T
      BY <2>1, <2>2
    <2>4. n \in 1 .. L /\ n \in Nat /\ i < n /\ f[n] < f[i] + w[i]
      BY <2>2 DEF T
    <2>5. n - 1 \in 1 .. L - 1 /\ n - 1 \in 1 .. L /\ (n - 1) + 1 = n
      BY <2>4
    <2>6. f[n] = f[n - 1] + w[n - 1] /\ f[n - 1] \in Nat /\ w[n - 1] \in Nat
      BY <2>5
    <2>7. f[i] \in Nat /\ w[i] \in Nat /\ f[n] \in Nat
      BY <2>4
    <2>8. CASE n - 1 = i
      BY <2>4, <2>6, <2>7, <2>8
    <2>9. CASE n - 1 # i
      <3>1. i < n - 1
        BY <2>4, <2>9
      <3>2. f[n - 1] >= f[i] + w[i]
        BY <2>3, <2>5, <2>6, <2>7, <3>1 DEF T
      <3> QED
        BY <2>4, <2>6, <2>7, <3>2
    <2> QED
      BY <2>8, <2>9
  <1>2. ~(f[j] < f[i] + w[i])
    BY <1>1
  <1>3. f[j] \in Nat /\ f[i] \in Nat /\ w[i] \in Nat
    OBVIOUS
  <1> QED
    BY <1>2, <1>3

\* A piece begins where all pieces before it have ended, in the file and among
\* the entry's bytes in the archive.
LEMMA StartsAfter ==
    ASSUME entry \in Entries, NEW i \in 1 .. Len(Pieces), NEW j \in 1 .. Len(Pieces), i < j
    PROVE  /\ Pieces[i].start + Pieces[i].len <= Pieces[j].start
           /\ Pieces[i].at + Stored(Pieces[i]) <= Pieces[j].at
  <1> DEFINE L == Len(Pieces)
             starts == [k \in 1 .. L |-> Pieces[k].start]
             lens == [k \in 1 .. L |-> Pieces[k].len]
             ats == [k \in 1 .. L |-> Pieces[k].at]
             stored == [k \in 1 .. L |-> Stored(Pieces[k])]
  <1>1. L \in Nat
    BY EntryFacts
  <1>2. \A k \in 1 .. L : /\ starts[k] \in Nat /\ lens[k] \in Nat
                          /\ ats[k] \in Nat /\ stored[k] \in Nat
    BY EntryFacts
  <1>3. \A k \in 1 .. L - 1 : /\ starts[k + 1] = starts[k] + lens[k]
                              /\ ats[k + 1] = ats[k] + stored[k]
    <2>1. \A k \in 1 .. L - 1 : /\ Pieces[k + 1].start = Pieces[k].start + Pieces[k].len
                                /\ Pieces[k + 1].at = Pieces[k].at + Stored(Pieces[k])
      BY EntryFacts DEF Contiguous
    <2>2. \A k \in 1 .. L - 1 : k \in 1 .. L /\ k + 1 \in 1 .. L
      BY <1>1
    <2> QED
      BY <2>1, <2>2
  <1>4. i \in 1 .. L /\ j \in 1 .. L
    OBVIOUS
  <1>5. /\ starts[i] = Pieces[i].start /\ lens[i] = Pieces[i].len
        /\ starts[j] = Pieces[j].start /\ ats[j] = Pieces[j].at
        /\ ats[i] = Pieces[i].at /\ stored[i] = Stored(Pieces[i])
    OBVIOUS
  <1> HIDE DEF L, starts, lens, ats, stored
  <1>6. starts[i] + lens[i] <= starts[j] /\ ats[i] + stored[i] <= ats[j]
    BY <1>1, <1>2, <1>3, <1>4, Accumulates
  <1> QED
    BY <1>5, <1>6

\* Bytes of the archive and of a hole are sequences of numbers.
LEMMA ByteSequences ==
    ASSUME off \in Nat, NEW n \in Nat
    PROVE  /\ FromArchive(n) \in Seq(Nat) /\ Len(FromArchive(n)) = n
           /\ FromRepeat(n) \in Seq(Nat) /\ Len(FromRepeat(n)) = n
           /\ \A j \in 1 .. n : FromArchive(n)[j] = off + j /\ FromRepeat(n)[j] = 0
  <1>1. \A j \in 1 .. n : off + j \in Nat /\ 0 \in Nat
    OBVIOUS
  <1> QED
    BY <1>1 DEF FromArchive, FromRepeat

\* A read has room for no more than its buffer and the piece allow.
LEMMA RoomBounds ==
    ASSUME TypeOK, read_state # None
    PROVE  /\ read_state.i \in 1 .. taken /\ read_state.i \in 1 .. Len(Pieces)
           /\ read_state.left \in Nat /\ call.buf \in Nat
           /\ Room \in Nat /\ Room <= read_state.left /\ Room <= call.buf
           /\ Room = 0 => read_state.left = 0 \/ call.buf = 0
           /\ read_state.left <= Current.len /\ Current.len \in Nat
           /\ Current.kind \in {"pad", "data"}
  <1>1. read_state \in [i : Nat, left : Nat] /\ call \in CallTypes
    BY DEF TypeOK, StateType
  <1>2. read_state.left \in Nat /\ call.buf \in Nat
    BY <1>1 DEF CallTypes
  <1>3. read_state.i \in 1 .. taken /\ read_state.i \in 1 .. Len(Pieces)
    <2>1. Len(Pieces) \in Nat
      BY EntryFacts DEF TypeOK
    <2> QED
      BY <2>1 DEF TypeOK
  <1>4. Current.len \in Nat /\ Current.kind \in {"pad", "data"}
    BY <1>3, EntryFacts DEF Current, TypeOK
  <1> QED
    BY <1>2, <1>3, <1>4 DEF Room, Least, TypeOK

-----------------------------------------------------------------------------
(***************************************************************************)
(* Types                                                                   *)
(***************************************************************************)

LEMMA NoCallType == NoCall \in CallTypes /\ NoCall.next = 0
  <1>1. <<>> \in Seq(Nat)
    OBVIOUS
  <1> QED
    BY <1>1 DEF NoCall, CallTypes

\* A call that reads.
LEMMA StartType ==
    ASSUME NEW api \in {"read", "pax"}, NEW buf \in Nat, got \in Seq(Nat)
    PROVE  /\ [NoCall EXCEPT !.api = api, !.buf = buf, !.from = Len(got)] \in CallTypes
           /\ [NoCall EXCEPT !.api = api, !.buf = buf, !.from = Len(got)].next = 0
  <1>1. Len(got) \in Nat
    OBVIOUS
  <1> QED
    BY <1>1, NoCallType DEF CallTypes, NoCall

\* A call that has gathered bytes.
LEMMA GatherType ==
    ASSUME call \in CallTypes, NEW bytes \in Seq(Nat), NEW k \in Nat
    PROVE  /\ [call EXCEPT !.vec = @ \o bytes] \in CallTypes
           /\ [call EXCEPT !.vec = @ \o bytes].next = call.next
           /\ [call EXCEPT !.vec = @ \o bytes, !.next = k] \in CallTypes
           /\ [call EXCEPT !.vec = @ \o bytes, !.next = k].next = k
           /\ call.next \in Nat
  <1> DEFINE both == call.vec \o bytes
  <1>1. both \in Seq(Nat)
    <2>1. call.vec \in Seq(Nat)
      BY DEF CallTypes
    <2> QED
      BY <2>1
  <1> HIDE DEF both
  <1>2. /\ [call EXCEPT !.vec = both] \in CallTypes
        /\ [call EXCEPT !.vec = both].next = call.next
        /\ [call EXCEPT !.vec = both, !.next = k] \in CallTypes
        /\ [call EXCEPT !.vec = both, !.next = k].next = k
        /\ call.next \in Nat
    BY <1>1 DEF CallTypes
  <1> QED
    BY <1>2 DEF both

LEMMA TypeInit == Init => TypeOK
  <1> SUFFICES ASSUME Init PROVE TypeOK
    OBVIOUS
  <1>1. Len(Pieces) \in Nat
    BY EntryFacts DEF Init
  <1>2. <<>> \in Seq(Nat) /\ <<>> \in Seq(UnpackType)
    OBVIOUS
  <1>3. call \in CallTypes /\ call.next <= Len(Pieces)
    BY <1>1, NoCallType DEF Init
  <1>4. taken \in 0 .. Len(Pieces) /\ off \in Nat
    BY <1>1 DEF Init
  <1>5. got \in Seq(Nat) /\ unpacks \in Seq(UnpackType) /\ ended \in BOOLEAN
    BY <1>2 DEF Init
  <1> QED
    BY <1>3, <1>4, <1>5, Zenon DEF Init, TypeOK, StateType

\* Taking the next piece leaves a read_state within it.
LEMMA TakeType ==
    ASSUME TypeOK, taken < Len(Pieces), TakePiece, entry' = entry
    PROVE  /\ taken' \in 0 .. Len(Pieces)'
           /\ read_state' \in StateType
           /\ read_state' # None => /\ read_state'.i \in 1 .. taken'
                                    /\ read_state'.left <= Current'.len
  <1>1. Len(Pieces) \in Nat /\ taken \in Nat
    BY EntryFacts DEF TypeOK
  <1>2. taken + 1 \in 1 .. Len(Pieces)
    BY <1>1
  <1>3. Pieces[taken + 1].len \in Nat
    BY <1>2, EntryFacts DEF TypeOK
  <1>4. Pieces' = Pieces
    BY DEF Pieces
  <1> QED
    BY <1>1, <1>2, <1>3, <1>4 DEF TakePiece, StateType, Current

\* The end of a read or of read_all.
LEMMA ExhaustedType ==
    ASSUME TypeOK, Exhausted
    PROVE  /\ call' \in CallTypes /\ call'.next <= Len(Pieces)'
           /\ pax' \in PaxType \cup {None} /\ ended' \in BOOLEAN
  <1>1. call \in CallTypes
    BY DEF TypeOK
  <1>2. [bytes |-> call.vec, from |-> call.from] \in PaxType
    BY <1>1 DEF CallTypes, PaxType
  <1>3. Len(Pieces)' \in Nat
    BY EntryFacts DEF TypeOK, Exhausted, Pieces
  <1> QED
    BY <1>2, <1>3, NoCallType DEF Exhausted, Return, TypeOK

\* Bytes that are delivered.
LEMMA DeliverType ==
    ASSUME TypeOK, NEW bytes \in Seq(Nat), Deliver(bytes)
    PROVE  /\ got' \in Seq(Nat)
           /\ call' \in CallTypes /\ call'.next <= Len(Pieces)'
  <1>1. call \in CallTypes /\ got \in Seq(Nat)
    BY DEF TypeOK
  <1>2. Pieces' = Pieces /\ Len(Pieces) \in Nat
    BY EntryFacts DEF TypeOK, Deliver, Pieces
  <1>3. got' \in Seq(Nat)
    BY <1>1 DEF Deliver
  <1>4. CASE call.api = "pax"
    <2>1. call' = [call EXCEPT !.vec = @ \o bytes]
      BY <1>4 DEF Deliver
    <2>2. call' \in CallTypes /\ call'.next = call.next /\ call.next \in Nat
      BY <1>1, <2>1, GatherType
    <2>3. call.next <= Len(Pieces)
      BY DEF TypeOK
    <2> QED
      BY <1>2, <1>3, <2>2, <2>3
  <1>5. CASE call.api # "pax"
    <2>1. call' = NoCall
      BY <1>5 DEF Deliver
    <2> QED
      BY <1>2, <1>3, <2>1, NoCallType
  <1> QED
    BY <1>3, <1>4, <1>5

\* A file that unpack has written, or failed to.
LEMMA WrittenType ==
    ASSUME TypeOK, NEW ok \in BOOLEAN, Written(ok)
    PROVE  unpacks' \in Seq(UnpackType)
  <1>1. call \in CallTypes /\ unpacks \in Seq(UnpackType)
    BY DEF TypeOK
  <1>2. [ok |-> ok, bytes |-> call.vec, from |-> call.from, fresh |-> call.fresh]
            \in UnpackType
    BY <1>1 DEF CallTypes, UnpackType
  <1> QED
    BY <1>1, <1>2 DEF Written

LEMMA TypeStep == TypeOK /\ [Next]_vars => TypeOK'
  <1> SUFFICES ASSUME TypeOK, [Next]_vars PROVE TypeOK'
    OBVIOUS
  <1>1. /\ Pieces \in Seq(PieceType) /\ Len(Pieces) \in Nat /\ entry.cut \in Nat
        /\ \A i \in 1 .. Len(Pieces) : Pieces[i].len \in Nat
    BY EntryFacts DEF TypeOK
  <1>2. ASSUME NEW n \in BufSizes, CallRead(n) PROVE TypeOK'
    <2>1. n \in Nat /\ got \in Seq(Nat)
      BY ReadAssumption DEF TypeOK
    <2>2. call' \in CallTypes /\ call'.next = 0
      BY <1>2, <2>1, StartType DEF CallRead, Start
    <2> QED
      BY <1>2, <2>1, <2>2, <1>1 DEF CallRead, Start, TypeOK, Pieces, Current
  <1>3. CASE CallPax
    <2>1. Chunk \in Nat /\ got \in Seq(Nat)
      BY ReadAssumption DEF TypeOK
    <2>2. call' \in CallTypes /\ call'.next = 0
      BY <1>3, <2>1, StartType DEF CallPax, Start
    <2> QED
      BY <1>3, <2>1, <2>2, <1>1 DEF CallPax, Start, TypeOK, Pieces, Current
  <1>4. CASE CallUnpack
    <2> DEFINE c == [NoCall EXCEPT !.api = "unpack", !.next = taken,
                                   !.from = taken, !.fresh = ~Halfway]
    <2>0. taken \in Nat
      BY <1>1 DEF TypeOK
    <2>1. c \in CallTypes /\ c.next = taken
      BY <2>0, NoCallType DEF CallTypes, NoCall
    <2>2. read_state # None => read_state.i \in 1 .. Len(Pieces)
      BY RoomBounds
    <2> HIDE DEF c
    <2>3. call' = c
      BY <1>4 DEF CallUnpack, c
    <2> QED
      BY <1>4, <2>1, <2>2, <2>3, <1>1 DEF CallUnpack, TypeOK, Pieces, Current
  <1>5. CASE NextPiece
    BY <1>5, TakeType DEF NextPiece, TypeOK, Pieces
  <1>6. CASE NoPiece
    BY <1>6, ExhaustedType DEF NoPiece, Exhausted, TypeOK, Pieces, Current
  <1>7. CASE ReadPad
    <2>1. FromRepeat(Room) \in Seq(Nat)
      BY <1>7, RoomBounds, ByteSequences DEF ReadPad, TypeOK
    <2>2. /\ got' \in Seq(Nat) /\ call' \in CallTypes /\ call'.next <= Len(Pieces)'
      BY <1>7, <2>1, DeliverType DEF ReadPad
    <2>3. /\ read_state' \in [i : Nat, left : Nat] /\ read_state'.i = read_state.i
          /\ read_state'.left <= read_state.left
      BY <1>7, RoomBounds DEF ReadPad, TypeOK, StateType
    <2> QED
      BY <1>7, <2>2, <2>3, RoomBounds, SMTT(60)
      DEF ReadPad, Deliver, TypeOK, StateType, Pieces, Current
  <1>8. CASE ReadData
    <2> PICK n \in 1 .. Room :
            /\ off + n <= entry.cut
            /\ read_state' = [read_state EXCEPT !.left = @ - n]
            /\ off' = off + n
            /\ Deliver(FromArchive(n))
      BY <1>8 DEF ReadData
    <2>0. n \in Nat /\ n <= Room
      BY <1>8, RoomBounds DEF ReadData
    <2>1. FromArchive(n) \in Seq(Nat)
      BY <2>0, ByteSequences DEF TypeOK
    <2>2. /\ got' \in Seq(Nat) /\ call' \in CallTypes /\ call'.next <= Len(Pieces)'
      BY <2>1, DeliverType
    <2>3. /\ read_state' \in [i : Nat, left : Nat] /\ read_state'.i = read_state.i
          /\ read_state'.left <= read_state.left
      BY <1>8, <2>0, RoomBounds DEF ReadData, TypeOK, StateType
    <2>4. off' \in Nat
      BY <2>0 DEF TypeOK
    <2>5. Pieces' = Pieces /\ UNCHANGED <<entry, taken, pax, ended, unpacks>>
      BY DEF Deliver, Pieces
    <2>6. /\ read_state' \in StateType /\ read_state'.i \in 1 .. taken'
          /\ read_state'.left <= Current'.len
      BY <1>8, <2>3, <2>5, RoomBounds DEF ReadData, StateType, Current
    <2> QED
      BY <2>2, <2>4, <2>5, <2>6 DEF TypeOK
  <1>9. CASE EndPiece
    <2>1. CASE taken < Len(Pieces) /\ TakePiece
                /\ UNCHANGED <<entry, off, call, pax, got, ended, unpacks>>
      BY <2>1, TakeType DEF TypeOK, Pieces
    <2>2. CASE taken = Len(Pieces) /\ read_state' = None /\ Exhausted
      BY <2>2, ExhaustedType DEF Exhausted, TypeOK, Pieces, StateType
    <2> QED
      BY <1>9, <2>1, <2>2 DEF EndPiece
  <1>10. ASSUME NEW bytes \in Seq(Nat), Append1(bytes), call.next < Len(Pieces),
                UNCHANGED Pieces
         PROVE  call' \in CallTypes /\ call'.next <= Len(Pieces)'
    <2>1. call \in CallTypes
      BY DEF TypeOK
    <2> DEFINE k == call.next + 1
    <2>2. k \in Nat /\ k <= Len(Pieces)
      BY <2>1, <1>10, <1>1 DEF CallTypes
    <2>3. call' = [call EXCEPT !.vec = @ \o bytes, !.next = k]
      BY <1>10 DEF Append1
    <2> HIDE DEF k
    <2> QED
      BY <2>1, <2>2, <2>3, <1>10, GatherType
  <1>11. call.next < Len(Pieces) => Draining.len \in Nat
    <2>1. call.next \in Nat
      BY DEF TypeOK, CallTypes
    <2> QED
      BY <2>1, <1>1 DEF Draining
  <1>12. CASE CopyData
    <2>0. off \in Nat /\ Draining.len \in Nat
      BY <1>12, <1>11 DEF CopyData, TypeOK
    <2>4. off' \in Nat
      BY <1>12, <2>0 DEF CopyData
    <2>5. FromArchive(Draining.len) \in Seq(Nat)
      BY <2>0, ByteSequences
    <2>1. FromArchive(Draining.len) \in Seq(Nat) /\ off' \in Nat
      BY <2>4, <2>5
    <2>2. UNCHANGED Pieces
      BY <1>12 DEF CopyData, Pieces
    <2>3. call' \in CallTypes /\ call'.next <= Len(Pieces)'
      BY <1>12, <2>1, <2>2, <1>10 DEF CopyData
    <2> QED
      BY <1>12, <2>1, <2>2, <2>3 DEF CopyData, TypeOK, Current
  <1>13. CASE CopyPad
    <2>0. off \in Nat /\ Draining.len \in Nat
      BY <1>13, <1>11 DEF CopyPad, TypeOK
    <2>1. FromRepeat(Draining.len) \in Seq(Nat)
      BY <2>0, ByteSequences
    <2>2. UNCHANGED Pieces
      BY <1>13 DEF CopyPad, Pieces
    <2>3. call' \in CallTypes /\ call'.next <= Len(Pieces)'
      BY <1>13, <2>1, <2>2, <1>10 DEF CopyPad
    <2> QED
      BY <1>13, <2>1, <2>2, <2>3 DEF CopyPad, TypeOK, Current
  <1>14. CASE CopyShort
    <2>1. unpacks' \in Seq(UnpackType)
      BY <1>14, WrittenType DEF CopyShort
    <2> QED
      BY <1>14, <2>1, <1>1, NoCallType
      DEF CopyShort, Return, TypeOK, Current, Pieces
  <1>15. CASE Unpacked
    <2>1. unpacks' \in Seq(UnpackType)
      BY <1>15, WrittenType DEF Unpacked
    <2> QED
      BY <1>15, <2>1, <1>1, NoCallType
      DEF Unpacked, Return, TypeOK, Current, Pieces
  <1>16. CASE Interrupted
    <2>1. /\ entry' = entry /\ taken' = taken /\ read_state' = read_state
          /\ pax' = pax /\ got' = got /\ ended' = ended /\ call' = NoCall
      BY <1>16 DEF Interrupted, Return
    <2>2. CASE Unpacking
      <3>1. unpacks' \in Seq(UnpackType)
        BY <1>16, <2>2, WrittenType DEF Interrupted
      <3>2. off' \in Nat
        BY <1>16, <2>2, <1>11 DEF Interrupted, TypeOK
      <3> QED
        BY <2>1, <3>1, <3>2, <1>1, NoCallType DEF TypeOK, Current, Pieces
    <2>3. CASE ~Unpacking
      <3>1. off' = off /\ unpacks' = unpacks
        BY <1>16, <2>3 DEF Interrupted
      <3> QED
        BY <2>1, <3>1, <1>1, NoCallType DEF TypeOK, Current, Pieces
    <2> QED
      BY <2>2, <2>3
  <1>17. CASE UNCHANGED vars
    BY <1>17 DEF vars, TypeOK, Current, Pieces
  <1> QED
    BY <1>2, <1>3, <1>4, <1>5, <1>6, <1>7, <1>8, <1>9, <1>12, <1>13, <1>14,
       <1>15, <1>16, <1>17 DEF Next, Poll, Copy

\* Pieces, limits and positions stay within the entry, whatever its layout, the
\* caller's buffers, short reads, failures and calls of unpack.
THEOREM TypeCorrect == Spec => []TypeOK
  <1> QED
    BY TypeInit, TypeStep, PTL DEF Spec

-----------------------------------------------------------------------------
(***************************************************************************)
(* Where a read stands                                                     *)
(***************************************************************************)

\* unpack has emptied `data`, and no read was halfway.
Emptied == taken = Len(Pieces) /\ ~Halfway

\* The archive has ended, and no hole is left to be read.
Spent ==
    /\ off >= entry.cut
    /\ \A j \in taken + 1 .. Len(Pieces) : Pieces[j].kind = "data"
    /\ Halfway => Current.kind = "data"

\* At the start of the next piece.
Before ==
    /\ read_state = None /\ taken < Len(Pieces)
    /\ Len(got) = Pieces[taken + 1].start
    /\ off = Pieces[taken + 1].at

\* In the piece taken last.
Within ==
    /\ read_state # None /\ read_state.i = taken
    /\ Len(got) = Current.start + (Current.len - read_state.left)
    /\ off = Current.at + (Stored(Current) - (IF Current.kind = "data" THEN read_state.left ELSE 0))

Placed == Undisturbed => Emptied \/ Spent \/ Before \/ Within

\* A caller without empty buffers reads with room; unpack has emptied `data`.
Calls ==
    /\ Reading /\ ~entry.empty => call.buf > 0
    /\ Unpacking => taken = Len(Pieces) /\ (call.fresh => ~Halfway)

IInv == TypeOK /\ Calls /\ Placed /\ DeliveredInOrder

LEMMA EntryFixed ==
    ASSUME Next
    PROVE  entry' = entry
  BY DEF Next, CallRead, CallPax, CallUnpack, Start, Poll, Copy, NextPiece, NoPiece,
         Exhausted, ReadPad, ReadData, Deliver, EndPiece, CopyData, CopyPad, CopyShort,
         Unpacked, Interrupted

\* Once disturbed, an entry remains so.
LEMMA Disturbed ==
    ASSUME TypeOK, Next, Undisturbed'
    PROVE  Undisturbed /\ entry' = entry
  <1>1. entry' = entry
    BY EntryFixed
  <1>2. Sound
    BY <1>1 DEF Undisturbed, Sound, Pieces
  <1>3. CASE unpacks' = unpacks /\ (call.api = "unpack" => call'.api = "unpack" /\ call'.fresh = call.fresh)
    BY <1>1, <1>2, <1>3 DEF Undisturbed
  <1>4. ASSUME NEW ok \in BOOLEAN, Written(ok)
        PROVE  Undisturbed
    <2>1. unpacks \in Seq(UnpackType) /\ Len(unpacks) \in Nat
      BY DEF TypeOK
    <2> DEFINE u == [ok |-> ok, bytes |-> call.vec, from |-> call.from, fresh |-> call.fresh]
    <2>2. u \in UnpackType /\ u.fresh = call.fresh
      BY DEF TypeOK, CallTypes, UnpackType
    <2> HIDE DEF u
    <2>3. unpacks' = Append(unpacks, u)
      BY <1>4 DEF Written, u
    <2>4. /\ Len(unpacks') = Len(unpacks) + 1 /\ unpacks'[Len(unpacks) + 1] = u
          /\ \A n \in 1 .. Len(unpacks) : unpacks'[n] = unpacks[n]
      BY <2>1, <2>2, <2>3
    <2>5. u.fresh /\ \A n \in 1 .. Len(unpacks) : unpacks[n].fresh
      BY <2>1, <2>4 DEF Undisturbed
    <2>6. call.fresh
      BY <2>2, <2>5, Zenon
    <2> QED
      BY <1>2, <2>5, <2>6 DEF Undisturbed
  <1>5. CASE call.api # "unpack" /\ unpacks' = unpacks
    BY <1>1, <1>2, <1>5 DEF Undisturbed
  <1>6. CASE \E n \in BufSizes : CallRead(n)
    BY <1>5, <1>6 DEF CallRead, Start, NoCall
  <1>7. CASE CallPax
    BY <1>5, <1>7 DEF CallPax, Start, NoCall
  <1>8. CASE CallUnpack
    BY <1>5, <1>8 DEF CallUnpack, NoCall
  <1>9. CASE Poll
    BY <1>5, <1>9 DEF Poll, NextPiece, NoPiece, Exhausted, ReadPad, ReadData, Deliver,
                      EndPiece, NothingRead, Reading
  <1>10. CASE CopyData \/ CopyPad
    <2>1. call \in CallTypes
      BY DEF TypeOK
    <2>2. call'.api = call.api /\ call'.fresh = call.fresh /\ unpacks' = unpacks
      BY <1>10, <2>1 DEF CopyData, CopyPad, Append1, CallTypes
    <2> QED
      BY <1>3, <2>2
  <1>11. CASE CopyShort \/ Unpacked
    BY <1>4, <1>11 DEF CopyShort, Unpacked
  <1>12. CASE Interrupted
    BY <1>4, <1>5, <1>12 DEF Interrupted, Unpacking
  <1> QED
    BY <1>1, <1>6, <1>7, <1>8, <1>9, <1>10, <1>11, <1>12 DEF Next, Copy

LEMMA CallsInit == Init => Calls
  BY DEF Init, Calls, Reading, Unpacking, NoCall

LEMMA CallsStep == TypeOK /\ Calls /\ [Next]_vars => Calls'
  <1> SUFFICES ASSUME TypeOK, Calls, [Next]_vars PROVE Calls'
    OBVIOUS
  <1>1. CASE call' = NoCall
    BY <1>1 DEF Calls, Reading, Unpacking, NoCall
  <1>2. ASSUME NEW n \in BufSizes, CallRead(n) PROVE Calls'
    <2>1. n > 0 \/ entry.empty
      BY <1>2 DEF CallRead
    <2>2. call'.api = "read" /\ call'.buf = n /\ entry' = entry
      BY <1>2 DEF CallRead, Start, NoCall
    <2> QED
      BY <2>1, <2>2 DEF Calls, Reading, Unpacking
  <1>3. CASE CallPax
    <2>1. call'.api = "pax" /\ call'.buf = Chunk
      BY <1>3 DEF CallPax, Start, NoCall
    <2> QED
      BY <2>1, ReadAssumption DEF Calls, Reading, Unpacking
  <1>4. CASE CallUnpack
    <2>1. call'.api = "unpack" /\ call'.fresh = ~Halfway
      BY <1>4 DEF CallUnpack, NoCall
    <2>2. taken' = Len(Pieces)' /\ (Halfway' <=> Halfway)
      BY <1>4 DEF CallUnpack, Pieces, Halfway
    <2> QED
      BY <2>1, <2>2 DEF Calls, Reading, Unpacking
  <1>5. CASE NextPiece
    BY <1>5 DEF NextPiece, Calls, Reading, Unpacking
  <1>6. ASSUME NEW bytes, Deliver(bytes), Reading PROVE Calls'
    <2>1. call \in CallTypes
      BY DEF TypeOK
    <2>2. CASE call.api = "pax"
      <3>1. call'.api = "pax" /\ call'.buf = call.buf /\ entry' = entry
        BY <1>6, <2>1, <2>2 DEF Deliver, CallTypes
      <3> QED
        BY <3>1, <2>2 DEF Calls, Reading, Unpacking
    <2>3. CASE call.api # "pax"
      BY <1>1, <1>6, <2>3 DEF Deliver
    <2> QED
      BY <2>2, <2>3
  <1>7. CASE EndPiece
    <2>1. CASE UNCHANGED <<entry, call>>
      BY <1>7, <2>1 DEF EndPiece, NothingRead, Calls, Reading, Unpacking
    <2>2. CASE call' = NoCall
      BY <1>1, <2>2
    <2> QED
      BY <1>7, <2>1, <2>2 DEF EndPiece, Exhausted, Return
  <1>8. CASE CopyData \/ CopyPad
    <2>1. call \in CallTypes
      BY DEF TypeOK
    <2>2. call'.api = call.api /\ call'.fresh = call.fresh /\ Unpacking
      BY <1>8, <2>1 DEF CopyData, CopyPad, Append1, CallTypes
    <2>3. /\ taken' = taken /\ Pieces' = Pieces /\ (Halfway' <=> Halfway)
      BY <1>8 DEF CopyData, CopyPad, Pieces, Halfway
    <2> QED
      BY <2>2, <2>3 DEF Calls, Reading, Unpacking
  <1>9. CASE UNCHANGED vars
    BY <1>9 DEF vars, Calls, Reading, Unpacking, Halfway, Pieces
  <1> QED
    BY <1>1, <1>2, <1>3, <1>4, <1>5, <1>6, <1>7, <1>8, <1>9
    DEF Next, Poll, Copy, NoPiece, Exhausted, Return, ReadPad, ReadData, CopyShort,
        Unpacked, Interrupted

\* A piece of data that ends early, at the end of the archive, is the last
\* that had to be read: no hole comes after it.
LEMMA AfterTheEnd ==
    ASSUME TypeOK, Undisturbed, Within, Halfway, Current.kind = "data", off >= entry.cut
    PROVE  \A j \in taken + 1 .. Len(Pieces) : Pieces[j].kind = "data"
  <1> SUFFICES ASSUME NEW j \in taken + 1 .. Len(Pieces), Pieces[j].kind # "data"
               PROVE  FALSE
    OBVIOUS
  <1>1. /\ read_state.i = taken /\ taken \in 1 .. Len(Pieces) /\ Len(Pieces) \in Nat
        /\ j \in 1 .. Len(Pieces) /\ taken < j
    BY EntryFacts, RoomBounds DEF TypeOK, Within
  <1>2. /\ Pieces[j].kind = "pad" /\ Pieces[j].at \in Nat /\ entry.cut \in Nat
        /\ Current = Pieces[taken] /\ Current.at \in Nat /\ Current.len \in Nat
    BY <1>1, EntryFacts DEF TypeOK, Current
  <1>3. Pieces[j].at <= entry.cut
    BY <1>1, <1>2 DEF Undisturbed, Sound
  <1>4. Pieces[j].at >= Current.at + Current.len
    BY <1>1, <1>2, StartsAfter DEF Stored, TypeOK
  <1>5. off < Current.at + Current.len
    <2>1. read_state.left \in Nat /\ read_state.left > 0
      BY RoomBounds DEF Halfway
    <2>2. off = Current.at + (Current.len - read_state.left)
      BY DEF Within, Stored
    <2> QED
      BY <1>2, <2>1, <2>2
  <1> QED
    BY <1>2, <1>3, <1>4, <1>5 DEF TypeOK

\* Taking the piece that begins where the read stands.
LEMMA TakeWithin ==
    ASSUME TypeOK, taken < Len(Pieces), TakePiece, UNCHANGED <<entry, off, got>>,
           Before \/ (Within /\ read_state.left = 0)
    PROVE  Within'
  <1>1. /\ taken \in Nat /\ Len(Pieces) \in Nat /\ taken + 1 \in 1 .. Len(Pieces)
        /\ Pieces' = Pieces /\ entry' = entry
    BY EntryFacts DEF TypeOK, Pieces
  <1> DEFINE p == Pieces[taken + 1]
  <1>2. /\ p.start \in Nat /\ p.len \in Nat /\ p.at \in Nat
    BY <1>1, EntryFacts DEF TypeOK
  <1>3. /\ taken' = taken + 1 /\ read_state' = [i |-> taken + 1, left |-> p.len]
        /\ read_state' # None /\ read_state'.i = taken' /\ read_state'.left = p.len
        /\ Current' = p
    BY <1>1, <1>2, ReadAssumption DEF TakePiece, Current
  <1>4. CASE Len(got) = p.start /\ off = p.at
    BY <1>1, <1>2, <1>3, <1>4 DEF Within, Stored
  <1>5. CASE Before
    BY <1>4, <1>5 DEF Before
  <1>6. CASE Within /\ read_state.left = 0
    <2>1. /\ taken \in 1 .. Len(Pieces) - 1
          /\ Current = Pieces[taken] /\ Current.len \in Nat /\ Current.start \in Nat
          /\ Current.at \in Nat /\ Stored(Current) \in Nat
      BY <1>1, <1>6, RoomBounds, EntryFacts DEF Within, Current, TypeOK
    <2>2. Len(got) = Current.start + Current.len /\ off = Current.at + Stored(Current)
      BY <1>6, <2>1 DEF Within
    <2>3. p.start = Current.start + Current.len /\ p.at = Current.at + Stored(Current)
      BY <2>1, EntryFacts DEF Contiguous, TypeOK
    <2> QED
      BY <1>4, <2>2, <2>3
  <1> QED
    BY <1>5, <1>6

\* Taking a piece where the file is: at its start, or past the end.
LEMMA PlacedTake ==
    ASSUME TypeOK, taken < Len(Pieces), TakePiece, UNCHANGED <<entry, off, got>>,
           \/ Before
           \/ Within /\ read_state.left = 0
           \/ off >= entry.cut /\ \A j \in taken + 1 .. Len(Pieces) : Pieces[j].kind = "data"
    PROVE  (Spent \/ Within)'
  <1>1. /\ taken \in Nat /\ Len(Pieces) \in Nat /\ taken + 1 \in 1 .. Len(Pieces)
        /\ Pieces' = Pieces /\ entry' = entry
    BY EntryFacts DEF TypeOK, Pieces
  <1>2. CASE off >= entry.cut /\ \A j \in taken + 1 .. Len(Pieces) : Pieces[j].kind = "data"
    <2>1. /\ taken' = taken + 1 /\ read_state' # None /\ Current' = Pieces[taken + 1]
      BY <1>1, EntryFacts, ReadAssumption DEF TakePiece, Current, TypeOK
    <2> QED
      BY <1>1, <1>2, <2>1 DEF Spent
  <1> QED
    BY <1>2, TakeWithin

\* A sequence that is appended to.
LEMMA Concat ==
    ASSUME NEW s \in Seq(Nat), NEW t \in Seq(Nat)
    PROVE  /\ s \o t \in Seq(Nat) /\ Len(s) \in Nat /\ Len(s \o t) = Len(s) + Len(t)
           /\ \A k \in 1 .. Len(s) : (s \o t)[k] = s[k]
           /\ \A k \in 1 .. Len(t) : (s \o t)[Len(s) + k] = t[k]
  OBVIOUS

\* A Take that has delivered n bytes.
LEMMA TakeLeft ==
    ASSUME TypeOK, read_state # None, NEW n \in Nat, n <= read_state.left, entry' = entry,
           read_state' = [read_state EXCEPT !.left = @ - n]
    PROVE  /\ read_state' # None /\ read_state'.i = read_state.i
           /\ read_state'.left = read_state.left - n
           /\ Current' = Current
  <1>1. read_state \in [i : Nat, left : Nat]
    BY DEF TypeOK, StateType
  <1>2. /\ read_state'.i = read_state.i /\ read_state'.left = read_state.left - n
        /\ read_state' \in [i : Nat, left : Nat]
    BY <1>1
  <1> QED
    BY <1>2, ReadAssumption DEF Current, Pieces

\* A read within a piece stays within it.
LEMMA PadWithin ==
    ASSUME TypeOK, Within, ReadPad, entry' = entry
    PROVE  Within'
  <1>1. /\ read_state # None /\ Room \in Nat /\ read_state.left \in Nat
        /\ Room <= read_state.left
    BY RoomBounds DEF ReadPad
  <1>2. Len(got') = Len(got) + Room /\ Len(got) \in Nat
    <2>1. FromRepeat(Room) \in Seq(Nat) /\ Len(FromRepeat(Room)) = Room
      BY <1>1, ByteSequences DEF TypeOK
    <2>2. got' = got \o FromRepeat(Room) /\ got \in Seq(Nat)
      BY DEF ReadPad, Deliver, TypeOK
    <2> QED
      BY <2>1, <2>2, Concat
  <1>3. /\ read_state' # None /\ read_state'.i = read_state.i
        /\ read_state'.left = read_state.left - Room
        /\ Current' = Current /\ taken' = taken /\ off' = off
    BY <1>1, TakeLeft DEF ReadPad, Deliver
  <1>4. Current.kind = "pad" /\ Current.start \in Nat /\ Current.len \in Nat
    BY RoomBounds, EntryFacts DEF ReadPad, Current, TypeOK
  <1> QED
    BY <1>1, <1>2, <1>3, <1>4 DEF Within, Stored

LEMMA DataWithin ==
    ASSUME TypeOK, Within, ReadData, entry' = entry
    PROVE  Within'
  <1> PICK n \in 1 .. Room :
          /\ off + n <= entry.cut
          /\ read_state' = [read_state EXCEPT !.left = @ - n]
          /\ off' = off + n
          /\ Deliver(FromArchive(n))
    BY DEF ReadData
  <1>1. /\ read_state # None /\ Room \in Nat /\ read_state.left \in Nat
        /\ n \in Nat /\ n > 0 /\ n <= read_state.left
    BY RoomBounds DEF ReadData
  <1>2. Len(got') = Len(got) + n /\ Len(got) \in Nat /\ off \in Nat
    <2>1. FromArchive(n) \in Seq(Nat) /\ Len(FromArchive(n)) = n
      BY <1>1, ByteSequences DEF TypeOK
    <2>2. got' = got \o FromArchive(n) /\ got \in Seq(Nat)
      BY DEF Deliver, TypeOK
    <2> QED
      BY <2>1, <2>2, Concat DEF TypeOK
  <1>3. /\ read_state' # None /\ read_state'.i = read_state.i
        /\ read_state'.left = read_state.left - n
        /\ Current' = Current /\ taken' = taken
    BY <1>1, TakeLeft DEF Deliver
  <1>4. /\ Current.kind = "data" /\ Current.start \in Nat /\ Current.len \in Nat
        /\ Current.at \in Nat
    BY RoomBounds, EntryFacts DEF ReadData, Current, TypeOK
  <1>5. /\ Len(got) = Current.start + (Current.len - read_state.left)
        /\ off = Current.at + (Current.len - read_state.left)
    BY <1>4 DEF Within, Stored
  <1>6. /\ Len(got') = Current.start + (Current.len - read_state'.left)
        /\ off' = Current.at + (Current.len - read_state'.left)
    <2>1. ASSUME NEW a \in Int, NEW c \in Int, NEW l \in Int, NEW k \in Int
          PROVE  (a + (c - l)) + k = a + (c - (l - k))
      OBVIOUS
    <2>2. /\ (Current.start + (Current.len - read_state.left)) + n
                = Current.start + (Current.len - (read_state.left - n))
          /\ (Current.at + (Current.len - read_state.left)) + n
                = Current.at + (Current.len - (read_state.left - n))
      BY <1>1, <1>4, <2>1
    <2>3. off' = off + n
      OBVIOUS
    <2> QED
      BY <1>2, <1>3, <1>5, <2>2, <2>3, Zenon
  <1>7. /\ Stored(Current') = Current.len /\ Current'.kind = "data"
        /\ Current'.start = Current.start /\ Current'.len = Current.len
        /\ Current'.at = Current.at
    BY <1>3, <1>4 DEF Stored
  <1>8. read_state' # None /\ read_state'.i = taken'
    BY <1>3 DEF Within
  <1> QED
    BY <1>6, <1>7, <1>8 DEF Within

LEMMA PlacedInit == Init => Placed
  <1> SUFFICES ASSUME Init PROVE Before
    BY DEF Placed
  <1>1. Len(Pieces) \in Nat \ {0} /\ Contiguous(Pieces)
    BY EntryFacts DEF Init
  <1> QED
    BY <1>1 DEF Init, Before, Contiguous

LEMMA PlacedStep == TypeOK /\ TypeOK' /\ Calls /\ Placed /\ [Next]_vars => Placed'
  <1> SUFFICES ASSUME TypeOK, TypeOK', Calls, Placed, [Next]_vars PROVE Placed'
    OBVIOUS
  <1> SUFFICES ASSUME Next, Undisturbed', Undisturbed, entry' = entry
               PROVE  (Emptied \/ Spent \/ Before \/ Within)'
    <2>1. CASE UNCHANGED vars
      BY <2>1 DEF vars, Placed, Undisturbed, Sound, Emptied, Spent, Before, Within, Halfway,
                  Current, Pieces
    <2> QED
      BY <2>1, Disturbed DEF Placed
  <1>1. Emptied \/ Spent \/ Before \/ Within
    BY DEF Placed
  <1>2. /\ taken \in Nat /\ off \in Nat /\ Len(Pieces) \in Nat /\ entry.cut \in Nat
        /\ Pieces' = Pieces /\ ~entry.empty
    BY EntryFacts DEF TypeOK, Pieces, Undisturbed, Sound
  <1>3. CASE UNCHANGED <<taken, read_state, off, got>>
    BY <1>1, <1>2, <1>3 DEF Emptied, Spent, Before, Within, Halfway, Current
  <1>4. CASE CallUnpack
    <2>1. call'.api = "unpack" /\ call'.fresh = ~Halfway /\ call'.fresh
      BY <1>4 DEF CallUnpack, NoCall, Undisturbed
    <2>2. ~Halfway
      BY <2>1, Zenon
    <2> QED
      BY <1>2, <1>4, <2>2 DEF CallUnpack, Emptied, Halfway
  <1>5. CASE NextPiece
    <2>1. ~Emptied /\ ~Within
      BY <1>2, <1>5 DEF NextPiece, Emptied, Within
    <2> QED
      BY <1>1, <1>5, <2>1, PlacedTake DEF NextPiece, Spent
  <1>6. CASE ReadPad
    <2>1. Halfway
      BY <1>6, RoomBounds DEF ReadPad, Halfway
    <2> QED
      BY <1>1, <1>6, <2>1, PadWithin DEF ReadPad, Emptied, Spent, Before
  <1>7. CASE ReadData
    <2> PICK n \in 1 .. Room : off + n <= entry.cut
      BY <1>7 DEF ReadData
    <2>1. Halfway /\ n \in Nat /\ n > 0
      BY <1>7, RoomBounds DEF ReadData, Halfway
    <2>2. Within
      BY <1>1, <1>2, <1>7, <2>1 DEF ReadData, Emptied, Spent, Before
    <2> QED
      BY <1>7, <2>2, DataWithin
  <1>8. CASE EndPiece
    <2>1. read_state # None /\ call.buf > 0
      BY <1>2, <1>8 DEF EndPiece, NothingRead, Calls
    <2>2. read_state.left = 0 \/ (Halfway /\ Current.kind = "data" /\ off >= entry.cut)
      BY <1>8, <2>1, RoomBounds DEF EndPiece, NothingRead, Halfway
    <2>3. CASE taken < Len(Pieces) /\ TakePiece
                 /\ UNCHANGED <<entry, off, call, pax, got, ended, unpacks>>
      <3>1. CASE Spent
        BY <2>3, <3>1, PlacedTake DEF Spent
      <3>2. CASE Within
        BY <2>2, <2>3, <3>2, PlacedTake, AfterTheEnd
      <3> QED
        BY <1>1, <1>2, <2>1, <2>3, <3>1, <3>2 DEF Emptied, Before
    <2>4. CASE taken = Len(Pieces) /\ read_state' = None /\ Exhausted
      BY <1>2, <2>4 DEF Exhausted, Emptied, Halfway
    <2> QED
      BY <1>8, <2>3, <2>4 DEF EndPiece
  <1>9. CASE Unpacking /\ UNCHANGED <<taken, read_state>>
    <2>1. call.fresh
      BY <1>9 DEF Unpacking, Undisturbed
    <2> QED
      BY <1>2, <1>9, <2>1 DEF Calls, Emptied, Halfway
  <1>10. CASE Interrupted
    BY <1>3, <1>9, <1>10 DEF Interrupted
  <1> QED
    BY <1>3, <1>4, <1>5, <1>6, <1>7, <1>8, <1>9, <1>10
    DEF Next, Poll, Copy, CallRead, CallPax, Start, NoPiece, Exhausted, CopyData, CopyPad,
        CopyShort, Unpacked

-----------------------------------------------------------------------------
(***************************************************************************)
(* What is delivered                                                       *)
(***************************************************************************)

\* Bytes that are in their places in the current piece keep the rest in theirs.
LEMMA DeliveredMore ==
    ASSUME TypeOK, Within, read_state # None, DeliveredInOrder, Undisturbed, entry' = entry,
           NEW n \in Nat, n <= read_state.left, NEW bytes \in Seq(Nat), Len(bytes) = n,
           got' = got \o bytes,
           \A k \in 1 .. n : bytes[k] = ByteIn(entry, read_state.i, Len(got) + k)
    PROVE  DeliveredInOrder'
  <1>1. /\ read_state.i \in 1 .. Len(Pieces) /\ read_state.left \in Nat
        /\ Current.start \in Nat /\ Current.len \in Nat
        /\ Pieces[read_state.i] = Current /\ entry.pieces = Pieces /\ Pieces' = Pieces
    BY RoomBounds, EntryFacts DEF Current, Pieces, TypeOK
  <1>2. got \in Seq(Nat) /\ Len(got) \in Nat
    BY DEF TypeOK
  <1>3. Len(got') = Len(got) + n
    BY <1>2, Concat
  <1>4. Len(got) = Current.start + (Current.len - read_state.left)
    BY DEF Within
  <1> SUFFICES ASSUME NEW k \in 1 .. Len(got')
               PROVE  \E i \in 1 .. Len(Pieces) : Holds(entry, i, k) /\ got'[k] = ByteIn(entry, i, k)
    BY <1>1 DEF DeliveredInOrder, Holds, ByteIn
  <1>5. CASE k <= Len(got)
    <2>1. k \in 1 .. Len(got) /\ got'[k] = got[k]
      BY <1>2, <1>3, <1>5, Concat
    <2> QED
      BY <2>1 DEF DeliveredInOrder
  <1>6. CASE k > Len(got)
    <2> DEFINE j == k - Len(got)
    <2>1. j \in 1 .. n /\ k = Len(got) + j
      BY <1>2, <1>3, <1>6
    <2>2. got'[k] = bytes[j]
      BY <2>1, <1>2, Concat
    <2>3. got'[k] = ByteIn(entry, read_state.i, k)
      BY <2>1, <2>2
    <2>4. Holds(entry, read_state.i, k)
      <3>1. read_state.left <= Current.len
        BY RoomBounds
      <3>2. entry.pieces[read_state.i] = Current
        BY <1>1
      <3>3. k > Len(got) /\ k <= Len(got) + n /\ k \in Nat
        BY <1>2, <1>3, <1>6
      <3>4. k > Current.start /\ k <= Current.start + Current.len
        BY <1>1, <1>2, <1>4, <3>1, <3>3
      <3> QED
        BY <3>2, <3>4 DEF Holds
    <2> QED
      BY <1>1, <2>3, <2>4
  <1>7. k <= Len(got) \/ k > Len(got)
    <2>1. k \in Int
      OBVIOUS
    <2> QED
      BY <1>2, <2>1
  <1> QED
    BY <1>5, <1>6, <1>7

LEMMA DeliveredStep ==
    TypeOK /\ Calls /\ Placed /\ DeliveredInOrder /\ [Next]_vars => DeliveredInOrder'
  <1> SUFFICES ASSUME TypeOK, Placed, DeliveredInOrder, [Next]_vars
               PROVE  DeliveredInOrder'
    OBVIOUS
  <1> SUFFICES ASSUME Next, Undisturbed', Undisturbed, entry' = entry
               PROVE  DeliveredInOrder'
    <2>1. CASE UNCHANGED vars
      BY <2>1 DEF vars, DeliveredInOrder, Undisturbed, Sound, Holds, ByteIn, Pieces
    <2>2. CASE Next /\ ~Undisturbed'
      BY <2>2 DEF DeliveredInOrder
    <2> QED
      BY <2>1, <2>2, Disturbed
  <1>1. CASE got' = got
    BY <1>1 DEF DeliveredInOrder, Holds, ByteIn, Pieces
  <1>2. ASSUME read_state # None, NEW n \in Nat, n <= read_state.left, n > 0,
               Current.kind = "pad" \/ off + n <= entry.cut
        PROVE  Within
    <2>1. Halfway /\ read_state.left \in Nat /\ entry.cut \in Nat /\ off \in Nat
      BY <1>2, RoomBounds, EntryFacts DEF Halfway, TypeOK
    <2> QED
      BY <1>2, <2>1 DEF Placed, Emptied, Spent, Before
  <1>3. CASE ReadPad
    <2>1. /\ read_state # None /\ Current.kind = "pad" /\ Room > 0 /\ Room \in Nat
          /\ Room <= read_state.left /\ got' = got \o FromRepeat(Room)
      BY <1>3, RoomBounds DEF ReadPad, Deliver
    <2>2. /\ FromRepeat(Room) \in Seq(Nat) /\ Len(FromRepeat(Room)) = Room
          /\ \A k \in 1 .. Room : FromRepeat(Room)[k] = 0
      BY <2>1, ByteSequences DEF TypeOK
    <2>3. \A k \in 1 .. Room : FromRepeat(Room)[k] = ByteIn(entry, read_state.i, Len(got) + k)
      BY <2>1, <2>2 DEF ByteIn, Current, Pieces
    <2> QED
      BY <2>1, <2>2, <2>3, <1>2, DeliveredMore
  <1>4. CASE ReadData
    <2> PICK n \in 1 .. Room : off + n <= entry.cut /\ Deliver(FromArchive(n))
      BY <1>4 DEF ReadData
    <2>1. /\ read_state # None /\ Current.kind = "data" /\ n > 0 /\ n \in Nat
          /\ n <= read_state.left /\ got' = got \o FromArchive(n)
      BY <1>4, RoomBounds DEF ReadData, Deliver
    <2>2. /\ FromArchive(n) \in Seq(Nat) /\ Len(FromArchive(n)) = n
          /\ \A k \in 1 .. n : FromArchive(n)[k] = off + k
      BY <2>1, ByteSequences DEF TypeOK
    <2>3. Within
      BY <2>1, <1>2
    <2>4. /\ Current.start \in Nat /\ Current.len \in Nat /\ Current.at \in Nat
          /\ read_state.left \in Nat /\ off \in Nat
          /\ entry.pieces[read_state.i] = Current
      BY <2>1, RoomBounds, EntryFacts DEF Current, Pieces, TypeOK
    <2>5. /\ Len(got) = Current.start + (Current.len - read_state.left)
          /\ off = Current.at + (Current.len - read_state.left)
      BY <2>1, <2>3 DEF Within, Stored
    <2>6. ASSUME NEW k \in 1 .. n
          PROVE  FromArchive(n)[k] = ByteIn(entry, read_state.i, Len(got) + k)
      <3>1. k \in Nat /\ FromArchive(n)[k] = off + k
        BY <2>1, <2>2
      <3>2. ByteIn(entry, read_state.i, Len(got) + k) = Current.at + ((Len(got) + k) - Current.start)
        BY <2>1, <2>4 DEF ByteIn
      <3> DEFINE g == Len(got)
                 s == Current.start
                 a == Current.at
                 r == Current.len - read_state.left
      <3>3. g \in Int /\ s \in Int /\ a \in Int /\ r \in Int
        BY <2>4 DEF TypeOK
      <3>4. g = s + r /\ off = a + r
        BY <2>5
      <3> HIDE DEF g, s, a, r
      <3>5. off + k = a + ((g + k) - s)
        BY <3>1, <3>3, <3>4
      <3> QED
        BY <3>1, <3>2, <3>5 DEF g, s, a
    <2> QED
      BY <2>1, <2>2, <2>3, <2>6, DeliveredMore
  <1> QED
    BY <1>1, <1>3, <1>4
    DEF Next, Poll, Copy, CallRead, CallPax, CallUnpack, Start, NextPiece, NoPiece, Exhausted,
        EndPiece, CopyData, CopyPad, CopyShort, Unpacked, Interrupted

LEMMA IInvInit == Init => IInv
  <1>1. Init => DeliveredInOrder
    BY DEF Init, DeliveredInOrder
  <1> QED
    BY <1>1, TypeInit, CallsInit, PlacedInit DEF IInv

\* Without empty buffers, and whatever else the caller and the archive do, what
\* poll_read delivers is the file: every byte at its place, holes as zeros.
THEOREM DeliveredCorrect == Spec => []DeliveredInOrder
  <1>1. Init => IInv
    BY IInvInit
  <1>2. IInv /\ [Next]_vars => IInv'
    BY TypeStep, CallsStep, PlacedStep, DeliveredStep DEF IInv
  <1>3. IInv => DeliveredInOrder
    BY DEF IInv
  <1> QED
    BY <1>1, <1>2, <1>3, PTL DEF Spec
-----------------------------------------------------------------------------
(***************************************************************************)
(* An entry is the file it stands for: EntryRead implements FileReader.    *)
(* The bytes of File are those of the piece that holds them, and no byte   *)
(* lies in two pieces; as long as nothing was lost, a read stands at the   *)
(* place in the file that its piece says, or at the end with all of the    *)
(* file delivered; read_all and unpack gather what lies between where they *)
(* began and where they are.                                               *)
(***************************************************************************)

-----------------------------------------------------------------------------
(***************************************************************************)
(* The bytes of the file                                                   *)
(***************************************************************************)

\* The place where the piece after the first n begins, or the end of the file.
From(n) == IF n = Len(Pieces) THEN SizeOf(entry) ELSE Pieces[n + 1].start

LEMMA Froms ==
    ASSUME entry \in Entries
    PROVE  /\ SizeOf(entry) \in Nat
           /\ \A n \in 0 .. Len(Pieces) : From(n) \in Nat /\ From(n) <= SizeOf(entry)
           /\ \A n \in 0 .. Len(Pieces) - 1 :
                /\ From(n) = Pieces[n + 1].start
                /\ From(n + 1) = From(n) + Pieces[n + 1].len
           /\ From(Len(Pieces)) = SizeOf(entry)
  <1> DEFINE L == Len(Pieces)
  <1>1. L \in Nat \ {0} /\ entry.pieces = Pieces
    BY EntryFacts DEF Pieces
  <1>2. \A k \in 1 .. L : Pieces[k].start \in Nat /\ Pieces[k].len \in Nat
    BY EntryFacts
  <1>3. \A k \in 1 .. L - 1 : Pieces[k + 1].start = Pieces[k].start + Pieces[k].len
    BY EntryFacts DEF Contiguous
  <1>4. SizeOf(entry) = Pieces[L].start + Pieces[L].len
    BY <1>1 DEF SizeOf
  <1>5. \A k \in 1 .. L : k # L => Pieces[k].start + Pieces[k].len <= Pieces[L].start
    BY <1>1, StartsAfter
  <1> HIDE DEF L
  <1>6. SizeOf(entry) \in Nat
    BY <1>1, <1>2, <1>4
  <1>7. ASSUME NEW k \in 1 .. L
        PROVE  Pieces[k].start + Pieces[k].len <= SizeOf(entry)
    BY <1>1, <1>2, <1>4, <1>5
  <1>8. ASSUME NEW n \in 0 .. L
        PROVE  From(n) \in Nat /\ From(n) <= SizeOf(entry)
    <2>1. CASE n = L
      BY <1>6, <2>1 DEF From, L
    <2>2. CASE n # L
      <3>1. n + 1 \in 1 .. L
        BY <1>1, <2>2
      <3>2. From(n) = Pieces[n + 1].start
        BY <2>2 DEF From, L
      <3> QED
        BY <1>2, <1>6, <1>7, <3>1, <3>2
    <2> QED
      BY <2>1, <2>2
  <1>9. ASSUME NEW n \in 0 .. L - 1
        PROVE  From(n) = Pieces[n + 1].start /\ From(n + 1) = From(n) + Pieces[n + 1].len
    <2>1. n \in Nat /\ n # L /\ n + 1 \in 1 .. L
      BY <1>1
    <2>2. From(n) = Pieces[n + 1].start
      BY <2>1 DEF From, L
    <2>3. CASE n + 1 = L
      BY <1>4, <2>2, <2>3 DEF From, L
    <2>4. CASE n + 1 # L
      <3>1. From(n + 1) = Pieces[(n + 1) + 1].start
        BY <2>4 DEF From, L
      <3>2. n + 1 \in 1 .. L - 1
        BY <1>1, <2>1, <2>4
      <3> QED
        BY <1>3, <2>2, <3>1, <3>2
    <2> QED
      BY <2>3, <2>4
  <1> QED
    BY <1>6, <1>8, <1>9 DEF From, L

\* The file is a sequence, and the byte that a piece holds is the piece's byte:
\* no other piece holds it.
LEMMA FileIs ==
    ASSUME entry \in Entries
    PROVE  /\ \E S : File \in Seq(S)
           /\ Len(File) = SizeOf(entry) /\ Len(File) \in Nat
           /\ \A i \in 1 .. Len(Pieces), k \in Nat :
                Holds(entry, i, k) => k \in 1 .. Len(File) /\ File[k] = ByteIn(entry, i, k)
  <1> DEFINE size == SizeOf(entry)
             byte(k) == ByteIn(entry, CHOOSE i \in 1 .. Len(Pieces) : Holds(entry, i, k), k)
             S == {byte(k) : k \in 1 .. size}
  <1>1. size \in Nat
    BY Froms
  <1>2. File = [k \in 1 .. size |-> byte(k)]
    BY DEF File
  <1>3. \A i \in 1 .. Len(Pieces) : Pieces[i].start \in Nat /\ Pieces[i].len \in Nat
    BY EntryFacts
  <1>4. Len(Pieces) \in Nat /\ entry.pieces = Pieces
    BY EntryFacts DEF Pieces
  <1>5. ASSUME NEW i \in 1 .. Len(Pieces), NEW k \in Nat, Holds(entry, i, k)
        PROVE  k \in 1 .. size /\ byte(k) = ByteIn(entry, i, k)
    <2>1. k > Pieces[i].start /\ k <= Pieces[i].start + Pieces[i].len
      BY <1>4, <1>5 DEF Holds
    <2>2. Pieces[i].start + Pieces[i].len <= size
      <3>1. i - 1 \in 0 .. Len(Pieces) - 1 /\ i - 1 + 1 = i /\ i \in 0 .. Len(Pieces)
        BY <1>4
      <3>2. From(i) = Pieces[i].start + Pieces[i].len
        BY <3>1, Froms
      <3> QED
        BY <3>1, <3>2, Froms
    <2>3. k \in 1 .. size
      BY <1>1, <1>3, <2>1, <2>2
    <2>4. ASSUME NEW j \in 1 .. Len(Pieces), Holds(entry, j, k)
          PROVE  j = i
      <3>1. k > Pieces[j].start /\ k <= Pieces[j].start + Pieces[j].len
        BY <1>4, <2>4 DEF Holds
      <3>2. /\ j < i => Pieces[j].start + Pieces[j].len <= Pieces[i].start
            /\ i < j => Pieces[i].start + Pieces[i].len <= Pieces[j].start
        BY StartsAfter
      <3> QED
        BY <1>3, <1>4, <2>1, <3>1, <3>2
    <2>5. (CHOOSE j \in 1 .. Len(Pieces) : Holds(entry, j, k)) = i
      BY <1>5, <2>4
    <2> QED
      BY <2>3, <2>5
  <1> HIDE DEF byte, size
  <1>6. File \in Seq(S) /\ Len(File) = size
    BY <1>1, <1>2
  <1>7. \A k \in 1 .. size : File[k] = byte(k)
    BY <1>2
  <1> QED
    BY <1>1, <1>5, <1>6, <1>7 DEF size

-----------------------------------------------------------------------------
(***************************************************************************)
(* Nothing is lost                                                         *)
(***************************************************************************)

Lossless == Undisturbed /\ Whole /\ unpacks = <<>> /\ call.api # "unpack"

AtEnd == taken = Len(Pieces) /\ read_state = None /\ Len(got) = SizeOf(entry)

\* No read has come to a place where bytes are missing.
Followed == Lossless => Before \/ Within \/ AtEnd

\* What read_all has gathered is what poll_read delivered meanwhile.
Gathered ==
    call.api = "pax" => /\ call.from <= Len(got)
                        /\ call.vec = SubSeq(got, call.from + 1, Len(got))

Joins(u, v, w) == u \o v = w

\* A part of a sequence, and the elements that follow it.
LEMMA PartGrows ==
    ASSUME NEW S, NEW f, NEW g, NEW t \in Seq(S),
           NEW a \in Nat, NEW b \in Nat, NEW c \in Nat, a <= b + 1, b <= c, Len(t) = c - b,
           \A k \in a .. c : f[k] \in S, \A k \in a .. b : g[k] = f[k],
           \A j \in 1 .. c - b : t[j] = f[b + j]
    PROVE  Joins(SubSeq(g, a, b), t, SubSeq(f, a, c))
  <1> DEFINE p == SubSeq(g, a, b)
             w == SubSeq(f, a, c)
             n == (b + 1) - a
  <1>1. /\ p \in Seq(S) /\ Len(p) = n
        /\ \A k \in 1 .. n : p[k] = f[(a - 1) + k]
    <2>1. \A k \in a .. b : g[k] \in S
      OBVIOUS
    <2>2. /\ p \in Seq(S)
          /\ Len(p) = IF a <= b THEN b - a + 1 ELSE 0
          /\ \A k \in 1 .. b - a + 1 : p[k] = g[a + k - 1]
      BY <2>1, SubSeqProperties
    <2> HIDE DEF p
    <2>3. ASSUME NEW k \in 1 .. n PROVE p[k] = f[(a - 1) + k]
      <3>1. k \in 1 .. b - a + 1 /\ a + k - 1 \in a .. b /\ a + k - 1 = (a - 1) + k
        OBVIOUS
      <3> QED
        BY <2>2, <3>1
    <2> QED
      BY <2>2, <2>3
  <1>2. /\ w \in Seq(S) /\ Len(w) = n + (c - b)
        /\ \A k \in 1 .. n + (c - b) : w[k] = f[(a - 1) + k]
    <2>1. /\ w \in Seq(S)
          /\ Len(w) = IF a <= c THEN c - a + 1 ELSE 0
          /\ \A k \in 1 .. c - a + 1 : w[k] = f[a + k - 1]
      BY SubSeqProperties
    <2> HIDE DEF w
    <2>2. ASSUME NEW k \in 1 .. n + (c - b) PROVE w[k] = f[(a - 1) + k]
      <3>1. k \in 1 .. c - a + 1 /\ a + k - 1 = (a - 1) + k
        OBVIOUS
      <3> QED
        BY <2>1, <3>1
    <2> QED
      BY <2>1, <2>2
  <1>3. n \in Nat /\ b + 1 = (a - 1) + (n + 1)
    OBVIOUS
  <1> HIDE DEF p, w, n
  <1>4. p \in Seq(S)
    BY <1>1
  <1>5. /\ p \o t \in Seq(S) /\ Len(p \o t) = Len(p) + Len(t)
        /\ \A k \in 1 .. Len(p) + Len(t) :
                (p \o t)[k] = IF k <= Len(p) THEN p[k] ELSE t[k - Len(p)]
    BY <1>4, ConcatProperties, Zenon
  <1>6. Len(p \o t) = Len(w)
    BY <1>1, <1>2, <1>5
  <1>7. ASSUME NEW k \in 1 .. Len(w) PROVE (p \o t)[k] = w[k]
    <2>1. /\ k \in 1 .. n + (c - b) /\ k \in 1 .. Len(p) + Len(t) /\ k \in Nat
          /\ w[k] = f[(a - 1) + k]
      BY <1>1, <1>2, <1>3
    <2>2. CASE k <= n
      BY <1>1, <1>3, <1>5, <2>1, <2>2
    <2>3. CASE ~(k <= n)
      <3>1. k - n \in 1 .. c - b /\ b + (k - n) = (a - 1) + k
        BY <1>3, <2>1, <2>3
      <3>2. (p \o t)[k] = t[k - n]
        BY <1>1, <1>5, <2>1, <2>3
      <3>3. t[k - n] = f[b + (k - n)]
        BY <3>1
      <3> QED
        BY <2>1, <3>1, <3>2, <3>3
    <2> QED
      BY <2>2, <2>3
  <1>8. p \o t = w
    BY <1>2, <1>5, <1>6, <1>7, SeqEqual
  <1> QED
    BY <1>8 DEF p, w, Joins

LEMMA GrownPart ==
    ASSUME NEW s \in Seq(Nat), NEW t \in Seq(Nat), NEW m \in Nat, m <= Len(s)
    PROVE  /\ m <= Len(s \o t)
           /\ SubSeq(s, m + 1, Len(s)) \o t = SubSeq(s \o t, m + 1, Len(s \o t))
  <1> DEFINE w == s \o t
             b == Len(s)
             c == Len(w)
  <1>1. /\ w \in Seq(Nat) /\ b \in Nat /\ c \in Nat /\ Len(t) \in Nat /\ c = b + Len(t)
        /\ \A k \in 1 .. b : w[k] = s[k]
        /\ \A j \in 1 .. Len(t) : w[b + j] = t[j]
    BY Concat
  <1>2. \A k \in 1 .. c : w[k] \in Nat
    BY <1>1
  <1> HIDE DEF w, c
  <1>3. b <= c /\ Len(t) = c - b
    BY <1>1
  <1>4. \A j \in 1 .. c - b : t[j] = w[b + j]
    BY <1>1, <1>3
  <1> HIDE DEF b
  <1>5. PICK p \in Nat : p = m + 1
    OBVIOUS
  <1>6. /\ p <= b + 1
        /\ \A k \in p .. c : w[k] \in Nat
        /\ \A k \in p .. b : s[k] = w[k]
    BY <1>1, <1>2, <1>5 DEF b
  <1>7. Joins(SubSeq(s, p, b), t, SubSeq(w, p, c))
    BY <1>1, <1>3, <1>4, <1>6, PartGrows
  <1>8. m <= c
    BY <1>1, <1>3 DEF b
  <1> QED
    BY <1>5, <1>7, <1>8, Zenon DEF w, b, c, Joins

\* Bytes that are all in their places are the beginning of the file.
LEMMA PlacesArePrefix ==
    ASSUME entry \in Entries, NEW g \in Seq(Nat),
           \A k \in 1 .. Len(g) :
                \E i \in 1 .. Len(Pieces) : Holds(entry, i, k) /\ g[k] = ByteIn(entry, i, k)
    PROVE  /\ Len(g) <= Len(File)
           /\ \A k \in 1 .. Len(g) : g[k] = File[k]
  <1>1. Len(g) \in Nat
    OBVIOUS
  <1>2. ASSUME NEW k \in 1 .. Len(g)
        PROVE  k \in 1 .. Len(File) /\ g[k] = File[k]
    <2>1. PICK i \in 1 .. Len(Pieces) : Holds(entry, i, k) /\ g[k] = ByteIn(entry, i, k)
      OBVIOUS
    <2>2. k \in Nat
      BY <1>1
    <2> QED
      BY <1>1, <2>1, <2>2, FileIs
  <1>3. Len(File) \in Nat
    BY <1>1, FileIs
  <1>4. Len(g) <= Len(File)
    <2>1. CASE Len(g) = 0
      BY <1>3, <2>1
    <2>2. CASE Len(g) # 0
      BY <1>1, <1>2, <1>3, <2>2
    <2> QED
      BY <2>1, <2>2
  <1> QED
    BY <1>2, <1>4

\* A file that unpack has written, or failed to, is noted.
LEMMA WrittenIsNoted ==
    ASSUME TypeOK, NEW ok \in BOOLEAN, Written(ok)
    PROVE  unpacks' # <<>>
  <1>1. unpacks \in Seq(UnpackType) /\ call \in CallTypes
    BY DEF TypeOK
  <1> DEFINE u == [ok |-> ok, bytes |-> call.vec, from |-> call.from, fresh |-> call.fresh]
  <1>2. u \in UnpackType
    BY <1>1 DEF CallTypes, UnpackType
  <1>3. unpacks' = Append(unpacks, u)
    BY DEF Written
  <1> HIDE DEF u
  <1>4. Len(unpacks') = Len(unpacks) + 1 /\ Len(unpacks) \in Nat
    BY <1>1, <1>2, <1>3
  <1> QED
    BY <1>4

\* A step that keeps an entry lossless began with one.
LEMMA LosslessBefore ==
    ASSUME TypeOK, Next, Lossless'
    PROVE  Lossless /\ entry' = entry
  <1>1. Undisturbed /\ entry' = entry
    BY Disturbed DEF Lossless
  <1>2. Whole
    BY <1>1 DEF Lossless, Whole
  <1>3. ~(\E ok \in BOOLEAN : Written(ok))
    BY WrittenIsNoted DEF Lossless
  <1>4. CASE unpacks' = unpacks /\ call.api # "unpack"
    BY <1>1, <1>2, <1>4 DEF Lossless
  <1>5. ~Unpacking
    <2> SUFFICES ASSUME Unpacking PROVE FALSE
      OBVIOUS
    <2>1. call.api = "unpack" /\ call \in CallTypes
      BY DEF Unpacking, TypeOK
    <2>2. call # NoCall
      BY <2>1 DEF NoCall
    <2>3. ~CallUnpack /\ ~CallPax /\ ~(\E n \in BufSizes : CallRead(n))
      BY <2>2 DEF CallUnpack, CallPax, CallRead, Start
    <2>4. ~Poll
      BY <2>1 DEF Poll, NextPiece, NoPiece, ReadPad, ReadData, EndPiece, NothingRead, Reading
    <2>5. ~CopyShort /\ ~Unpacked /\ ~Interrupted
      BY <1>3 DEF CopyShort, Unpacked, Interrupted
    <2>6. CopyData \/ CopyPad
      BY <2>3, <2>4, <2>5 DEF Next, Copy
    <2>7. call'.api = "unpack"
      BY <2>1, <2>6 DEF CopyData, CopyPad, Append1, CallTypes
    <2> QED
      BY <2>7 DEF Lossless
  <1>6. unpacks' = unpacks
    BY <1>5 DEF Next, CallRead, CallPax, CallUnpack, Start, Poll, Copy, NextPiece, NoPiece,
        Exhausted, ReadPad, ReadData, Deliver, EndPiece, CopyData, CopyPad, CopyShort,
        Unpacked, Interrupted
  <1> QED
    BY <1>4, <1>5, <1>6 DEF Unpacking

\* The archive holds all of a piece that is read in part.
LEMMA WithinArchive ==
    ASSUME TypeOK, Whole, Within, Current.kind = "data", read_state.left > 0
    PROVE  off < entry.cut
  <1> DEFINE L == Len(Pieces)
             i == read_state.i
  <1>1. /\ i \in 1 .. L /\ L \in Nat \ {0} /\ entry.cut \in Nat
        /\ Current = Pieces[i] /\ entry.pieces = Pieces
        /\ read_state.left \in Nat
    BY RoomBounds, EntryFacts DEF Within, Current, Pieces, TypeOK
  <1>2. /\ Pieces[i].at \in Nat /\ Pieces[i].len \in Nat /\ Stored(Pieces[i]) \in Nat
        /\ Pieces[L].at \in Nat /\ Stored(Pieces[L]) \in Nat
    <2>1. \A j \in 1 .. L : /\ Pieces[j].at \in Nat /\ Pieces[j].len \in Nat
                             /\ Stored(Pieces[j]) \in Nat
      BY EntryFacts DEF TypeOK
    <2>2. i \in 1 .. L /\ L \in 1 .. L
      BY <1>1
    <2> HIDE DEF L, i
    <2> QED
      BY <2>1, <2>2
  <1>3. Stored(Current) = Current.len
    BY DEF Stored
  <1>4. Pieces[i].at + Stored(Pieces[i]) <= Pieces[L].at + Stored(Pieces[L])
    <2>1. CASE i = L
      BY <1>2, <2>1
    <2>2. CASE i # L
      <3>1. i < L
        BY <1>1, <2>2
      <3>2. Pieces[L].at >= Pieces[i].at + Stored(Pieces[i])
        BY <1>1, <3>1, StartsAfter DEF TypeOK
      <3> QED
        BY <1>2, <3>2
    <2> QED
      BY <2>1, <2>2
  <1>5. entry.cut >= Pieces[L].at + Stored(Pieces[L])
    BY <1>1 DEF Whole, BytesOf
  <1>6. off = Pieces[i].at + (Pieces[i].len - read_state.left)
    BY <1>1, <1>3 DEF Within
  <1> HIDE DEF L, i
  <1> QED
    BY <1>1, <1>2, <1>3, <1>4, <1>5, <1>6

\* The last piece ends where the file does.
LEMMA LastPiece ==
    ASSUME TypeOK, Within, taken = Len(Pieces), read_state.left = 0
    PROVE  Len(got) = SizeOf(entry)
  <1>1. entry.pieces = Pieces /\ read_state # None /\ read_state.i = Len(Pieces)
    BY DEF Pieces, Within
  <1>2. Current = entry.pieces[Len(entry.pieces)] /\ Current.start \in Nat /\ Current.len \in Nat
    BY <1>1, RoomBounds, EntryFacts DEF Current, TypeOK
  <1>3. Len(got) = Current.start + (Current.len - 0)
    BY DEF Within
  <1> QED
    BY <1>2, <1>3 DEF SizeOf

LEMMA FollowedInit == Init => Followed
  <1> SUFFICES ASSUME Init PROVE Before
    BY DEF Followed
  <1>1. Len(Pieces) \in Nat \ {0} /\ Contiguous(Pieces)
    BY EntryFacts DEF Init
  <1> QED
    BY <1>1 DEF Init, Before, Contiguous

LEMMA FollowedStep == TypeOK /\ Calls /\ Followed /\ [Next]_vars => Followed'
  <1> SUFFICES ASSUME TypeOK, Calls, Followed, [Next]_vars PROVE Followed'
    OBVIOUS
  <1> SUFFICES ASSUME Next, Lossless', Lossless, entry' = entry
               PROVE  (Before \/ Within \/ AtEnd)'
    <2>1. CASE UNCHANGED vars
      BY <2>1 DEF vars, Followed, Lossless, Undisturbed, Sound, Whole, Before, Within, AtEnd,
                  Current, Pieces
    <2> QED
      BY <2>1, LosslessBefore DEF Followed
  <1>1. Before \/ Within \/ AtEnd
    BY DEF Followed
  <1>2. Pieces' = Pieces /\ ~entry.empty /\ Whole /\ ~Unpacking /\ call'.api # "unpack"
    BY DEF Pieces, Lossless, Undisturbed, Sound, Unpacking
  <1>3. CASE UNCHANGED <<taken, read_state, off, got>>
    BY <1>1, <1>2, <1>3 DEF Before, Within, AtEnd, Current
  <1>4. ~CallUnpack
    BY <1>2 DEF CallUnpack, NoCall
  <1>5. CASE NextPiece
    <2>1. Before
      BY <1>1, <1>5 DEF NextPiece, Within, AtEnd
    <2> QED
      BY <1>5, <2>1, TakeWithin DEF NextPiece
  <1>6. CASE ReadPad
    BY <1>1, <1>6, PadWithin DEF ReadPad, Before, AtEnd
  <1>7. CASE ReadData
    BY <1>1, <1>7, DataWithin DEF ReadData, Before, AtEnd
  <1>8. CASE EndPiece
    <2>1. Within /\ read_state # None /\ call.buf > 0
      BY <1>1, <1>2, <1>8 DEF EndPiece, NothingRead, Calls, Before, AtEnd
    <2>2. read_state.left = 0
      <3>1. /\ read_state.left \in Nat /\ entry.cut \in Nat /\ off \in Nat
            /\ Room = 0 => read_state.left = 0 \/ call.buf = 0
        BY <2>1, RoomBounds, EntryFacts DEF TypeOK
      <3>2. Room = 0 \/ (Current.kind = "data" /\ off >= entry.cut)
        BY <1>8 DEF EndPiece, NothingRead
      <3> QED
        BY <1>2, <2>1, <3>1, <3>2, WithinArchive
    <2>3. CASE taken < Len(Pieces) /\ TakePiece
                 /\ UNCHANGED <<entry, off, call, pax, got, ended, unpacks>>
      BY <2>1, <2>2, <2>3, TakeWithin
    <2>4. CASE taken = Len(Pieces) /\ read_state' = None /\ Exhausted
      BY <1>2, <2>1, <2>2, <2>4, LastPiece DEF Exhausted, AtEnd
    <2> QED
      BY <1>8, <2>3, <2>4 DEF EndPiece
  <1> QED
    BY <1>2, <1>3, <1>4, <1>5, <1>6, <1>7, <1>8
    DEF Next, Poll, Copy, CallRead, CallPax, Start, NoPiece, Exhausted, CopyData, CopyPad,
        CopyShort, Unpacked, Interrupted

\* Where a read comes to its end, all of the file was delivered.
LEMMA EndOfFile ==
    ASSUME TypeOK, Calls, Followed, DeliveredInOrder, Lossless,
           \/ NoPiece
           \/ EndPiece /\ taken = Len(Pieces) /\ read_state' = None /\ Exhausted
    PROVE  Len(got) = Len(File) /\ call.buf > 0
  <1>1. ~entry.empty /\ Whole /\ (Before \/ Within \/ AtEnd) /\ Reading
    BY DEF Followed, Lossless, Undisturbed, Sound, NoPiece, EndPiece, NothingRead
  <1>2. call.buf > 0
    BY <1>1 DEF Calls
  <1>3. taken = Len(Pieces) /\ Len(Pieces) \in Nat
    BY EntryFacts DEF NoPiece, TypeOK
  <1>4. Len(got) = SizeOf(entry)
    <2>1. CASE NoPiece
      BY <1>1, <1>3, <2>1 DEF NoPiece, Before, Within, AtEnd
    <2>2. CASE EndPiece
      <3>1. Within /\ read_state # None
        BY <1>1, <1>3, <2>2 DEF EndPiece, NothingRead, Before, AtEnd
      <3>2. /\ read_state.left \in Nat /\ entry.cut \in Nat /\ off \in Nat /\ call.buf \in Nat
            /\ Room = 0 => read_state.left = 0 \/ call.buf = 0
        BY <3>1, RoomBounds, EntryFacts DEF TypeOK
      <3>3. Room = 0 \/ (Current.kind = "data" /\ off >= entry.cut)
        BY <2>2 DEF EndPiece, NothingRead
      <3>4. read_state.left = 0
        BY <1>1, <1>2, <3>1, <3>2, <3>3, WithinArchive
      <3> QED
        BY <1>3, <3>1, <3>4, LastPiece
    <2> QED
      BY <2>1, <2>2
  <1> QED
    BY <1>2, <1>4, FileIs DEF TypeOK

-----------------------------------------------------------------------------
(***************************************************************************)
(* The file reader                                                         *)
(***************************************************************************)

\* A step delivers bytes, or nothing, or says that there are no more.
LEMMA GotGrows ==
    ASSUME TypeOK, Next
    PROVE  \/ /\ \E t \in Seq(Nat) : Len(t) > 0 /\ Deliver(t)
              /\ Reading
           \/ NoPiece
           \/ EndPiece /\ taken = Len(Pieces) /\ read_state' = None /\ Exhausted
           \/ got' = got /\ ended' = ended
  <1>1. CASE ReadPad
    <2>1. Room \in Nat /\ Room > 0 /\ Deliver(FromRepeat(Room)) /\ Reading
      BY <1>1, RoomBounds DEF ReadPad
    <2>2. FromRepeat(Room) \in Seq(Nat) /\ Len(FromRepeat(Room)) = Room
      BY <2>1, ByteSequences DEF TypeOK
    <2> QED
      BY <2>1, <2>2
  <1>2. CASE ReadData
    <2> PICK n \in 1 .. Room : Deliver(FromArchive(n))
      BY <1>2 DEF ReadData
    <2>1. n \in Nat /\ n > 0 /\ Reading
      BY <1>2, RoomBounds DEF ReadData
    <2>2. FromArchive(n) \in Seq(Nat) /\ Len(FromArchive(n)) = n
      BY <2>1, ByteSequences DEF TypeOK
    <2> QED
      BY <2>1, <2>2
  <1> QED
    BY <1>1, <1>2
    DEF Next, CallRead, CallPax, CallUnpack, Start, Poll, Copy, NextPiece, EndPiece,
        CopyData, CopyPad, CopyShort, Unpacked, Interrupted

\* The beginning of a sequence that was appended to.
LEMMA Beginning ==
    ASSUME NEW s \in Seq(Nat), NEW t \in Seq(Nat)
    PROVE  SubSeq(s \o t, 1, Len(s)) = s /\ SubSeq(s, 1, Len(s)) = s
  <1> DEFINE w == s \o t
             b == SubSeq(w, 1, Len(s))
  <1>1. Len(s) \in Nat /\ \A k \in 1 .. Len(s) : w[k] = s[k] /\ s[k] \in Nat
    BY Concat
  <1> HIDE DEF w
  <1>2. /\ b \in Seq(Nat) /\ Len(b) = IF 1 <= Len(s) THEN Len(s) - 1 + 1 ELSE 0
        /\ \A k \in 1 .. Len(s) - 1 + 1 : b[k] = w[1 + k - 1]
    BY <1>1, SubSeqProperties
  <1> HIDE DEF b
  <1>3. Len(b) = Len(s) /\ \A k \in 1 .. Len(b) : b[k] = s[k]
    BY <1>1, <1>2
  <1>4. b = s
    BY <1>2, <1>3, SeqEqual
  <1> QED
    BY <1>4, SubSeqFull DEF b, w

\* Bytes that come to be in their places are the next ones of the file.
LEMMA NextBytes ==
    ASSUME TypeOK, TypeOK', DeliveredInOrder', Undisturbed', UNCHANGED <<entry, ended>>,
           NEW t \in Seq(Nat), Len(t) > 0, got' = got \o t
    PROVE  Reader!Deliver
  <1> DEFINE g == Len(got)
             n == Len(t)
             b == SubSeq(File, g + 1, g + n)
  <1>1. got \in Seq(Nat) /\ g \in Nat /\ n \in Nat
    BY DEF TypeOK
  <1>2. Len(got') = g + n /\ \A k \in 1 .. n : got'[g + k] = t[k] /\ t[k] \in Nat
    BY <1>1, Concat
  <1>3. File' = File
    BY DEF File, Pieces
  <1>4. Len(got') <= Len(File) /\ \A k \in 1 .. Len(got') : got'[k] = File[k]
    <2>1. entry \in Entries /\ got' \in Seq(Nat) /\ Pieces' = Pieces
      BY DEF TypeOK, Pieces
    <2>2. \A k \in 1 .. Len(got') :
            \E i \in 1 .. Len(Pieces) : Holds(entry, i, k) /\ got'[k] = ByteIn(entry, i, k)
      BY <2>1 DEF DeliveredInOrder, Holds, ByteIn
    <2> QED
      BY <2>1, <2>2, PlacesArePrefix
  <1>5. Len(File) \in Nat
    BY FileIs DEF TypeOK
  <1> HIDE DEF g, n
  <1>6. ASSUME NEW k \in 1 .. n PROVE File[g + k] = t[k] /\ t[k] \in Nat
    <2>1. g + k \in 1 .. Len(got')
      BY <1>1, <1>2
    <2> QED
      BY <1>2, <1>4, <2>1
  <1>7. \A k \in g + 1 .. g + n : File[k] \in Nat
    <2> SUFFICES ASSUME NEW k \in g + 1 .. g + n PROVE File[k] \in Nat
      OBVIOUS
    <2>1. k - g \in 1 .. n /\ g + (k - g) = k
      BY <1>1
    <2> QED
      BY <1>6, <2>1
  <1>8. /\ b \in Seq(Nat)
        /\ Len(b) = IF g + 1 <= g + n THEN (g + n) - (g + 1) + 1 ELSE 0
        /\ \A k \in 1 .. (g + n) - (g + 1) + 1 : b[k] = File[(g + 1) + k - 1]
    <2>1. g + 1 \in Int /\ g + n \in Int
      BY <1>1
    <2> QED
      BY <1>7, <2>1, SubSeqProperties
  <1> HIDE DEF b
  <1>9. Len(b) = n /\ \A k \in 1 .. n : b[k] = t[k]
    <2>1. Len(b) = n
      BY <1>1, <1>8
    <2>2. ASSUME NEW k \in 1 .. n PROVE b[k] = t[k]
      <3>1. k \in 1 .. (g + n) - (g + 1) + 1 /\ (g + 1) + k - 1 = g + k
        BY <1>1
      <3> QED
        BY <1>6, <1>8, <3>1
    <2> QED
      BY <2>1, <2>2
  <1>10. b = t
    BY <1>8, <1>9, SeqEqual DEF n
  <1>11. n \in 1 .. Len(File) - g
    BY <1>1, <1>2, <1>4, <1>5 DEF n
  <1>12. got' = got \o SubSeq(File, g + 1, g + n)
    BY <1>10 DEF b
  <1> QED
    BY <1>3, <1>11, <1>12 DEF Reader!Deliver, g

LEMMA ReaderStep ==
    /\ TypeOK /\ TypeOK' /\ Calls /\ Followed /\ DeliveredInOrder /\ DeliveredInOrder'
    /\ [Next]_vars
    => [Reader!Next]_(Reader!vars)
  <1> SUFFICES ASSUME TypeOK, TypeOK', Calls, Followed, DeliveredInOrder, DeliveredInOrder',
                      [Next]_vars
               PROVE  [Reader!Next]_(Reader!vars)
    OBVIOUS
  <1>1. CASE UNCHANGED vars
    BY <1>1 DEF vars, Reader!vars, File, Pieces, Undisturbed, Sound, Whole
  <1> SUFFICES ASSUME Next PROVE [Reader!Next]_(Reader!vars)
    BY <1>1
  <1>2. entry' = entry /\ File' = File
    BY EntryFixed DEF File, Pieces
  <1>3. got \in Seq(Nat) /\ ended \in BOOLEAN /\ ended' \in BOOLEAN
    BY DEF TypeOK
  <1>4. CASE ~Lossless'
    <2>1. \/ got' = got
          \/ \E t \in Seq(Nat) : got' = got \o t
      BY GotGrows DEF Deliver, NoPiece, Exhausted
    <2>2. Len(got) <= Len(got') /\ SubSeq(got', 1, Len(got)) = got
      <3>1. CASE got' = got
        <4>1. <<>> \in Seq(Nat) /\ Len(got) \in Nat
          BY <1>3
        <4> QED
          BY <1>3, <3>1, <4>1, Beginning
      <3>2. ASSUME NEW t \in Seq(Nat), got' = got \o t
            PROVE  Len(got) <= Len(got') /\ SubSeq(got', 1, Len(got)) = got
        BY <1>3, <3>2, Concat, Beginning
      <3> QED
        BY <2>1, <3>1, <3>2
    <2> QED
      BY <1>2, <1>3, <1>4, <2>2 DEF Reader!Next, Reader!Lose, Lossless
  <1>5. CASE Lossless'
    <2>1. Lossless
      BY <1>5, LosslessBefore
    <2>2. Undisturbed'
      BY <1>5 DEF Lossless
    <2>3. CASE got' = got /\ ended' = ended
      BY <1>2, <1>5, <2>1, <2>3 DEF Reader!vars, Lossless
    <2>4. ASSUME NEW t \in Seq(Nat), Len(t) > 0, Deliver(t) PROVE Reader!Next
      <3>1. ended' = ended /\ got' = got \o t
        BY <2>4 DEF Deliver
      <3>2. Reader!Deliver
        BY <1>2, <2>2, <2>4, <3>1, NextBytes
      <3> QED
        BY <1>5, <2>1, <3>2 DEF Reader!Next, Lossless
    <2>5. CASE NoPiece \/ (EndPiece /\ taken = Len(Pieces) /\ read_state' = None /\ Exhausted)
      <3>1. Len(got) = Len(File) /\ call.buf > 0
        BY <2>1, <2>5, EndOfFile
      <3>2. ended' = TRUE /\ got' = got
        BY <2>5, <3>1 DEF NoPiece, Exhausted
      <3>3. Reader!End
        BY <1>2, <3>1, <3>2 DEF Reader!End
      <3> QED
        BY <1>5, <2>1, <3>3 DEF Reader!Next, Lossless
    <2> QED
      BY <2>3, <2>4, <2>5, GotGrows
  <1> QED
    BY <1>4, <1>5

\* For every layout of an entry, every buffer and every truncation: an entry is
\* a file handle ("It acts as a file handle", entry.rs:31).  As long as no
\* buffer is empty, the archive is whole and nothing was unpacked, every read
\* gives the next bytes of the file, and nothing only at its end.
THEOREM ReaderCorrect == Spec => ImplementsReader
  <1>1. Init => Reader!Init
    BY DEF Init, Reader!Init
  <1>2. Init => IInv /\ Followed
    BY IInvInit, FollowedInit
  <1>3. IInv /\ Followed /\ [Next]_vars => IInv' /\ Followed'
    BY TypeStep, CallsStep, PlacedStep, DeliveredStep, FollowedStep DEF IInv
  <1>4. IInv /\ IInv' /\ Followed /\ [Next]_vars => [Reader!Next]_(Reader!vars)
    BY ReaderStep DEF IInv
  <1> QED
    BY <1>1, <1>2, <1>3, <1>4, PTL DEF Spec, ImplementsReader, Reader!Spec

-----------------------------------------------------------------------------
(***************************************************************************)
(* The pax records that are kept                                           *)
(***************************************************************************)

LEMMA GatheredInit == Init => Gathered
  BY DEF Init, Gathered, NoCall

LEMMA GatheredStep == TypeOK /\ Gathered /\ [Next]_vars => Gathered'
  <1> SUFFICES ASSUME TypeOK, Gathered, [Next]_vars, call'.api = "pax"
               PROVE  /\ call'.from <= Len(got')
                      /\ call'.vec = SubSeq(got', call'.from + 1, Len(got'))
    BY DEF Gathered
  <1>1. call \in CallTypes /\ got \in Seq(Nat) /\ Len(got) \in Nat
    BY DEF TypeOK
  <1>2. CASE call' = call /\ got' = got
    BY <1>2 DEF Gathered
  <1>3. CASE call' = NoCall
    BY <1>3 DEF NoCall
  <1>4. ASSUME NEW n \in BufSizes, CallRead(n) PROVE FALSE
    BY <1>4 DEF CallRead, Start, NoCall
  <1>5. CASE CallPax
    <2>1. /\ call'.from = Len(got) /\ call'.vec = <<>> /\ got' = got
      BY <1>5 DEF CallPax, Start, NoCall
    <2>2. SubSeq(got, Len(got) + 1, Len(got)) = <<>>
      BY <1>1, SubSeqEmpty
    <2> QED
      BY <1>1, <2>1, <2>2
  <1>6. ASSUME NEW t \in Seq(Nat), Deliver(t)
        PROVE  /\ call'.from <= Len(got')
               /\ call'.vec = SubSeq(got', call'.from + 1, Len(got'))
    <2>1. call.api = "pax"
      BY <1>6 DEF Deliver, NoCall
    <2>2. /\ got' = got \o t /\ call'.from = call.from /\ call'.vec = call.vec \o t
      BY <1>1, <1>6, <2>1 DEF Deliver, CallTypes
    <2>3. /\ call.from \in Nat /\ call.from <= Len(got)
          /\ call.vec = SubSeq(got, call.from + 1, Len(got))
      BY <1>1, <2>1 DEF Gathered, CallTypes
    <2>4. /\ call.from <= Len(got')
          /\ SubSeq(got, call.from + 1, Len(got)) \o t = SubSeq(got', call.from + 1, Len(got'))
      BY <1>1, <2>2, <2>3, GrownPart
    <2> QED
      BY <2>2, <2>3, <2>4
  <1>7. CASE CallUnpack \/ CopyData \/ CopyPad
    <2>1. call'.api = "unpack"
      BY <1>1, <1>7 DEF CallUnpack, CopyData, CopyPad, Append1, Unpacking, CallTypes, NoCall
    <2> QED
      BY <2>1
  <1>8. CASE Next
    <2>1. CASE Poll
      <3>1. CASE ReadPad \/ ReadData
        <4>1. \/ ReadPad /\ Deliver(FromRepeat(Room))
              \/ \E n \in 1 .. Room : ReadData /\ Deliver(FromArchive(n))
          BY <3>1 DEF ReadPad, ReadData
        <4>2. CASE ReadPad /\ Deliver(FromRepeat(Room))
          BY <1>6, <4>2, RoomBounds, ByteSequences DEF ReadPad, TypeOK
        <4>3. ASSUME NEW n \in 1 .. Room, ReadData, Deliver(FromArchive(n))
              PROVE  FromArchive(n) \in Seq(Nat)
          <5>1. n \in Nat
            BY <4>3, RoomBounds DEF ReadData
          <5> QED
            BY <5>1, ByteSequences DEF TypeOK
        <4> QED
          BY <1>6, <4>1, <4>2, <4>3
      <3> QED
        BY <1>2, <1>3, <2>1, <3>1
        DEF Poll, NextPiece, NoPiece, EndPiece, Exhausted, Return
    <2> QED
      BY <1>3, <1>4, <1>5, <1>7, <1>8, <2>1
      DEF Next, Copy, CopyShort, Unpacked, Interrupted, Return
  <1> QED
    BY <1>2, <1>8 DEF vars

\* The records that pax_extensions keeps are those from where the call that
\* stored them began to read.
PaxRest ==
    Undisturbed /\ Whole /\ unpacks = <<>> /\ pax # None =>
        pax.bytes = SubSeq(File, pax.from + 1, Len(File))

LEMMA PaxRestInit == Init => PaxRest
  BY DEF Init, PaxRest

LEMMA PaxRestStep ==
    /\ TypeOK /\ TypeOK' /\ Calls /\ Followed /\ DeliveredInOrder /\ Gathered /\ PaxRest
    /\ [Next]_vars
    => PaxRest'
  <1> SUFFICES ASSUME TypeOK, TypeOK', Calls, Followed, DeliveredInOrder, Gathered, PaxRest,
                      [Next]_vars
               PROVE  PaxRest'
    OBVIOUS
  <1>0. entry' = entry /\ File' = File
    <2>1. entry' = entry
      BY EntryFixed DEF vars
    <2> QED
      BY <2>1 DEF File, Pieces
  <1> HIDE DEF File
  <1>1. CASE UNCHANGED vars
    BY <1>0, <1>1 DEF vars, PaxRest, Undisturbed, Sound, Whole, Pieces
  <1> SUFFICES ASSUME Next, Undisturbed', Whole', unpacks' = <<>>, pax' # None
               PROVE  pax'.bytes = SubSeq(File, pax'.from + 1, Len(File))
    BY <1>0, <1>1 DEF PaxRest
  <1>2. Undisturbed /\ entry' = entry /\ Whole
    BY Disturbed DEF Whole
  <1>3. unpacks \in Seq(UnpackType) /\ call \in CallTypes
    BY DEF TypeOK
  <1>4. unpacks = <<>>
    <2>1. ~(\E ok \in BOOLEAN : Written(ok))
      BY WrittenIsNoted
    <2> QED
      BY <2>1 DEF Next, CallRead, CallPax, CallUnpack, Start, Poll, Copy, NextPiece, NoPiece,
          Exhausted, ReadPad, ReadData, Deliver, EndPiece, CopyData, CopyPad, CopyShort,
          Unpacked, Interrupted
  <1>5. CASE pax' = pax
    BY <1>2, <1>4, <1>5 DEF PaxRest
  <1>6. CASE call.api = "pax" /\ (NoPiece \/ (EndPiece /\ taken = Len(Pieces)
                                              /\ read_state' = None /\ Exhausted))
    <2>1. pax' = [bytes |-> call.vec, from |-> call.from]
      BY <1>6 DEF NoPiece, Exhausted
    <2>2. Lossless
      BY <1>2, <1>4, <1>6 DEF Lossless
    <2>3. Len(got) = Len(File)
      BY <1>6, <2>2, EndOfFile
    <2>4. call.vec = SubSeq(got, call.from + 1, Len(got))
      BY <1>6 DEF Gathered
    <2>5. got = File
      <3>1. entry \in Entries /\ got \in Seq(Nat)
        BY DEF TypeOK
      <3>2. \A k \in 1 .. Len(got) : got[k] = File[k]
        BY <1>2, <3>1, PlacesArePrefix DEF DeliveredInOrder
      <3>3. PICK S : File \in Seq(S)
        BY <3>1, FileIs
      <3>4. File \in Seq(S \cup Nat) /\ got \in Seq(S \cup Nat)
        BY <3>1, <3>3
      <3> HIDE DEF File
      <3> QED
        BY <2>3, <3>2, <3>4, SeqEqual
    <2> QED
      BY <2>1, <2>4, <2>5
  <1> QED
    BY <1>5, <1>6
    DEF Next, CallRead, CallPax, CallUnpack, Start, Poll, Copy, NextPiece, NoPiece,
        Exhausted, ReadPad, ReadData, Deliver, EndPiece, CopyData, CopyPad, CopyShort,
        Unpacked, Interrupted

\* All of the file, if it began at its start.
LEMMA AllOfFile ==
    ASSUME TypeOK
    PROVE  SubSeq(File, 1, Len(File)) = File
  <1>1. PICK S : File \in Seq(S)
    BY FileIs DEF TypeOK
  <1> HIDE DEF File
  <1> QED
    BY <1>1

\* pax_extensions keeps every record of an entry of which nothing had been
\* delivered when the call that stored them began (entry.rs:435-447).
THEOREM PaxWholeCorrect == Spec => []PaxWhole
  <1> DEFINE J == IInv /\ Followed /\ Gathered /\ PaxRest
  <1>1. Init => J
    BY IInvInit, FollowedInit, GatheredInit, PaxRestInit
  <1>2. J /\ [Next]_vars => J'
    <2>1. IInv /\ [Next]_vars => IInv'
      BY TypeStep, CallsStep, PlacedStep, DeliveredStep DEF IInv
    <2>2. J /\ [Next]_vars => Followed' /\ Gathered' /\ PaxRest'
      BY <2>1, FollowedStep, GatheredStep, PaxRestStep DEF IInv
    <2> QED
      BY <2>1, <2>2
  <1>3. J => PaxWhole
    <2> SUFFICES ASSUME J, Undisturbed, Whole, unpacks = <<>>, pax # None, pax.from = 0
                 PROVE  pax.bytes = File
      BY DEF PaxWhole
    <2>1. pax.bytes = SubSeq(File, pax.from + 1, Len(File))
      BY DEF PaxRest
    <2>2. SubSeq(File, 1, Len(File)) = File
      BY AllOfFile DEF IInv
    <2> HIDE DEF File
    <2> QED
      BY <2>1, <2>2
  <1> QED
    BY <1>1, <1>2, <1>3, PTL DEF Spec

-----------------------------------------------------------------------------
(***************************************************************************)
(* What unpack writes                                                      *)
(***************************************************************************)

\* The archive has ended, and no hole is left to be drained.
Dry ==
    /\ off >= entry.cut
    /\ \A j \in call.next + 1 .. Len(Pieces) : Pieces[j].kind = "data"

\* What an unpack has drained so far that began between two pieces, or before
\* anything was read.
Drained ==
    Unpacking /\ ((call.fresh /\ Sound) \/ call.from = 0) =>
        /\ call.from <= call.next
        /\ call.vec = SubSeq(File, From(call.from) + 1, From(call.next))
        /\ call.next < Len(Pieces) => off = Draining.at \/ Dry

\* Once unpack was called, `data` is empty.
Once == unpacks # <<>> \/ Unpacking => taken = Len(Pieces)

\* As long as no piece was taken, nothing was read from the archive.
Untouched == taken = 0 => read_state = None /\ off = 0

\* A successful unpack wrote the file from the first piece that no read had begun.
UnpackRest ==
    \A n \in 1 .. Len(unpacks) :
        LET u == unpacks[n]
        IN  u.ok /\ ((u.fresh /\ Sound) \/ u.from = 0) =>
                u.bytes = SubSeq(File, From(u.from) + 1, Len(File))

\* Later pieces begin later.
LEMMA FromGrows ==
    ASSUME entry \in Entries, NEW m \in 0 .. Len(Pieces), NEW n \in 0 .. Len(Pieces), m <= n
    PROVE  From(m) <= From(n)
  <1>1. Len(Pieces) \in Nat /\ From(m) \in Nat /\ From(m) <= SizeOf(entry)
    BY EntryFacts, Froms
  <1>2. CASE m = n
    BY <1>1, <1>2
  <1>3. CASE n = Len(Pieces)
    BY <1>1, <1>3, Froms
  <1>4. CASE m # n /\ n # Len(Pieces)
    <2>1. m + 1 \in 1 .. Len(Pieces) /\ n + 1 \in 1 .. Len(Pieces) /\ m + 1 < n + 1
          /\ m \in 0 .. Len(Pieces) - 1 /\ n \in 0 .. Len(Pieces) - 1
      BY <1>1, <1>4
    <2>2. From(m) = Pieces[m + 1].start /\ From(n) = Pieces[n + 1].start
      BY <2>1, Froms
    <2>3. Pieces[m + 1].start + Pieces[m + 1].len <= Pieces[n + 1].start
      BY <2>1, StartsAfter
    <2>4. /\ Pieces[m + 1].start \in Nat /\ Pieces[m + 1].len \in Nat
          /\ Pieces[n + 1].start \in Nat
      BY <2>1, EntryFacts
    <2> QED
      BY <2>2, <2>3, <2>4
  <1> QED
    BY <1>2, <1>3, <1>4

\* The bytes of a piece in the file.
LEMMA PieceBytes ==
    ASSUME entry \in Entries, NEW n \in 0 .. Len(Pieces) - 1, NEW j \in 1 .. Pieces[n + 1].len
    PROVE  File[From(n) + j] = IF Pieces[n + 1].kind = "pad" THEN 0 ELSE Pieces[n + 1].at + j
  <1> DEFINE q == Pieces[n + 1]
             k == From(n) + j
  <1>1. n + 1 \in 1 .. Len(Pieces) /\ From(n) = q.start /\ entry.pieces = Pieces
    <2>1. Len(Pieces) \in Nat
      BY EntryFacts
    <2> QED
      BY <2>1, Froms DEF Pieces
  <1>2. q.start \in Nat /\ q.len \in Nat /\ q.at \in Nat
    BY <1>1, EntryFacts
  <1>3. k \in Nat /\ k > q.start /\ k <= q.start + q.len /\ k - q.start = j
    BY <1>1, <1>2
  <1>4. Holds(entry, n + 1, k)
    BY <1>1, <1>3 DEF Holds
  <1>5. File[k] = ByteIn(entry, n + 1, k)
    BY <1>1, <1>3, <1>4, FileIs
  <1> QED
    BY <1>1, <1>3, <1>5 DEF ByteIn

\* A piece that is drained, after those before it.
LEMMA DrainMore ==
    ASSUME TypeOK, call.from <= call.next, call.next < Len(Pieces),
           call.vec = SubSeq(File, From(call.from) + 1, From(call.next)),
           NEW t \in Seq(Nat), Len(t) = Draining.len,
           \A j \in 1 .. Len(t) : t[j] = File[From(call.next) + j]
    PROVE  call.vec \o t = SubSeq(File, From(call.from) + 1, From(call.next + 1))
  <1>1. /\ call.from \in Nat /\ call.next \in Nat /\ Len(Pieces) \in Nat /\ entry \in Entries
    BY EntryFacts DEF TypeOK, CallTypes
  <1>2. /\ call.from \in 0 .. Len(Pieces) /\ call.next \in 0 .. Len(Pieces)
        /\ call.next \in 0 .. Len(Pieces) - 1 /\ call.next + 1 \in 0 .. Len(Pieces)
    BY <1>1
  <1> DEFINE a0 == From(call.from)
             b == From(call.next)
             c == From(call.next + 1)
  <1>3. a0 \in Nat /\ b \in Nat /\ c \in Nat /\ a0 <= b /\ c <= Len(File)
    BY <1>1, <1>2, Froms, FromGrows, FileIs
  <1>4. c = b + Len(t) /\ Len(t) \in Nat
    BY <1>1, <1>2, Froms DEF Draining
  <1>5. \A j \in 1 .. Len(t) : t[j] = File[b + j]
    OBVIOUS
  <1>6. PICK R : File \in Seq(R)
    BY <1>1, FileIs
  <1>7. call.vec = SubSeq(File, a0 + 1, b) /\ Len(File) \in Nat
    BY <1>1, FileIs
  <1> HIDE DEF a0, b, c, File
  <1>8. PICK a \in Nat : a = a0 + 1
    BY <1>3
  <1>9. /\ a <= b + 1 /\ b <= c /\ Len(t) = c - b
    BY <1>3, <1>4, <1>8
  <1>10. t \in Seq(R \cup Nat) /\ \A k \in 1 .. Len(File) : File[k] \in R \cup Nat
    BY <1>6
  <1>11. \A k \in a .. c : File[k] \in R \cup Nat
    BY <1>3, <1>7, <1>8, <1>10
  <1>12. \A j \in 1 .. c - b : t[j] = File[b + j]
    BY <1>5, <1>9
  <1>13. Joins(SubSeq(File, a, b), t, SubSeq(File, a, c))
    BY <1>3, <1>9, <1>10, <1>11, <1>12, PartGrows
  <1> QED
    BY <1>7, <1>8, <1>13, Zenon DEF Joins, a0, b, c

LEMMA OnceInit == Init => Once
  BY DEF Init, Once, NoCall, Unpacking

LEMMA OnceStep == TypeOK /\ Once /\ [Next]_vars => Once'
  <1> SUFFICES ASSUME TypeOK, Once, [Next]_vars, unpacks' # <<>> \/ Unpacking'
               PROVE  taken' = Len(Pieces')
    BY DEF Once
  <1>1. CASE UNCHANGED vars
    BY <1>1 DEF vars, Once, Unpacking, Pieces
  <1> SUFFICES ASSUME Next PROVE taken' = Len(Pieces')
    BY <1>1
  <1>2. Pieces' = Pieces
    BY EntryFixed DEF Pieces
  <1>3. CASE CallUnpack
    BY <1>2, <1>3 DEF CallUnpack
  <1>4. CASE unpacks # <<>> \/ Unpacking
    <2>1. taken = Len(Pieces) /\ Len(Pieces) \in Nat
      BY <1>4, EntryFacts DEF Once, TypeOK
    <2>2. NextPiece \/ EndPiece => taken' = taken
      BY <2>1 DEF NextPiece, EndPiece, Exhausted
    <2>3. ~(NextPiece \/ EndPiece \/ CallUnpack) => taken' = taken
      BY DEF Next, CallRead, CallPax, Start, Poll, Copy, NoPiece, Exhausted, ReadPad,
                  ReadData, Deliver, CopyData, CopyPad, CopyShort, Unpacked, Interrupted
    <2> QED
      BY <1>2, <1>3, <2>1, <2>2, <2>3
  <1>5. CASE ~(unpacks # <<>> \/ Unpacking) /\ ~CallUnpack
    <2>1. call \in CallTypes
      BY DEF TypeOK
    <2>2. unpacks' = unpacks
      BY <1>5 DEF Next, CallRead, CallPax, Start, Poll, Copy, NextPiece, NoPiece,
          Exhausted, ReadPad, ReadData, Deliver, EndPiece, CopyData, CopyPad, CopyShort,
          Unpacked, Interrupted
    <2>3. call' = call \/ call' = NoCall \/ call'.api \in {"read", "pax"}
      <3>1. CASE ReadPad \/ ReadData
        <4>1. \E bytes : Deliver(bytes)
          BY <3>1 DEF ReadPad, ReadData
        <4> QED
          BY <2>1, <4>1 DEF Deliver, CallTypes
      <3> QED
        BY <1>5, <3>1
        DEF Next, CallRead, CallPax, Start, NoCall, Poll, Copy, NextPiece, NoPiece, Exhausted,
            Return, EndPiece, CopyData, CopyPad, CopyShort, Unpacked, Interrupted
    <2> QED
      BY <1>5, <2>2, <2>3 DEF Unpacking, NoCall
  <1> QED
    BY <1>3, <1>4, <1>5

\* Where unpack begins to drain.
LEMMA DrainBegins ==
    ASSUME TypeOK, Placed, Once, Untouched, CallUnpack,
           (call'.fresh /\ Sound) \/ call'.from = 0
    PROVE  Drained'
  <1>1. /\ entry' = entry /\ Pieces' = Pieces /\ off' = off /\ File' = File
        /\ entry \in Entries
    BY DEF CallUnpack, Pieces, File, TypeOK
  <1>2. /\ call'.from = taken /\ call'.next = taken /\ call'.vec = <<>>
        /\ call'.fresh = ~Halfway
    BY DEF CallUnpack, NoCall
  <1>3. /\ taken \in 0 .. Len(Pieces) /\ Len(Pieces) \in Nat
        /\ Draining' = Pieces[taken + 1]
    BY <1>1, <1>2, EntryFacts, Zenon DEF TypeOK, Draining
  <1>4. SubSeq(File, From(taken) + 1, From(taken)) = <<>>
    <2>1. From(taken) \in Nat
      BY <1>1, <1>3, Froms
    <2> QED
      BY <2>1, SubSeqEmpty
  <1>5. ASSUME taken < Len(Pieces)
        PROVE  \/ off = Pieces[taken + 1].at
               \/ /\ off >= entry.cut
                  /\ \A j \in taken + 1 .. Len(Pieces) : Pieces[j].kind = "data"
    <2>0. CASE taken = 0
      <3>1. Pieces[1].at = 0 /\ off = 0
        BY <1>1, <2>0, EntryFacts DEF Contiguous, Untouched
      <3> QED
        BY <2>0, <3>1
    <2> SUFFICES ASSUME ~Halfway, Sound
                 PROVE  \/ off = Pieces[taken + 1].at
                        \/ /\ off >= entry.cut
                           /\ \A j \in taken + 1 .. Len(Pieces) : Pieces[j].kind = "data"
      BY <1>2, <2>0
    <2>1. Undisturbed
      <3>1. unpacks = <<>> /\ ~Unpacking
        BY <1>3, <1>5 DEF Once
      <3> QED
        BY <3>1 DEF Undisturbed, Unpacking
    <2>2. Spent \/ Before \/ Within
      BY <1>3, <1>5, <2>1 DEF Placed, Emptied
    <2>3. CASE Within
      <3>1. /\ read_state # None /\ read_state.left = 0 /\ read_state.i = taken
            /\ taken \in 1 .. Len(Pieces) - 1 /\ taken \in 1 .. Len(Pieces)
            /\ Current = Pieces[taken]
        BY <1>3, <1>5, <2>3, RoomBounds DEF Within, Halfway, Current
      <3>2. Stored(Current) \in Nat /\ Current.at \in Nat
        BY <1>1, <3>1, EntryFacts
      <3>3. off = Current.at + Stored(Current)
        BY <2>3, <3>1, <3>2 DEF Within
      <3>4. Pieces[taken + 1].at = Current.at + Stored(Current)
        BY <1>1, <3>1, EntryFacts DEF Contiguous
      <3> QED
        BY <3>3, <3>4
    <2> QED
      BY <2>2, <2>3 DEF Spent, Before
  <1>6. (From(call.from))' = From(taken) /\ (From(call.next))' = From(taken)
    BY <1>1, <1>2 DEF From
  <1>7. call'.from <= call'.next
    BY <1>2, <1>3
  <1>8. call'.vec = (SubSeq(File, From(call.from) + 1, From(call.next)))'
    BY <1>1, <1>2, <1>4, <1>6
  <1>9. (call.next < Len(Pieces) => off = Draining.at \/ Dry)'
    BY <1>1, <1>2, <1>3, <1>5 DEF Dry
  <1> QED
    BY <1>7, <1>8, <1>9 DEF Drained

\* A piece that is drained.
LEMMA DrainGoesOn ==
    ASSUME TypeOK, Drained, CopyData \/ CopyPad,
           (call'.fresh /\ Sound) \/ call'.from = 0
    PROVE  Drained'
  <1>1. /\ entry' = entry /\ Pieces' = Pieces /\ File' = File /\ entry \in Entries
        /\ call.next < Len(Pieces) /\ Unpacking /\ call \in CallTypes
    <2>1. /\ entry' = entry /\ entry \in Entries /\ call.next < Len(Pieces) /\ Unpacking
          /\ call \in CallTypes
      BY DEF CopyData, CopyPad, TypeOK
    <2> QED
      BY <2>1 DEF Pieces, File
  <1>2. /\ call.from \in Nat /\ call.next \in Nat /\ Len(Pieces) \in Nat
        /\ call.next + 1 \in 1 .. Len(Pieces) /\ call.next \in 0 .. Len(Pieces) - 1
    BY <1>1, EntryFacts DEF CallTypes
  <1>3. /\ Draining = Pieces[call.next + 1]
        /\ Draining.len \in Nat /\ Draining.at \in Nat /\ Draining.kind \in {"pad", "data"}
        /\ off \in Nat /\ entry.cut \in Nat
    BY <1>1, <1>2, EntryFacts DEF Draining, TypeOK
  <1> DEFINE t == IF Draining.kind = "data" THEN FromArchive(Draining.len)
                                            ELSE FromRepeat(Draining.len)
  <1>4. /\ t \in Seq(Nat) /\ Len(t) = Draining.len
        /\ \A j \in 1 .. Draining.len : t[j] = IF Draining.kind = "data" THEN off + j ELSE 0
    BY <1>3, ByteSequences
  <1>5. /\ call' = [call EXCEPT !.vec = @ \o t, !.next = @ + 1]
        /\ off' = off + Stored(Draining)
        /\ Draining.kind = "data" => off + Draining.len <= entry.cut
    <2>1. CASE CopyData
      BY <2>1 DEF CopyData, Append1, Stored
    <2>2. CASE CopyPad
      <3>1. Draining.kind = "pad" /\ off' = off /\ Append1(FromRepeat(Draining.len))
        BY <2>2 DEF CopyPad
      <3> QED
        BY <1>3, <3>1 DEF Append1, Stored
    <2> QED
      BY <2>1, <2>2
  <1> HIDE DEF t
  <1>6. /\ call'.from = call.from /\ call'.next = call.next + 1 /\ call'.vec = call.vec \o t
        /\ call'.fresh = call.fresh
    BY <1>1, <1>5 DEF CallTypes
  <1>7. /\ call.from <= call.next
        /\ call.vec = SubSeq(File, From(call.from) + 1, From(call.next))
        /\ off = Draining.at \/ Dry
    BY <1>1, <1>6 DEF Drained
  <1>8. Dry => Draining.kind = "data" /\ Draining.len = 0
    <2>1. call.next + 1 \in call.next + 1 .. Len(Pieces)
      BY <1>2
    <2>2. Dry => Draining.kind = "data" /\ off >= entry.cut
      BY <1>3, <2>1 DEF Dry
    <2> QED
      BY <1>3, <1>5, <2>2
  <1>9. \A j \in 1 .. Len(t) : t[j] = File[From(call.next) + j]
    <2> SUFFICES ASSUME NEW j \in 1 .. Draining.len
                 PROVE  t[j] = File[From(call.next) + j]
      BY <1>4
    <2>1. off = Draining.at
      BY <1>3, <1>7, <1>8
    <2>2. File[From(call.next) + j] = IF Draining.kind = "pad" THEN 0 ELSE Draining.at + j
      BY <1>1, <1>2, <1>3, PieceBytes
    <2> QED
      BY <1>3, <1>4, <2>1, <2>2
  <1>10. call'.vec = SubSeq(File, From(call.from) + 1, From(call.next + 1))
    BY <1>1, <1>4, <1>6, <1>7, <1>9, DrainMore
  <1>11. ASSUME call.next + 1 < Len(Pieces)
         PROVE  off' = Pieces[(call.next + 1) + 1].at \/ Dry'
    <2>1. CASE Dry
      <3>1. off' = off /\ off >= entry.cut
        BY <1>3, <1>5, <1>8, <2>1 DEF Stored, Dry
      <3>2. \A j \in (call.next + 1) + 1 .. Len(Pieces) : Pieces[j].kind = "data"
        BY <1>2, <2>1 DEF Dry
      <3> QED
        BY <1>1, <1>6, <3>1, <3>2 DEF Dry
    <2>2. CASE off = Draining.at
      <3>1. call.next + 1 \in 1 .. Len(Pieces) - 1
        BY <1>2, <1>11
      <3>2. Pieces[(call.next + 1) + 1].at = Draining.at + Stored(Draining)
        BY <1>1, <1>3, <3>1, EntryFacts DEF Contiguous
      <3> QED
        BY <1>5, <2>2, <3>2
    <2> QED
      BY <1>7, <2>1, <2>2
  <1>12. call'.vec = (SubSeq(File, From(call.from) + 1, From(call.next)))'
    <2>1. (From(call.from))' = From(call.from) /\ (From(call.next))' = From(call.next + 1)
      BY <1>1, <1>6 DEF From
    <2> QED
      BY <1>1, <1>6, <1>10, <2>1
  <1>13. call'.from <= call'.next
    BY <1>2, <1>6, <1>7
  <1>14. (call.next < Len(Pieces) => off = Draining.at \/ Dry)'
    BY <1>1, <1>6, <1>11 DEF Draining
  <1> QED
    BY <1>12, <1>13, <1>14 DEF Drained

LEMMA DrainedInit == Init => Drained
  BY DEF Init, Drained, NoCall, Unpacking

LEMMA DrainedStep ==
    TypeOK /\ Placed /\ Once /\ Untouched /\ Drained /\ [Next]_vars => Drained'
  <1> SUFFICES ASSUME TypeOK, Placed, Once, Untouched, Drained, [Next]_vars PROVE Drained'
    OBVIOUS
  <1>1. CASE UNCHANGED vars
    <2>1. UNCHANGED <<entry, call, off>>
      BY <1>1 DEF vars
    <2>2. Pieces' = Pieces
      BY <2>1 DEF Pieces
    <2>3. File' = File
      BY <2>1, <2>2 DEF File
    <2>4. (From(call.from))' = From(call.from) /\ (From(call.next))' = From(call.next)
      BY <2>1, <2>2 DEF From, SizeOf
    <2> QED
      BY <2>1, <2>2, <2>3, <2>4 DEF Drained, Unpacking, Sound, Draining, Dry
  <1> SUFFICES ASSUME Next, Unpacking', (call'.fresh /\ Sound') \/ call'.from = 0
               PROVE  Drained'
    BY <1>1 DEF Drained
  <1>2. (call'.fresh /\ Sound) \/ call'.from = 0
    BY EntryFixed DEF Sound, Pieces
  <1>3. CASE CallUnpack
    BY <1>2, <1>3, DrainBegins
  <1>4. CASE CopyData \/ CopyPad
    BY <1>2, <1>4, DrainGoesOn
  <1>5. CASE Poll
    <2>1. Reading /\ call \in CallTypes
      BY <1>5 DEF Poll, NextPiece, NoPiece, ReadPad, ReadData, EndPiece, NothingRead, TypeOK
    <2>2. CASE ReadPad \/ ReadData
      <3>1. PICK bytes : Deliver(bytes)
        BY <2>2 DEF ReadPad, ReadData
      <3> QED
        BY <2>1, <3>1 DEF Deliver, CallTypes, Unpacking, NoCall
    <2>3. CASE NextPiece \/ NoPiece \/ EndPiece
      BY <2>1, <2>3
      DEF NextPiece, NoPiece, EndPiece, Exhausted, Return, NoCall, Unpacking, Reading
    <2> QED
      BY <1>5, <2>2, <2>3 DEF Poll
  <1>6. CASE CallPax \/ CopyShort \/ Unpacked \/ Interrupted \/ \E n \in BufSizes : CallRead(n)
    <2>1. CASE CallPax \/ \E n \in BufSizes : CallRead(n)
      <3>1. \E api \in {"read", "pax"} : \E n : Start(api, n)
        BY <2>1 DEF CallPax, CallRead
      <3> QED
        BY <3>1 DEF Start, NoCall, Unpacking
    <2>2. CASE CopyShort \/ Unpacked \/ Interrupted
      <3>1. call' = NoCall
        BY <2>2 DEF CopyShort, Unpacked, Interrupted, Return
      <3> QED
        BY <3>1 DEF NoCall, Unpacking
    <2> QED
      BY <1>6, <2>1, <2>2
  <1> QED
    BY <1>3, <1>4, <1>5, <1>6 DEF Next, Copy

LEMMA UntouchedStep == TypeOK /\ Once /\ Untouched /\ [Next]_vars => Untouched'
  <1> SUFFICES ASSUME TypeOK, Once, Untouched, [Next]_vars, taken' = 0
               PROVE  read_state' = None /\ off' = 0
    BY DEF Untouched
  <1>1. Len(Pieces) \in Nat \ {0} /\ taken \in 0 .. Len(Pieces)
    BY EntryFacts DEF TypeOK
  <1>2. CASE taken' = taken
    <2>1. read_state = None /\ off = 0 /\ unpacks = <<>> /\ ~Unpacking /\ taken # Len(Pieces)
      BY <1>1, <1>2 DEF Untouched, Once
    <2>2. CASE Poll
      <3>1. ~(ReadPad \/ ReadData \/ EndPiece)
        BY <2>1 DEF ReadPad, ReadData, EndPiece, NothingRead
      <3>2. ~(NextPiece \/ NoPiece)
        BY <1>1, <1>2, <2>1 DEF NextPiece, NoPiece, TakePiece
      <3> QED
        BY <2>2, <3>1, <3>2 DEF Poll
    <2>3. CASE Interrupted
      BY <2>1, <2>3 DEF Interrupted
    <2>4. CASE CallPax \/ CallUnpack \/ \E n \in BufSizes : CallRead(n)
      BY <2>1, <2>4 DEF CallPax, CallUnpack, CallRead, Start
    <2>5. ~Copy
      BY <2>1 DEF Copy, CopyData, CopyPad, CopyShort, Unpacked
    <2>6. CASE UNCHANGED vars
      BY <2>1, <2>6 DEF vars
    <2> QED
      BY <2>2, <2>3, <2>4, <2>5, <2>6 DEF Next
  <1>3. CASE taken' = taken + 1
    BY <1>1, <1>3
  <1>4. CASE CallUnpack
    BY <1>1, <1>4 DEF CallUnpack
  <1>5. taken' = taken \/ taken' = taken + 1 \/ CallUnpack
    <2>1. CASE Poll
      BY <2>1 DEF Poll, NextPiece, NoPiece, Exhausted, TakePiece, ReadPad, ReadData, Deliver,
                  EndPiece
    <2>2. CASE Copy \/ Interrupted
      BY <2>2 DEF Copy, CopyData, CopyPad, CopyShort, Unpacked, Interrupted
    <2>3. CASE CallPax \/ \E n \in BufSizes : CallRead(n)
      BY <2>3 DEF CallPax, CallRead, Start
    <2> QED
      BY <2>1, <2>2, <2>3 DEF Next, vars
  <1> QED
    BY <1>2, <1>3, <1>4, <1>5

LEMMA UnpackRestInit == Init => UnpackRest
  BY DEF Init, UnpackRest

LEMMA UnpackRestStep == TypeOK /\ Drained /\ UnpackRest /\ [Next]_vars => UnpackRest'
  <1> SUFFICES ASSUME TypeOK, Drained, UnpackRest, [Next]_vars PROVE UnpackRest'
    OBVIOUS
  <1>1. entry' = entry /\ Pieces' = Pieces /\ entry \in Entries
    BY EntryFixed DEF vars, Pieces, TypeOK
  <1>2. File' = File /\ SizeOf(entry)' = SizeOf(entry) /\ Sound' = Sound
    BY <1>1 DEF File, Sound
  <1>3. /\ unpacks \in Seq(UnpackType) /\ Len(unpacks) \in Nat /\ call \in CallTypes
    BY DEF TypeOK
  <1> DEFINE rest(u) == u.ok /\ ((u.fresh /\ Sound) \/ u.from = 0) =>
                           u.bytes = SubSeq(File, From(u.from) + 1, Len(File))
  <1>4. \A n \in 1 .. Len(unpacks) : rest(unpacks[n])
    BY <1>2 DEF UnpackRest, From
  <1>5. SUFFICES \A n \in 1 .. Len(unpacks') : rest(unpacks'[n])
    <2> HIDE DEF File
    <2> QED
      BY <1>1, <1>2 DEF UnpackRest, From
  <1>6. CASE unpacks' = unpacks
    BY <1>4, <1>6
  <1>7. ASSUME NEW ok \in BOOLEAN, Written(ok), Unpacking, ok => call.next = Len(Pieces)
        PROVE  \A n \in 1 .. Len(unpacks') : rest(unpacks'[n])
    <2> DEFINE u == [ok |-> ok, bytes |-> call.vec, from |-> call.from, fresh |-> call.fresh]
    <2>1. /\ u \in UnpackType /\ u.ok = ok /\ u.fresh = call.fresh
          /\ u.bytes = call.vec /\ u.from = call.from
      BY <1>3 DEF CallTypes, UnpackType
    <2>2. rest(u)
      <3> SUFFICES ASSUME ok, (call.fresh /\ Sound) \/ call.from = 0
                   PROVE  call.vec = SubSeq(File, From(call.from) + 1, Len(File))
        BY <2>1
      <3>1. call.vec = SubSeq(File, From(call.from) + 1, From(Len(Pieces)))
        BY <1>2, <1>7 DEF Drained
      <3>2. From(Len(Pieces)) = Len(File)
        BY <1>1, Froms, FileIs
      <3> QED
        BY <3>1, <3>2
    <2>3. unpacks' = Append(unpacks, u)
      BY <1>7 DEF Written
    <2> HIDE DEF u, rest
    <2>4. /\ Len(unpacks') = Len(unpacks) + 1 /\ unpacks'[Len(unpacks) + 1] = u
          /\ \A n \in 1 .. Len(unpacks) : unpacks'[n] = unpacks[n]
      BY <1>3, <2>1, <2>3
    <2> QED
      BY <1>3, <1>4, <2>2, <2>4
  <1>8. CASE Unpacked
    BY <1>7, <1>8 DEF Unpacked
  <1>9. CASE CopyShort
    BY <1>7, <1>9 DEF CopyShort
  <1>10. CASE Interrupted
    BY <1>6, <1>7, <1>10 DEF Interrupted
  <1> HIDE DEF rest
  <1> QED
    BY <1>6, <1>8, <1>9, <1>10
    DEF Next, vars, CallRead, CallPax, CallUnpack, Start, Poll, Copy, NextPiece, NoPiece,
        Exhausted, ReadPad, ReadData, Deliver, EndPiece, CopyData, CopyPad

\* An unpack that succeeds on an entry of which nothing was read has written the
\* entire contents of the file, wherever the archive ends (entry.rs:193-194, 737-754).
THEOREM UnpackWholeCorrect == Spec => []UnpackWhole
  <1> DEFINE J == IInv /\ Once /\ Untouched /\ Drained /\ UnpackRest
  <1>1. Init => J
    BY IInvInit, OnceInit, DrainedInit, UnpackRestInit DEF Init, Untouched
  <1>2. J /\ [Next]_vars => J'
    <2>1. IInv /\ [Next]_vars => IInv'
      BY TypeStep, CallsStep, PlacedStep, DeliveredStep DEF IInv
    <2>2. J /\ [Next]_vars => Once' /\ Untouched' /\ Drained' /\ UnpackRest'
      BY OnceStep, UntouchedStep, DrainedStep, UnpackRestStep DEF IInv
    <2> QED
      BY <2>1, <2>2
  <1>3. J => UnpackWhole
    <2> SUFFICES ASSUME J, NEW n \in 1 .. Len(unpacks), unpacks[n].ok, unpacks[n].from = 0
                 PROVE  unpacks[n].bytes = File
      BY DEF UnpackWhole
    <2>1. unpacks[n].bytes = SubSeq(File, From(0) + 1, Len(File))
      BY DEF UnpackRest
    <2>2. From(0) = 0
      <3>1. Len(Pieces) \in Nat \ {0} /\ Pieces[1].start = 0
        BY EntryFacts DEF IInv, TypeOK, Contiguous
      <3> QED
        BY <3>1 DEF From
    <2>3. SubSeq(File, 1, Len(File)) = File
      BY AllOfFile DEF IInv
    <2> HIDE DEF File
    <2> QED
      BY <2>1, <2>2, <2>3
  <1> QED
    BY <1>1, <1>2, <1>3, PTL DEF Spec
=============================================================================
