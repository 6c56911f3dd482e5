-------------------------- MODULE RoundTripProofs --------------------------
(***************************************************************************)
(* Proofs about Builder, and about RoundTrip, which reads back what it has *)
(* written.  First Builder alone: its types, and that as long as no call   *)
(* fails every call starts on the boundary of a block.  Then the two       *)
(* together: what was appended before the first failure is read back.      *)
(***************************************************************************)
EXTENDS RoundTrip, FiniteSetTheorems, TLAPS
-----------------------------------------------------------------------------
(***************************************************************************)
(* Builder: types, and where calls and headers start                       *)
(***************************************************************************)

(***************************************************************************)
(* Multiples of the block size                                             *)
(***************************************************************************)

\* Division with remainder.
LEMMA Division ==
    ASSUME NEW B \in Nat \ {0}, NEW n \in Int
    PROVE  /\ n = B * (n \div B) + (n % B)
           /\ n % B \in 0 .. B - 1
           /\ n \div B \in Int
  OBVIOUS

\* A multiple of B leaves no remainder.
LEMMA Multiple ==
    ASSUME NEW B \in Nat \ {0}, NEW q \in Int, NEW n \in Int, n = B * q
    PROVE  n % B = 0
  <1> DEFINE d == q - (n \div B)
  <1>1. /\ n = B * (n \div B) + (n % B)
        /\ n % B \in 0 .. B - 1
        /\ n \div B \in Int
    BY Division
  <1>2. d \in Int /\ B * d = n % B
    BY <1>1
  <1> HIDE DEF d
  <1>3. B * d < B /\ B * d >= 0
    BY <1>1, <1>2
  <1>4. d = 0
    <2>1. CASE d >= 1
      <3>1. B * d >= B
        BY <2>1, <1>2
      <3> QED
        BY <3>1, <1>3, <1>2
    <2>2. CASE d <= -1
      <3>1. B * d <= -B
        BY <2>2, <1>2
      <3> QED
        BY <3>1, <1>3, <1>2
    <2> QED
      BY <2>1, <2>2, <1>2
  <1> QED
    BY <1>2, <1>4

\* Sums of multiples are multiples.
LEMMA SumOfMultiples ==
    ASSUME NEW B \in Nat \ {0}, NEW a \in Int, NEW b \in Int,
           a % B = 0, b % B = 0
    PROVE  (a + b) % B = 0
  <1>1. /\ a = B * (a \div B) /\ a \div B \in Int
        /\ b = B * (b \div B) /\ b \div B \in Int
    BY Division
  <1>2. PICK q \in Int : a + b = B * q
    <2>1. a + b = B * (a \div B + b \div B)
      BY <1>1
    <2>2. a \div B + b \div B \in Int
      BY <1>1
    <2> QED
      BY <2>1, <2>2, Zenon
  <1>3. \A n \in Int : n = B * q => n % B = 0
    BY Multiple
  <1>4. a + b \in Int
    OBVIOUS
  <1> QED
    BY <1>2, <1>3, <1>4

\* Padding reaches the next multiple of the block size.
LEMMA PaddingFits ==
    ASSUME NEW n \in Nat
    PROVE  Padding(n) \in 0 .. Block - 1 /\ (n + Padding(n)) % Block = 0
  <1> USE BlockAssumption
  <1> DEFINE p == Padding(n)
  <1>1. /\ n = Block * (n \div Block) + (n % Block)
        /\ n % Block \in 0 .. Block - 1
        /\ n \div Block \in Int
    BY Division
  <1>2. p \in 0 .. Block - 1
    BY <1>1 DEF Padding
  <1>3. \A q, m \in Int : m = Block * q => m % Block = 0
    BY Multiple
  <1>4. CASE n % Block = 0
    BY <1>4 DEF Padding
  <1>5. CASE n % Block # 0
    <2> DEFINE q == (n \div Block) + 1
    <2>1. n + p = Block * q /\ q \in Int
      BY <1>1, <1>5 DEF Padding
    <2>2. n + p \in Int
      BY <1>2
    <2> HIDE DEF p, q
    <2>3. (n + p) % Block = 0
      BY <2>1, <2>2, <1>3, Zenon
    <2> QED
      BY <2>3, <1>2 DEF p
  <1> QED
    BY <1>4, <1>5

(***************************************************************************)
(* Pieces of an archive: whole blocks, with headers on the grid            *)
(***************************************************************************)

TagType == {Blank} \cup [tag : {"text"}, name : NameType]
                   \cup [tag : {"data"}, call : Nat] \cup HeadType

Piece(bytes) ==
    /\ bytes \in Seq(ByteType)
    /\ Len(bytes) % Block = 0
    /\ OnGrid(bytes)

\* Bytes without a header among them.
Plain(bytes) ==
    /\ bytes \in Seq(ByteType)
    /\ \A i \in DOMAIN bytes : bytes[i].of.tag # "head"

\* The bytes of a tag are counted from 1.
LEMMA BytesOf ==
    ASSUME NEW what \in TagType, NEW n \in Nat
    PROVE  /\ Bytes(what, n) \in Seq(ByteType)
           /\ Len(Bytes(what, n)) = n
           /\ \A i \in 1 .. n : Bytes(what, n)[i] = [of |-> what, at |-> i]
  <1>1. \A i \in 1 .. n : [of |-> what, at |-> i] \in ByteType
    BY DEF TagType, ByteType
  <1> QED
    BY <1>1 DEF Bytes

\* Text, data and zeros are plain.
LEMMA PlainBytes ==
    ASSUME NEW what \in TagType, what.tag # "head", NEW n \in Nat
    PROVE  Plain(Bytes(what, n)) /\ Len(Bytes(what, n)) = n
  <1>1. /\ Bytes(what, n) \in Seq(ByteType) /\ Len(Bytes(what, n)) = n
        /\ \A i \in 1 .. n : Bytes(what, n)[i] = [of |-> what, at |-> i]
    BY BytesOf
  <1>2. \A i \in 1 .. n : Bytes(what, n)[i].of.tag # "head"
    BY <1>1
  <1>3. DOMAIN Bytes(what, n) = 1 .. n
    BY DEF Bytes
  <1> QED
    BY <1>1, <1>2, <1>3 DEF Plain

LEMMA PlainZeros ==
    ASSUME NEW n \in Nat
    PROVE  Plain(Zeros(n)) /\ Len(Zeros(n)) = n
  <1>1. [of |-> Blank, at |-> 0] \in ByteType
    BY DEF ByteType
  <1>2. Blank.tag # "head"
    BY DEF Blank
  <1>3. Zeros(n) \in Seq(ByteType) /\ Len(Zeros(n)) = n
    BY <1>1 DEF Zeros
  <1>4. \A i \in DOMAIN Zeros(n) : Zeros(n)[i].of = Blank
    BY DEF Zeros
  <1> QED
    BY <1>2, <1>3, <1>4 DEF Plain

\* Plain bytes that fill their blocks are a piece.
LEMMA PlainPiece ==
    ASSUME NEW s, Plain(s), Len(s) % Block = 0
    PROVE  Piece(s)
  BY DEF Plain, Piece, OnGrid

LEMMA PlainJoin ==
    ASSUME NEW s, NEW t, Plain(s), Plain(t)
    PROVE  Plain(s \o t) /\ Len(s \o t) = Len(s) + Len(t)
  <1>1. s \in Seq(ByteType) /\ t \in Seq(ByteType)
    BY DEF Plain
  <1>2. s \o t \in Seq(ByteType) /\ Len(s \o t) = Len(s) + Len(t)
    BY <1>1
  <1>3. ASSUME NEW i \in DOMAIN (s \o t)
        PROVE  (s \o t)[i].of.tag # "head"
    <2>1. CASE i <= Len(s)
      BY <1>1, <1>2, <2>1 DEF Plain
    <2>2. CASE i > Len(s)
      BY <1>1, <1>2, <2>2 DEF Plain
    <2> QED
      BY <1>1, <1>2, <2>1, <2>2
  <1> QED
    BY <1>2, <1>3 DEF Plain

\* A header is a piece.
LEMMA HeaderPiece ==
    ASSUME NEW header \in HeadType
    PROVE  Piece(Bytes(header, Block)) /\ Len(Bytes(header, Block)) = Block
  <1> USE BlockAssumption
  <1>1. /\ Bytes(header, Block) \in Seq(ByteType)
        /\ Len(Bytes(header, Block)) = Block
        /\ \A i \in 1 .. Block : Bytes(header, Block)[i].at = i
    <2>1. header \in TagType /\ Block \in Nat
      BY DEF TagType
    <2>2. \A i \in 1 .. Block : Bytes(header, Block)[i] = [of |-> header, at |-> i]
      BY <2>1, BytesOf
    <2>3. Bytes(header, Block) \in Seq(ByteType) /\ Len(Bytes(header, Block)) = Block
      BY <2>1, BytesOf
    <2> QED
      BY <2>2, <2>3
  <1>2. Block % Block = 0
    <2>1. Block = Block * 1 /\ 1 \in Int /\ Block \in Int
      OBVIOUS
    <2> QED
      BY <2>1, Multiple
  <1>3. 0 % Block = 0
    <2>1. 0 = Block * 0 /\ 0 \in Int
      OBVIOUS
    <2> QED
      BY <2>1, Multiple
  <1>4. DOMAIN Bytes(header, Block) = 1 .. Block
    BY DEF Bytes
  <1>5. OnGrid(Bytes(header, Block))
    <2>1. \A i \in 1 .. Block : i - Bytes(header, Block)[i].at = 0
      BY <1>1
    <2> QED
      BY <1>1, <1>3, <1>4, <2>1 DEF OnGrid
  <1> QED
    BY <1>1, <1>2, <1>5 DEF Piece

\* Pieces one after the other are a piece.
LEMMA PieceJoin ==
    ASSUME NEW s, NEW t, Piece(s), Piece(t)
    PROVE  Piece(s \o t)
  <1> USE BlockAssumption
  <1>1. s \in Seq(ByteType) /\ t \in Seq(ByteType)
    BY DEF Piece
  <1>2. s \o t \in Seq(ByteType) /\ Len(s \o t) = Len(s) + Len(t)
    BY <1>1
  <1>3. Len(s \o t) % Block = 0
    <2>1. \A a, b \in Int : a % Block = 0 /\ b % Block = 0 => (a + b) % Block = 0
      BY SumOfMultiples
    <2>2. /\ Len(s) \in Int /\ Len(s) % Block = 0
          /\ Len(t) \in Int /\ Len(t) % Block = 0
      BY <1>1 DEF Piece
    <2>3. (Len(s) + Len(t)) % Block = 0
      BY <2>1, <2>2, Zenon
    <2> QED
      BY <1>2, <2>3
  <1>4. ASSUME NEW i \in DOMAIN (s \o t), (s \o t)[i].of.tag = "head"
        PROVE  /\ (i - (s \o t)[i].at) % Block = 0
               /\ (s \o t)[i].at \in 1 .. Block
    <2>1. CASE i <= Len(s)
      <3>1. i \in DOMAIN s /\ (s \o t)[i] = s[i]
        BY <1>1, <1>2, <2>1
      <3> QED
        BY <3>1, <1>4 DEF Piece, OnGrid
    <2>2. CASE i > Len(s)
      <3> DEFINE k == i - Len(s)
      <3>1. k \in DOMAIN t /\ (s \o t)[i] = t[k] /\ k \in Int /\ i = k + Len(s)
        BY <1>1, <1>2, <2>2
      <3> HIDE DEF k
      <3>2. (k - t[k].at) % Block = 0 /\ t[k].at \in 1 .. Block
        BY <3>1, <1>4 DEF Piece, OnGrid
      <3>3. k - t[k].at \in Int /\ Len(s) \in Int
        BY <3>1, <3>2, <1>1
      <3>4. (Len(s) + (k - t[k].at)) % Block = 0
        BY <3>2, <3>3, SumOfMultiples DEF Piece
      <3>5. Len(s) + (k - t[k].at) = i - t[k].at
        BY <3>1, <3>2, <3>3
      <3> QED
        BY <3>1, <3>2, <3>4, <3>5
    <2> QED
      BY <1>1, <1>2, <2>1, <2>2
  <1> QED
    BY <1>2, <1>3, <1>4 DEF Piece, OnGrid

\* append() writes a piece: its header and its data, padded.
LEMMA AppendedPiece ==
    ASSUME NEW header \in HeadType, NEW data, Plain(data)
    PROVE  Piece(Appended(header, data))
  <1> DEFINE pad == Zeros(Padding(Len(data)))
  <1>1. data \in Seq(ByteType) /\ Len(data) \in Nat
    BY DEF Plain
  <1>2. Padding(Len(data)) \in Nat /\ (Len(data) + Padding(Len(data))) % Block = 0
    BY <1>1, PaddingFits, BlockAssumption
  <1>3. Plain(pad) /\ Len(pad) = Padding(Len(data))
    BY <1>2, PlainZeros
  <1>4. Plain(data \o pad) /\ Len(data \o pad) % Block = 0
    BY <1>2, <1>3, PlainJoin
  <1>5. Piece(data \o pad)
    BY <1>4, PlainPiece
  <1>6. Piece(Bytes(header, Block) \o (data \o pad))
    BY <1>5, HeaderPiece, PieceJoin
  <1>7. Appended(header, data) = Bytes(header, Block) \o (data \o pad)
    BY <1>1, <1>3, HeaderPiece DEF Appended, Plain, Piece
  <1> QED
    BY <1>6, <1>7

(***************************************************************************)
(* What the calls write                                                    *)
(***************************************************************************)

LEMMA HeaderType ==
    ASSUME NEW kind \in Kinds, NEW size \in Nat, NEW name \in NameType,
           NEW link \in NameType \cup {None}
    PROVE  HeaderOf(kind, size, name, link) \in HeadType
  <1>1. <<>> \in Seq(SparseDesc \cup {None})
    OBVIOUS
  <1>2. [zero |-> FALSE, cksum |-> TRUE, magic |-> "gnu", kind |-> kind,
         size |-> size, pax |-> None, sparse |-> <<>>, ext |-> FALSE,
         real |-> None] \in BlockType
    BY <1>1 DEF BlockType, Magics
  <1> QED
    BY <1>2 DEF HeaderOf, HeadType

LEMMA LongMemberPiece ==
    ASSUME NEW kind \in Kinds, NEW name \in NameType
    PROVE  Piece(LongMember(kind, name))
  <1>1. name.len \in Nat
    BY DEF NameType
  <1>2. HeaderOf(kind, name.len + 1, name, None) \in HeadType
    BY <1>1, HeaderType
  <1>3. TextOf(name) \in TagType /\ TextOf(name).tag # "head"
    BY DEF TextOf, TagType
  <1>4. Plain(Bytes(TextOf(name), name.len)) /\ Plain(Zeros(1))
    BY <1>1, <1>3, PlainBytes, PlainZeros
  <1> QED
    BY <1>2, <1>4, PlainJoin, AppendedPiece DEF LongMember

\* The names of a request are names, and so is what is left of them.
LEMMA NamesOf ==
    ASSUME NEW r \in Requests
    PROVE  /\ ArName(r) \in NameType /\ StoredName(ArName(r)) \in NameType
           /\ StoredLink(r.link) \in NameType \cup {None}
           /\ r.link \in NameType \cup {None}
           /\ r.size \in Nat /\ r.lens \in SUBSET Nat
           /\ r.api \in {"append", "data", "link", "file", "special"}
  <1>1. r \in RequestType /\ Names \subseteq NameType /\ NameMax \in Nat
    BY BuilderAssumption
  <1>2. ArName(r) \in NameType
    BY <1>1 DEF RequestType, ArName
  <1>3. \A name \in NameType : CutName(name) \in NameType
    BY DEF CutName, NameType
  <1>4. \A name \in NameType : StoredName(name) \in NameType
    BY <1>3 DEF StoredName
  <1>5. r.link \in NameType \cup {None}
    BY <1>1 DEF RequestType
  <1>6. StoredLink(r.link) \in NameType \cup {None}
    BY <1>4, <1>5 DEF StoredLink
  <1> QED
    BY <1>1, <1>2, <1>4, <1>5, <1>6 DEF RequestType

LEMMA HeaderOfRequest ==
    ASSUME req \in Requests
    PROVE  Header \in HeadType
  BY NamesOf, HeaderType DEF Header, Kinds

LEMMA MemberPiece ==
    ASSUME req \in Requests, NEW k \in Nat, NEW n \in Nat
    PROVE  Piece(Appended(Header, Bytes(DataOf(k), n)))
  <1>1. DataOf(k) \in TagType /\ DataOf(k).tag # "head"
    BY DEF DataOf, TagType
  <1>2. Plain(Bytes(DataOf(k), n))
    BY <1>1, PlainBytes
  <1> QED
    BY <1>2, HeaderOfRequest, AppendedPiece

\* The two blocks of zeros that end an archive.
LEMMA EndPiece == Piece(Zeros(2 * Block))
  <1>1. 2 * Block \in Nat /\ 2 * Block = Block * 2
    BY BlockAssumption
  <1>2. (2 * Block) % Block = 0
    BY <1>1, Multiple, BlockAssumption
  <1> QED
    BY <1>1, <1>2, PlainZeros, PlainPiece

LEMMA NothingPiece == Piece(<<>>)
  <1>1. 0 = Block * 0 /\ 0 \in Int
    BY BlockAssumption
  <1>2. 0 % Block = 0
    BY <1>1, Multiple, BlockAssumption
  <1> QED
    BY <1>2 DEF Piece, OnGrid

(***************************************************************************)
(* The inductive invariant                                                 *)
(***************************************************************************)

\* What is written, with what is about to be, is whole blocks.
WholeBlocks ==
    /\ stage = "idle" => todo = <<>>
    /\ Clean => Piece(obj \o todo)

IInv == TypeOK /\ WholeBlocks

LEMMA InitIInv == Init => IInv
  <1> SUFFICES ASSUME Init PROVE IInv
    OBVIOUS
  <1>1. TypeOK
    <2>1. HasRequest /\ stage \in Stages /\ req \in CallType
      BY DEF Init, HasRequest, CallType, Stages
    <2>2. obj \in Seq(ByteType) /\ todo \in Seq(ByteType)
      BY DEF Init
    <2>3. log \in Seq([req : CallType, ok : BOOLEAN, sent : Nat])
      BY DEF Init
    <2>4. finished \in BOOLEAN
      BY DEF Init
    <2> QED
      BY <2>1, <2>2, <2>3, <2>4 DEF Init, TypeOK
  <1>2. obj \o todo = <<>>
    BY DEF Init
  <1>3. WholeBlocks
    BY <1>2, NothingPiece DEF WholeBlocks, Init
  <1> QED
    BY <1>1, <1>3 DEF IInv

\* A stage that has nothing left to write hands over its next bytes.
LEMMA NextBytes ==
    ASSUME IInv, todo = <<>>, UNCHANGED <<obj, log>>, Piece(todo'), stage' # "idle"
    PROVE  WholeBlocks'
  <1>1. obj \in Seq(ByteType)
    BY DEF IInv, TypeOK
  <1>2. obj \o todo = obj
    BY <1>1
  <1>3. Clean' => Piece(obj)
    BY <1>2 DEF IInv, WholeBlocks, Clean
  <1>4. Clean' => Piece((obj \o todo)')
    BY <1>3, PieceJoin
  <1> QED
    BY <1>4 DEF WholeBlocks

\* A call that fails ends the claim, and leaves nothing to be written.
LEMMA FailedCall ==
    ASSUME IInv, End(FALSE)
    PROVE  WholeBlocks'
  <1> DEFINE last == [req |-> req, ok |-> FALSE, sent |-> sent]
  <1>1. log' = Append(log, last) /\ log \in Seq([req : CallType, ok : BOOLEAN, sent : Nat])
    BY DEF IInv, TypeOK, End
  <1>2. Len(log) + 1 \in DOMAIN log' /\ log'[Len(log) + 1] = last
    BY <1>1
  <1>3. ~Clean'
    BY <1>2 DEF Clean
  <1> QED
    BY <1>3 DEF WholeBlocks, End

\* The types after the end of a call.
LEMMA EndTypes ==
    ASSUME IInv, NEW ok \in BOOLEAN, End(ok), obj' \in Seq(ByteType)
    PROVE  TypeOK'
  <1>1. [req |-> req, ok |-> ok, sent |-> sent] \in [req : CallType, ok : BOOLEAN, sent : Nat]
    BY DEF IInv, TypeOK
  <1>2. log' \in Seq([req : CallType, ok : BOOLEAN, sent : Nat])
    BY <1>1 DEF IInv, TypeOK, End
  <1>3. holder' \in {"builder", "caller", "nobody"}
    BY DEF IInv, TypeOK, End
  <1> QED
    BY <1>2, <1>3 DEF IInv, TypeOK, End, HasRequest, Stages

\* A stage that goes on to the next one of its call.
LEMMA ProceedStep ==
    ASSUME IInv, todo = <<>>, NEW s \in Stages \ {"idle"}, NEW bytes, Piece(bytes),
           Proceed(s, bytes), req \in Requests
    PROVE  IInv'
  <1>1. WholeBlocks'
    BY NextBytes DEF Proceed
  <1>2. TypeOK'
    BY DEF IInv, TypeOK, HasRequest, Proceed, Piece
  <1> QED
    BY <1>1, <1>2 DEF IInv

\* A stage that refuses the name it was given.
LEMMA RefusedStep ==
    ASSUME IInv, End(FALSE), UNCHANGED obj
    PROVE  IInv'
  <1>1. obj' \in Seq(ByteType)
    BY DEF IInv, TypeOK
  <1> QED
    BY <1>1, FailedCall, EndTypes DEF IInv

\* The bytes that end the archive.
LEMMA EndStep ==
    ASSUME IInv, Idle, NEW r \in {Finish, IntoInner}, WriteEnd(r)
    PROVE  IInv'
  <1>1. todo = <<>>
    BY DEF IInv, WholeBlocks, Idle
  <1>2. Piece(todo') /\ stage' # "idle"
    BY EndPiece DEF WriteEnd
  <1>3. WholeBlocks'
    BY <1>1, <1>2, NextBytes DEF WriteEnd
  <1>4. TypeOK'
    BY <1>2 DEF IInv, TypeOK, HasRequest, WriteEnd, Piece, CallType, Stages
  <1> QED
    BY <1>3, <1>4 DEF IInv

LEMMA NextIInv == IInv /\ [Next]_vars => IInv'
  <1> SUFFICES ASSUME IInv, [Next]_vars PROVE IInv'
    OBVIOUS
  <1> DEFINE Refuse == End(FALSE) /\ UNCHANGED obj
  <1>1. ASSUME NEW r \in Requests, CallAppend(r)
        PROVE  IInv'
    <2>1. stage' \in {"path", "member"} /\ UNCHANGED <<obj, todo, log>> /\ req' = r
      BY <1>1 DEF CallAppend
    <2>2. todo = <<>>
      BY <1>1 DEF CallAppend, Idle, IInv, WholeBlocks
    <2>3. TypeOK'
      BY <1>1, <2>1 DEF CallAppend, IInv, TypeOK, HasRequest, CallType, Stages
    <2>4. WholeBlocks'
      BY <2>1, <2>2, NothingPiece, NextBytes
    <2> QED
      BY <2>3, <2>4 DEF IInv
  <1>2. CASE UNCHANGED vars
    BY <1>2 DEF vars, IInv, TypeOK, HasRequest, WholeBlocks, Clean
  <1>3. CASE CallFinish
    BY <1>2, <1>3, EndStep DEF CallFinish
  <1>4. CASE CallIntoInner
    <2>1. CASE WriteEnd(IntoInner)
      BY <1>4, <2>1, EndStep DEF CallIntoInner
    <2>2. CASE /\ holder' = "caller"
               /\ UNCHANGED <<obj, finished, stage, req, todo, sent, log>>
      BY <2>2 DEF IInv, TypeOK, HasRequest, WholeBlocks, Clean
    <2> QED
      BY <1>4, <2>1, <2>2 DEF CallIntoInner
  <1>5. CASE PreparePath
    <2>1. req \in Requests /\ todo = <<>>
      BY <1>5 DEF PreparePath, At, IInv, TypeOK, HasRequest
    <2>2. Piece(LongMember("longname", ArName(req)))
      BY <2>1, NamesOf, LongMemberPiece DEF Kinds
    <2>3. CASE Refuse
      BY <2>3, RefusedStep
    <2>4. CASE Proceed("link", <<>>)
      BY <2>1, <2>4, ProceedStep, NothingPiece DEF Stages
    <2>5. CASE Proceed("cut", LongMember("longname", ArName(req)))
      BY <2>1, <2>2, <2>5, ProceedStep DEF Stages
    <2> QED
      BY <1>5, <2>3, <2>4, <2>5 DEF PreparePath
  <1>6. CASE CutPath
    <2>1. req \in Requests /\ todo = <<>>
      BY <1>6 DEF CutPath, At, IInv, TypeOK, HasRequest
    <2>2. CASE Refuse
      BY <2>2, RefusedStep
    <2>3. CASE Proceed("link", <<>>)
      BY <2>1, <2>3, ProceedStep, NothingPiece DEF Stages
    <2> QED
      BY <1>6, <2>2, <2>3 DEF CutPath
  <1>7. CASE PrepareLink
    <2>1. req \in Requests /\ todo = <<>>
      BY <1>7 DEF PrepareLink, At, IInv, TypeOK, HasRequest
    <2>2. CASE Refuse
      BY <2>2, RefusedStep
    <2>3. CASE Proceed("member", <<>>)
      BY <2>1, <2>3, ProceedStep, NothingPiece DEF Stages
    <2>4. CASE req.link # None /\ Proceed("member", LongMember("longlink", req.link))
      <3>1. req.link \in NameType
        BY <2>1, <2>4, NamesOf
      <3>2. Piece(LongMember("longlink", req.link))
        BY <3>1, LongMemberPiece DEF Kinds
      <3> QED
        BY <2>1, <2>4, <3>2, ProceedStep DEF Stages
    <2> QED
      BY <1>7, <2>2, <2>3, <2>4 DEF PrepareLink
  <1>8. CASE WriteMember
    <2>1. req \in Requests /\ todo = <<>>
      BY <1>8 DEF WriteMember, At, IInv, TypeOK, HasRequest
    <2>2. PICK n \in Nat : /\ todo' = Appended(Header, Bytes(DataOf(Len(log) + 1), n))
                           /\ sent' = n
      BY <1>8, <2>1, NamesOf DEF WriteMember
    <2>3. Len(log) + 1 \in Nat
      BY DEF IInv, TypeOK
    <2>4. Piece(todo')
      BY <2>1, <2>2, <2>3, MemberPiece
    <2>5. stage' = "written" /\ UNCHANGED <<obj, finished, req, holder, log>>
      BY <1>8 DEF WriteMember
    <2>6. WholeBlocks'
      BY <2>1, <2>4, <2>5, NextBytes
    <2>7. TypeOK'
      BY <2>2, <2>4, <2>5 DEF IInv, TypeOK, HasRequest, Piece, Stages
    <2> QED
      BY <2>6, <2>7 DEF IInv
  <1>9. CASE WriteSpecial
    <2>1. req \in Requests /\ todo = <<>>
      BY <1>9 DEF WriteSpecial, At, IInv, TypeOK, HasRequest
    <2>2. Piece(Bytes(Header, Block))
      BY <2>1, HeaderOfRequest, HeaderPiece
    <2> QED
      BY <1>9, <2>1, <2>2, ProceedStep DEF WriteSpecial, Stages
  <1>10. CASE Write
    <2>1. obj \in Seq(ByteType) /\ todo \in Seq(ByteType)
      BY DEF IInv, TypeOK
    <2>2. obj' = obj \o todo /\ todo' = <<>> /\ obj' \in Seq(ByteType)
      BY <1>10, <2>1 DEF Write
    <2>3. (obj \o todo)' = obj \o todo
      BY <2>1, <2>2
    <2>4. WholeBlocks'
      BY <1>10, <2>2, <2>3 DEF IInv, WholeBlocks, Write, Clean
    <2>5. TypeOK'
      BY <1>10, <2>2 DEF IInv, TypeOK, HasRequest, Write
    <2> QED
      BY <2>4, <2>5 DEF IInv
  <1>11. CASE Interrupted
    <2>1. obj \in Seq(ByteType) /\ todo \in Seq(ByteType)
      BY DEF IInv, TypeOK
    <2>2. obj' \in Seq(ByteType)
      BY <1>11, <2>1 DEF Interrupted
    <2>3. End(FALSE)
      BY <1>11 DEF Interrupted
    <2> QED
      BY <2>2, <2>3, FailedCall, EndTypes DEF IInv
  <1>12. CASE Return
    <2>1. End(TRUE) /\ UNCHANGED obj /\ todo = <<>> /\ todo' = <<>>
      BY <1>12 DEF Return, At, End
    <2>2. TypeOK'
      BY <2>1, EndTypes DEF IInv, TypeOK
    <2>3. Clean' => Clean
      <3> DEFINE last == [req |-> req, ok |-> TRUE, sent |-> sent]
      <3>1. log \in Seq([req : CallType, ok : BOOLEAN, sent : Nat]) /\ log' = Append(log, last)
        BY <2>1 DEF End, IInv, TypeOK
      <3>2. \A i \in DOMAIN log : i \in DOMAIN log' /\ log'[i] = log[i]
        BY <3>1
      <3> QED
        BY <3>2 DEF Clean
    <2>4. (obj \o todo)' = obj \o todo
      BY <2>1
    <2>5. WholeBlocks'
      BY <2>1, <2>3, <2>4 DEF IInv, WholeBlocks
    <2> QED
      BY <2>2, <2>5 DEF IInv
  <1> QED
    BY <1>1, <1>2, <1>3, <1>4, <1>5, <1>6, <1>7, <1>8, <1>9, <1>10, <1>11, <1>12
       DEF Next

LEMMA Invariant == Spec => []IInv
  BY InitIInv, NextIInv, PTL DEF Spec

\* The types of the builder, its log, and the bytes it writes.
THEOREM TypeCorrect == Spec => []TypeOK
  <1>1. IInv => TypeOK
    BY DEF IInv
  <1> QED
    BY <1>1, Invariant, PTL

\* As long as no call has failed the archive is made of whole blocks between
\* calls, and what a call is about to write completes them (builder.rs:463-473).
THEOREM AlignedCorrect == Spec => []Aligned
  <1>1. IInv => Aligned
    <2> SUFFICES ASSUME IInv PROVE Aligned
      OBVIOUS
    <2>1. obj \in Seq(ByteType) /\ todo \in Seq(ByteType)
      BY DEF IInv, TypeOK
    <2>2. Len(obj \o todo) = Len(obj) + Len(todo)
      BY <2>1
    <2> QED
      BY <2>2 DEF IInv, WholeBlocks, Piece, Aligned
  <1> QED
    BY <1>1, Invariant, PTL

\* As long as no call has failed every header fills a block of the archive,
\* whatever the data that came before it turned out to be.
THEOREM HeadersOnGridCorrect == Spec => []HeadersOnGrid
  <1>1. IInv => HeadersOnGrid
    BY DEF IInv, WholeBlocks, Piece, HeadersOnGrid
  <1> QED
    BY <1>1, Invariant, PTL
-----------------------------------------------------------------------------
(***************************************************************************)
(* RoundTrip: what was appended is read back                               *)
(***************************************************************************)

USE BlockAssumption, NoneAssumption

(***************************************************************************)
(* What a caller is assumed to ask for.  A header handed to append() is    *)
(* finished: its names are in it.  A special file is archived under its    *)
(* path, whatever name it is given (builder.rs:525).                       *)
(***************************************************************************)
AsNamed ==
    \A r \in Requests :
        /\ r.api = "append" => r.name.fits /\ (r.link = None \/ r.link.fits)
        /\ r.api = "special" => r.path = r.name

-----------------------------------------------------------------------------
(***************************************************************************)
(* Where calls stand in the archive                                        *)
(***************************************************************************)

\* s stands in w behind its first `from` bytes.
Stands(w, from, s) ==
    /\ from + Len(s) <= Len(w)
    /\ \A j \in 1 .. Len(s) : w[from + j] = s[j]

\* A member takes a block and its padded data.
Span(n) == Block + RoundUp(n)

LongHead(kind, name) == HeaderOf(kind, name.len + 1, name, None)
LongText(name) == Bytes(TextOf(name), name.len) \o Zeros(1)

LongAt(w, kind, name, from, to) ==
    /\ Stands(w, from, Bytes(LongHead(kind, name), Block))
    /\ Stands(w, from + Block, LongText(name))
    /\ to = from + Span(name.len + 1) /\ to <= Len(w)

\* The member for the name, the member for the link, if they are needed, ...
PathAt(w, r, from, to) ==
    \/ ArName(r).fits /\ to = from
    \/ ~ArName(r).fits /\ LongAt(w, "longname", ArName(r), from, to)

LinkAt(w, r, from, to) ==
    \/ (r.link = None \/ r.link.fits) /\ to = from
    \/ r.link # None /\ ~r.link.fits /\ LongAt(w, "longlink", r.link, from, to)

HeadFor(r) == HeaderOf("file", r.size, StoredName(ArName(r)), StoredLink(r.link))

\* ... and the member itself, of call i.
MemberAt(w, r, i, from, to) ==
    /\ Stands(w, from, Bytes(HeadFor(r), Block))
    /\ Stands(w, from + Block, Bytes(DataOf(i), r.size))
    /\ to = from + Span(r.size) /\ to <= Len(w)

AppendAt(w, r, i, from, to) ==
    \E x, y \in Nat : PathAt(w, r, from, x) /\ LinkAt(w, r, x, y) /\ MemberAt(w, r, i, y, to)

EndAt(w, from, to) ==
    /\ to = from + 2 * Block /\ to <= Len(w)
    /\ \A j \in 1 .. 2 * Block : w[from + j].of = Blank

CallAt(w, r, i, from, to) ==
    \/ r \in {Finish, IntoInner} /\ EndAt(w, from, to)
    \/ r \in Requests /\ AppendAt(w, r, i, from, to)

-----------------------------------------------------------------------------
(***************************************************************************)
(* The invariant of the builder                                            *)
(***************************************************************************)

\* Call i stands between P[i - 1] and P[i], for the first k calls.
Layout(P, k) ==
    /\ P \in [0 .. k -> Nat] /\ P[0] = 0 /\ P[k] <= Len(obj)
    /\ \A i \in 1 .. k :
        Honest(i) /\ CallAt(obj, log[i].req, i, P[i - 1], P[i])

\* How far the call in progress, which began at s, has come.
Current(s) ==
    LET w == obj \o todo
    IN  /\ stage \in {"idle", "path"} => todo = <<>> /\ Len(obj) = s
        /\ stage = "cut" =>
            ~ArName(req).fits /\ LongAt(w, "longname", ArName(req), s, Len(w))
        /\ stage = "link" => PathAt(w, req, s, Len(w))
        /\ stage = "member" =>
            \E x \in Nat : PathAt(w, req, s, x) /\ LinkAt(w, req, x, Len(w))
        /\ stage = "written" /\ (req \in {Finish, IntoInner} \/ sent = req.size) =>
                CallAt(w, req, Len(log) + 1, s, Len(w))

\* k calls were honest, and the next one, if there is one, was not.
Built(P, k) ==
    /\ k \in 0 .. Len(log) /\ Layout(P, k)
    /\ IF k < Len(log) THEN ~Honest(k + 1) ELSE Current(P[k])

Quiet ==
    /\ holder # "builder" => stage = "idle"
    /\ stage # "written" => sent = 0
    /\ stage \in {"idle", "path"} => todo = <<>>

BuilderInv == IInv /\ Quiet /\ \E k \in Nat : \E P \in [0 .. k -> Nat] : Built(P, k)

-----------------------------------------------------------------------------
(***************************************************************************)
(* The invariant of the reader                                             *)
(***************************************************************************)

\* The entries of the first c calls were given, each as it was asked for.
Told(c) ==
    \A i \in Visible(c) :
        LET n == Cardinality(Visible(i))
        IN  n \in DOMAIN given /\ Matches(given[n], i)

\* What is known of a member behind its descriptors, which stand at from.
LongRun(name, from) ==
    IF name.fits THEN None ELSE [from |-> from + Block, to |-> from + Block + (name.len + 1)]

LinkRun(link, from) == IF link = None THEN None ELSE LongRun(link, from)

SaidOf(long, link) == [long |-> long, link |-> link, pax |-> None]

\* The reader is at one of the headers of call c + 1, an append.
Within(P, c) ==
    LET r == log[c + 1].req
        long == LongRun(ArName(r), P[c])
    IN  \E x, y \in Nat :
            /\ PathAt(obj, r, P[c], x) /\ LinkAt(obj, r, x, y)
            /\ MemberAt(obj, r, c + 1, y, P[c + 1])
            /\ \/ at = P[c] /\ desc = SaidOf(None, None)
               \/ at = x /\ desc = SaidOf(long, None)
               \/ at = y /\ desc = SaidOf(long, LinkRun(r.link, x))

\* The reader is among the first k calls: after c of them, or in the next.
Underway(P, k, c) ==
    /\ status = "none" /\ at \in Nat /\ at % Block = 0
    /\ Told(c) /\ Len(given) = Cardinality(Visible(c))
    /\ zeros = TRUE \/ \A i \in 1 .. c : ~Ends(i)
    /\ \/ at = P[c] /\ desc = SaidOf(None, None)
       \/ /\ c < k /\ Ends(c + 1) /\ zeros = TRUE
          /\ at = P[c] + Block /\ desc = SaidOf(None, None)
       \/ c < k /\ ~Ends(c + 1) /\ Within(P, c)

\* The reader has been through them.
Over(k) ==
    /\ Told(k) /\ Len(given) >= Cardinality(Visible(k))
    /\ k = Len(log) => status = "end" /\ Len(given) = Cardinality(Visible(k))

Reads(P, k) == (\E c \in 0 .. k : Underway(P, k, c)) \/ Over(k)

NotOpen == zeros = None /\ at = 0 /\ desc = SaidOf(None, None) /\ given = <<>> /\ status = "none"

Opened ==
    /\ zeros \in BOOLEAN /\ arch = Archive /\ holder # "builder"
    /\ \E S : given \in Seq(S)

ReaderInv ==
    \/ NotOpen
    \/ /\ Opened
       /\ Len(obj) <= U64Max => \E k \in Nat : \E P \in [0 .. k -> Nat] : Built(P, k) /\ Reads(P, k)

-----------------------------------------------------------------------------
(***************************************************************************)
(* Blocks                                                                  *)
(***************************************************************************)

\* There is one quotient.
LEMMA Quotient ==
  ASSUME NEW B \in Nat \ {0}, NEW q \in Int, NEW r \in 0 .. B - 1, NEW n \in Int,
         n = B * q + r
  PROVE  n \div B = q
  <1>1. /\ n = B * (n \div B) + (n % B) /\ n % B \in 0 .. B - 1
        /\ n \div B \in Int
    BY Division
  <1> DEFINE d == q - (n \div B)
  <1>2. d \in Int /\ B * d = (n % B) - r
    BY <1>1
  <1>3. B * d < B /\ B * d > -B
    BY <1>1, <1>2
  <1> HIDE DEF d
  <1>4. d = 0
    <2>1. CASE d >= 1
      <3>1. B * d >= B
        BY <2>1, <1>2
      <3> QED
        BY <3>1, <1>3, <1>2
    <2>2. CASE d <= -1
      <3>1. B * d <= -B
        BY <2>2, <1>2
      <3> QED
        BY <3>1, <1>3, <1>2
    <2> QED
      BY <2>1, <2>2, <1>2
  <1> QED
    BY <1>1, <1>4 DEF d

\* Rounding up adds the padding.
LEMMA RoundUpIs == ASSUME NEW n \in Nat PROVE RoundUp(n) = n + Padding(n)
  <1> DEFINE q == n \div Block
             m == n % Block
  <1>1. n = Block * q + m /\ m \in 0 .. Block - 1 /\ q \in Int
    BY Division
  <1> HIDE DEF q, m
  <1>2. CASE m = 0
    <2>1. n + Block - 1 = Block * q + (Block - 1) /\ Block - 1 \in 0 .. Block - 1
      BY <1>1, <1>2
    <2>2. (n + Block - 1) \div Block = q
      BY <1>1, <2>1, Quotient
    <2> QED
      BY <1>1, <1>2, <2>2 DEF RoundUp, Padding, m
  <1>3. CASE m # 0
    <2> DEFINE u == q + 1
               v == m - 1
               t == n + Block - 1
    <2>1. u \in Int /\ v \in 0 .. Block - 1 /\ t \in Int /\ Block * u = Block * q + Block
      BY <1>1, <1>3
    <2>2. t = Block * u + v
      BY <1>1, <2>1
    <2>3. u * Block = n + (Block - m)
      BY <1>1
    <2> HIDE DEF u, v, t
    <2>4. t \div Block = u
      BY <2>1, <2>2, Quotient
    <2>5. RoundUp(n) = u * Block
      BY <2>4 DEF RoundUp, t
    <2> QED
      BY <1>1, <1>3, <2>3, <2>5 DEF Padding, m
  <1> QED
    BY <1>2, <1>3

LEMMA SpanIs ==
  ASSUME NEW n \in Nat
  PROVE  /\ RoundUp(n) \in Nat /\ RoundUp(n) >= n
         /\ Span(n) \in Nat /\ Span(n) >= Block + n /\ Span(n) % Block = 0
  <1>1. RoundUp(n) = n + Padding(n) /\ Padding(n) \in 0 .. Block - 1
    BY RoundUpIs, PaddingFits
  <1>2. RoundUp(n) % Block = 0
    BY <1>1, PaddingFits
  <1>3. Block % Block = 0
    <2>1. Block = Block * 1
      OBVIOUS
    <2> QED
      BY <2>1, Multiple
  <1>4. RoundUp(n) \in Int
    BY <1>1
  <1>5. (Block + RoundUp(n)) % Block = 0
    BY <1>2, <1>3, <1>4, SumOfMultiples
  <1> QED
    BY <1>1, <1>5 DEF Span

\* What Appended writes.
LEMMA AppendedStands ==
  ASSUME NEW h \in HeadType, NEW d \in Seq(ByteType)
  PROVE  /\ Appended(h, d) \in Seq(ByteType)
         /\ Len(Appended(h, d)) = Span(Len(d))
         /\ \A j \in 1 .. Block : Appended(h, d)[j] = Bytes(h, Block)[j]
         /\ \A j \in 1 .. Len(d) : Appended(h, d)[Block + j] = d[j]
  <1> DEFINE b == Bytes(h, Block)
             z == Zeros(Padding(Len(d)))
  <1>1. h \in TagType /\ Block \in Nat
    BY DEF TagType
  <1>2. b \in Seq(ByteType) /\ Len(b) = Block
    BY <1>1, BytesOf
  <1>3. Padding(Len(d)) \in Nat /\ RoundUp(Len(d)) = Len(d) + Padding(Len(d))
    BY PaddingFits, RoundUpIs
  <1>4. z \in Seq(ByteType) /\ Len(z) = Padding(Len(d))
    BY <1>3, PlainZeros DEF Plain
  <1>5. Appended(h, d) = b \o d \o z
    BY DEF Appended
  <1> HIDE DEF b, z
  <1>6. b \o d \in Seq(ByteType) /\ Len(b \o d) = Block + Len(d)
    BY <1>2
  <1>7. \A j \in 1 .. Block : (b \o d)[j] = b[j]
    BY <1>2
  <1>8. \A j \in 1 .. Len(d) : (b \o d)[Block + j] = d[j]
    BY <1>2
  <1>9. \A j \in 1 .. Block + Len(d) : (b \o d \o z)[j] = (b \o d)[j]
    BY <1>4, <1>6
  <1>10. b \o d \o z \in Seq(ByteType) /\ Len(b \o d \o z) = Span(Len(d))
    BY <1>3, <1>4, <1>6 DEF Span
  <1>11. ASSUME NEW j \in 1 .. Block PROVE (b \o d \o z)[j] = b[j]
    <2>1. j \in 1 .. Block + Len(d)
      OBVIOUS
    <2> QED
      BY <1>7, <1>9, <2>1
  <1>12. ASSUME NEW j \in 1 .. Len(d) PROVE (b \o d \o z)[Block + j] = d[j]
    <2>1. Block + j \in 1 .. Block + Len(d)
      OBVIOUS
    <2> QED
      BY <1>8, <1>9, <2>1
  <1> QED
    BY <1>5, <1>10, <1>11, <1>12 DEF b

-----------------------------------------------------------------------------
(***************************************************************************)
(* What is written stays where it is                                       *)
(***************************************************************************)

Extends(w, v) == Len(w) <= Len(v) /\ \A j \in 1 .. Len(w) : v[j] = w[j]

LEMMA Joined ==
  ASSUME NEW w \in Seq(ByteType), NEW s \in Seq(ByteType)
  PROVE  /\ w \o s \in Seq(ByteType) /\ Len(w \o s) = Len(w) + Len(s)
         /\ Extends(w, w \o s) /\ Stands(w \o s, Len(w), s)
  BY DEF Extends, Stands

LEMMA StandsGrows ==
  ASSUME NEW w \in Seq(ByteType), NEW v \in Seq(ByteType), Extends(w, v),
         NEW from \in Nat, NEW s \in Seq(ByteType), Stands(w, from, s)
  PROVE  Stands(v, from, s)
  BY DEF Extends, Stands

\* What a longname or longlink member is made of.
LEMMA LongParts ==
  ASSUME NEW kind \in Kinds, NEW name \in NameType
  PROVE  /\ LongHead(kind, name) \in HeadType /\ name.len + 1 \in Nat
         /\ Bytes(LongHead(kind, name), Block) \in Seq(ByteType)
         /\ Len(Bytes(LongHead(kind, name), Block)) = Block
         /\ LongText(name) \in Seq(ByteType) /\ Len(LongText(name)) = name.len + 1
         /\ \A j \in 1 .. name.len : LongText(name)[j] = Bytes(TextOf(name), name.len)[j]
         /\ LongText(name)[name.len + 1].of = Blank
         /\ LongMember(kind, name) = Appended(LongHead(kind, name), LongText(name))
  <1>1. name.len \in Nat /\ name.len + 1 \in Nat
    BY DEF NameType
  <1>2. LongHead(kind, name) \in HeadType
    BY <1>1, HeaderType DEF LongHead
  <1>3. LongHead(kind, name) \in TagType
    BY <1>2 DEF TagType
  <1>4. /\ Bytes(LongHead(kind, name), Block) \in Seq(ByteType)
        /\ Len(Bytes(LongHead(kind, name), Block)) = Block
    BY <1>3, BytesOf
  <1>5. TextOf(name) \in TagType
    BY DEF TextOf, TagType
  <1> DEFINE t == Bytes(TextOf(name), name.len)
  <1>6. t \in Seq(ByteType) /\ Len(t) = name.len
    BY <1>1, <1>5, BytesOf
  <1>7. Zeros(1) \in Seq(ByteType) /\ Len(Zeros(1)) = 1
    BY PlainZeros DEF Plain
  <1>8. Zeros(1)[1].of = Blank
    BY DEF Zeros
  <1> HIDE DEF t
  <1>9. t \o Zeros(1) \in Seq(ByteType) /\ Len(t \o Zeros(1)) = name.len + 1
    BY <1>6, <1>7, Joined
  <1>10. /\ \A j \in 1 .. name.len : (t \o Zeros(1))[j] = t[j]
         /\ (t \o Zeros(1))[name.len + 1] = Zeros(1)[1]
    BY <1>1, <1>6, <1>7
  <1>11. LongText(name) = t \o Zeros(1)
    BY DEF LongText, t
  <1>13. LongText(name)[name.len + 1].of = Blank
    BY <1>8, <1>10, <1>11
  <1>14. \A j \in 1 .. name.len : LongText(name)[j] = t[j]
    BY <1>10, <1>11
  <1>12. LongMember(kind, name) = Appended(LongHead(kind, name), LongText(name))
    BY DEF LongMember, LongHead, LongText
  <1> QED
    BY <1>1, <1>2, <1>4, <1>9, <1>11, <1>12, <1>13, <1>14 DEF t

\* What the member of an append is made of.
LEMMA MemberParts ==
  ASSUME NEW r \in Requests, NEW i \in Nat
  PROVE  /\ HeadFor(r) \in HeadType /\ r.size \in Nat
         /\ Bytes(HeadFor(r), Block) \in Seq(ByteType)
         /\ Len(Bytes(HeadFor(r), Block)) = Block
         /\ Bytes(DataOf(i), r.size) \in Seq(ByteType)
         /\ Len(Bytes(DataOf(i), r.size)) = r.size
  <1>1. HeadFor(r) \in HeadType /\ r.size \in Nat
    BY NamesOf, HeaderType DEF HeadFor, Kinds
  <1>2. HeadFor(r) \in TagType
    BY <1>1 DEF TagType
  <1>3. DataOf(i) \in TagType
    BY DEF DataOf, TagType
  <1>4. /\ Bytes(HeadFor(r), Block) \in Seq(ByteType)
        /\ Len(Bytes(HeadFor(r), Block)) = Block
    BY <1>2, BytesOf
  <1>5. /\ Bytes(DataOf(i), r.size) \in Seq(ByteType)
        /\ Len(Bytes(DataOf(i), r.size)) = r.size
    BY <1>1, <1>3, BytesOf
  <1> QED
    BY <1>1, <1>4, <1>5

LEMMA LongGrows ==
  ASSUME NEW w \in Seq(ByteType), NEW v \in Seq(ByteType), Extends(w, v),
         NEW kind \in Kinds, NEW name \in NameType,
         NEW from \in Nat, NEW to, LongAt(w, kind, name, from, to)
  PROVE  LongAt(v, kind, name, from, to)
  <1>1. from + Block \in Nat
    OBVIOUS
  <1>2. Span(name.len + 1) \in Nat
    BY LongParts, SpanIs
  <1>3. to \in Nat /\ to <= Len(v)
    BY <1>2 DEF LongAt, Extends
  <1> QED
    BY <1>1, <1>3, LongParts, StandsGrows DEF LongAt

LEMMA PathGrows ==
  ASSUME NEW w \in Seq(ByteType), NEW v \in Seq(ByteType), Extends(w, v),
         NEW r \in Requests, NEW from \in Nat, NEW to, PathAt(w, r, from, to)
  PROVE  PathAt(v, r, from, to)
  BY NamesOf, LongGrows DEF PathAt, Kinds

LEMMA LinkGrows ==
  ASSUME NEW w \in Seq(ByteType), NEW v \in Seq(ByteType), Extends(w, v),
         NEW r \in Requests, NEW from \in Nat, NEW to, LinkAt(w, r, from, to)
  PROVE  LinkAt(v, r, from, to)
  BY NamesOf, LongGrows DEF LinkAt, Kinds

LEMMA MemberGrows ==
  ASSUME NEW w \in Seq(ByteType), NEW v \in Seq(ByteType), Extends(w, v),
         NEW r \in Requests, NEW i \in Nat, NEW from \in Nat, NEW to,
         MemberAt(w, r, i, from, to)
  PROVE  MemberAt(v, r, i, from, to)
  <1>1. from + Block \in Nat
    OBVIOUS
  <1>2. Span(r.size) \in Nat
    BY MemberParts, SpanIs
  <1>3. to \in Nat /\ to <= Len(v)
    BY <1>2 DEF MemberAt, Extends
  <1> QED
    BY <1>1, <1>3, MemberParts, StandsGrows DEF MemberAt

LEMMA CallGrows ==
  ASSUME NEW w \in Seq(ByteType), NEW v \in Seq(ByteType), Extends(w, v),
         NEW r, NEW i \in Nat, NEW from \in Nat, NEW to, CallAt(w, r, i, from, to)
  PROVE  CallAt(v, r, i, from, to)
  <1>1. CASE r \in {Finish, IntoInner} /\ EndAt(w, from, to)
    <2>1. to = from + 2 * Block /\ to <= Len(w) /\ to <= Len(v)
      BY <1>1 DEF EndAt, Extends
    <2>2. ASSUME NEW j \in 1 .. 2 * Block PROVE v[from + j].of = Blank
      <3>1. from + j \in 1 .. Len(w) /\ w[from + j].of = Blank
        BY <1>1, <2>1 DEF EndAt
      <3> QED
        BY <3>1 DEF Extends
    <2>3. EndAt(v, from, to)
      BY <2>1, <2>2 DEF EndAt
    <2> QED
      BY <1>1, <2>3 DEF CallAt
  <1>2. CASE r \in Requests /\ AppendAt(w, r, i, from, to)
    <2>1. PICK x, y \in Nat :
            PathAt(w, r, from, x) /\ LinkAt(w, r, x, y) /\ MemberAt(w, r, i, y, to)
      BY <1>2 DEF AppendAt
    <2>2. PathAt(v, r, from, x) /\ LinkAt(v, r, x, y) /\ MemberAt(v, r, i, y, to)
      BY <1>2, <2>1, PathGrows, LinkGrows, MemberGrows
    <2> QED
      BY <1>2, <2>2 DEF CallAt, AppendAt
  <1> QED
    BY <1>1, <1>2 DEF CallAt

-----------------------------------------------------------------------------
(***************************************************************************)
(* What a step of a call adds                                              *)
(***************************************************************************)

LEMMA LongWritten ==
  ASSUME NEW w \in Seq(ByteType), NEW kind \in Kinds, NEW name \in NameType
  PROVE  /\ LongMember(kind, name) \in Seq(ByteType)
         /\ LongAt(w \o LongMember(kind, name), kind, name, Len(w),
                   Len(w \o LongMember(kind, name)))
  <1> DEFINE h == LongHead(kind, name)
             d == LongText(name)
             m == LongMember(kind, name)
  <1>1. /\ h \in HeadType /\ d \in Seq(ByteType) /\ m = Appended(h, d)
        /\ Len(d) = name.len + 1 /\ name.len + 1 \in Nat /\ Len(Bytes(h, Block)) = Block
    BY LongParts
  <1> HIDE DEF h, d, m
  <1>2. /\ m \in Seq(ByteType) /\ Len(m) = Span(Len(d))
        /\ \A j \in 1 .. Block : m[j] = Bytes(h, Block)[j]
        /\ \A j \in 1 .. Len(d) : m[Block + j] = d[j]
    BY <1>1, AppendedStands
  <1>3. /\ w \o m \in Seq(ByteType) /\ Len(w \o m) = Len(w) + Len(m)
        /\ \A j \in 1 .. Len(m) : (w \o m)[Len(w) + j] = m[j]
    BY <1>2, Joined DEF Stands
  <1>4. Span(Len(d)) \in Nat /\ Span(Len(d)) >= Block + Len(d)
    BY <1>1, SpanIs
  <1>5. Stands(w \o m, Len(w), Bytes(h, Block))
    <2>1. ASSUME NEW j \in 1 .. Block PROVE (w \o m)[Len(w) + j] = Bytes(h, Block)[j]
      <3>1. j \in 1 .. Len(m)
        BY <1>1, <1>2, <1>4
      <3> QED
        BY <1>2, <1>3, <3>1
    <2> QED
      BY <1>1, <1>2, <1>3, <1>4, <2>1 DEF Stands
  <1>6. Stands(w \o m, Len(w) + Block, d)
    <2>1. ASSUME NEW j \in 1 .. Len(d) PROVE (w \o m)[Len(w) + Block + j] = d[j]
      <3>1. Block + j \in 1 .. Len(m) /\ Len(w) + Block + j = Len(w) + (Block + j)
        BY <1>1, <1>2, <1>4
      <3> QED
        BY <1>2, <1>3, <3>1
    <2> QED
      BY <1>1, <1>2, <1>3, <1>4, <2>1 DEF Stands
  <1> QED
    BY <1>1, <1>2, <1>3, <1>4, <1>5, <1>6 DEF LongAt, h, d, m

LEMMA MemberWritten ==
  ASSUME NEW w \in Seq(ByteType), NEW r \in Requests, NEW i \in Nat
  PROVE  LET m == Appended(HeadFor(r), Bytes(DataOf(i), r.size))
         IN  m \in Seq(ByteType) /\ MemberAt(w \o m, r, i, Len(w), Len(w \o m))
  <1> DEFINE h == HeadFor(r)
             d == Bytes(DataOf(i), r.size)
             m == Appended(h, d)
  <1>1. /\ h \in HeadType /\ d \in Seq(ByteType) /\ r.size \in Nat
        /\ Len(d) = r.size /\ Len(Bytes(h, Block)) = Block
    BY MemberParts
  <1> HIDE DEF h, d
  <1>2. /\ m \in Seq(ByteType) /\ Len(m) = Span(Len(d))
        /\ \A j \in 1 .. Block : m[j] = Bytes(h, Block)[j]
        /\ \A j \in 1 .. Len(d) : m[Block + j] = d[j]
    BY <1>1, AppendedStands
  <1> HIDE DEF m
  <1>3. /\ w \o m \in Seq(ByteType) /\ Len(w \o m) = Len(w) + Len(m)
        /\ \A j \in 1 .. Len(m) : (w \o m)[Len(w) + j] = m[j]
    BY <1>2, Joined DEF Stands
  <1>4. Span(Len(d)) \in Nat /\ Span(Len(d)) >= Block + Len(d)
    BY <1>1, SpanIs
  <1>5. Stands(w \o m, Len(w), Bytes(h, Block))
    <2>1. ASSUME NEW j \in 1 .. Block PROVE (w \o m)[Len(w) + j] = Bytes(h, Block)[j]
      <3>1. j \in 1 .. Len(m)
        BY <1>1, <1>2, <1>4
      <3> QED
        BY <1>2, <1>3, <3>1
    <2> QED
      BY <1>1, <1>2, <1>3, <1>4, <2>1 DEF Stands
  <1>6. Stands(w \o m, Len(w) + Block, d)
    <2>1. ASSUME NEW j \in 1 .. Len(d) PROVE (w \o m)[Len(w) + Block + j] = d[j]
      <3>1. Block + j \in 1 .. Len(m) /\ Len(w) + Block + j = Len(w) + (Block + j)
        BY <1>1, <1>2, <1>4
      <3> QED
        BY <1>2, <1>3, <3>1
    <2> QED
      BY <1>1, <1>2, <1>3, <1>4, <2>1 DEF Stands
  <1> QED
    BY <1>1, <1>2, <1>3, <1>4, <1>5, <1>6 DEF MemberAt, h, d, m

\* A special file is a header only.
LEMMA SpecialWritten ==
  ASSUME NEW w \in Seq(ByteType), NEW r \in Requests, r.size = 0, NEW i \in Nat
  PROVE  LET m == Bytes(HeadFor(r), Block)
         IN  MemberAt(w \o m, r, i, Len(w), Len(w \o m))
  <1> DEFINE m == Bytes(HeadFor(r), Block)
  <1>1. /\ m \in Seq(ByteType) /\ Len(m) = Block
        /\ Bytes(DataOf(i), r.size) \in Seq(ByteType) /\ Len(Bytes(DataOf(i), r.size)) = 0
    BY MemberParts
  <1>2. Span(r.size) = Block
    <2>1. 0 = Block * 0
      OBVIOUS
    <2>2. 0 % Block = 0
      BY <2>1, Multiple
    <2>3. RoundUp(0) = 0 + Padding(0) /\ Padding(0) = 0
      BY <2>2, RoundUpIs DEF Padding
    <2> QED
      BY <2>3 DEF Span
  <1> HIDE DEF m
  <1>3. Len(w \o m) = Len(w) + Block /\ Stands(w \o m, Len(w), m)
    BY <1>1, Joined
  <1>4. Stands(w \o m, Len(w) + Block, Bytes(DataOf(i), r.size))
    BY <1>1, <1>3 DEF Stands
  <1> QED
    BY <1>2, <1>3, <1>4 DEF MemberAt, m

LEMMA EndWritten ==
  ASSUME NEW w \in Seq(ByteType)
  PROVE  EndAt(w \o Zeros(2 * Block), Len(w), Len(w \o Zeros(2 * Block)))
  <1> DEFINE n == 2 * Block
             z == Zeros(n)
  <1>1. n \in Nat
    OBVIOUS
  <1>2. \A j \in 1 .. n : z[j].of = Blank
    BY DEF Zeros
  <1> HIDE DEF n
  <1>3. z \in Seq(ByteType) /\ Len(z) = n
    BY <1>1, PlainZeros DEF Plain
  <1> HIDE DEF z
  <1>4. /\ Len(w \o z) = Len(w) + n
        /\ \A j \in 1 .. n : (w \o z)[Len(w) + j] = z[j]
    BY <1>3, Joined DEF Stands
  <1> QED
    BY <1>2, <1>4 DEF EndAt, n, z

-----------------------------------------------------------------------------
(***************************************************************************)
(* The invariant of the builder is kept                                    *)
(***************************************************************************)

LogType == [req : CallType, ok : BOOLEAN, sent : Nat]

\* An append is not the end of the archive.
LEMMA AppendIsNoEnd == ASSUME NEW r \in Requests PROVE r \notin {Finish, IntoInner}
  BY NamesOf DEF Finish, IntoInner

LEMMA ObjGrows ==
  ASSUME TypeOK, Next
  PROVE  obj' \in Seq(ByteType) /\ Extends(obj, obj')
  <1>1. obj \in Seq(ByteType) /\ todo \in Seq(ByteType)
    BY DEF TypeOK
  <1>2. CASE UNCHANGED obj
    BY <1>1, <1>2 DEF Extends
  <1>3. CASE Write
    BY <1>1, <1>3, Joined DEF Write
  <1>4. CASE Interrupted
    <2>1. PICK n \in 0 .. Len(todo) : obj' = obj \o SubSeq(todo, 1, n)
      BY <1>4 DEF Interrupted
    <2>2. SubSeq(todo, 1, n) \in Seq(ByteType)
      BY <1>1
    <2> QED
      BY <1>1, <2>1, <2>2, Joined
  <1> QED
    BY <1>2, <1>3, <1>4
    DEF Next, CallAppend, CallFinish, CallIntoInner, WriteEnd, PreparePath, CutPath,
        PrepareLink, Proceed, WriteMember, WriteSpecial, Return, vars

\* A step notes at most one call.
LEMMA LogGrows ==
  ASSUME TypeOK, Next
  PROVE  \/ UNCHANGED log
         \/ \E ok \in BOOLEAN : End(ok)
  BY DEF Next, CallAppend, CallFinish, CallIntoInner, WriteEnd, PreparePath, CutPath,
         PrepareLink, Proceed, WriteMember, WriteSpecial, Write, Interrupted, Return, vars

LEMMA LogKeeps ==
  ASSUME TypeOK, UNCHANGED log \/ \E ok \in BOOLEAN : End(ok)
  PROVE  /\ Len(log) \in Nat /\ Len(log') \in Nat /\ Len(log) <= Len(log')
         /\ \A i \in 1 .. Len(log) : log'[i] = log[i] /\ Honest(i)' = Honest(i)
  <1>1. log \in Seq(LogType)
    BY DEF TypeOK, LogType
  <1>2. CASE UNCHANGED log
    BY <1>1, <1>2 DEF Honest, Ends
  <1>3. ASSUME NEW ok \in BOOLEAN, End(ok)
        PROVE  /\ Len(log') = Len(log) + 1
               /\ \A i \in 1 .. Len(log) : log'[i] = log[i]
    <2>1. log' = Append(log, [req |-> req, ok |-> ok, sent |-> sent])
      BY <1>3 DEF End
    <2>2. [req |-> req, ok |-> ok, sent |-> sent] \in LogType
      BY DEF TypeOK, LogType
    <2> QED
      BY <1>1, <2>1, <2>2
  <1> QED
    BY <1>1, <1>2, <1>3 DEF Honest, Ends

LEMMA LayoutKeeps ==
  ASSUME TypeOK, NEW k \in 0 .. Len(log), NEW P \in [0 .. k -> Nat], Layout(P, k),
         obj' \in Seq(ByteType), Extends(obj, obj'),
         UNCHANGED log \/ \E ok \in BOOLEAN : End(ok)
  PROVE  Layout(P, k)'
  <1>1. /\ Len(log) \in Nat
        /\ \A i \in 1 .. Len(log) : log'[i] = log[i] /\ Honest(i)' = Honest(i)
    BY LogKeeps
  <1>2. obj \in Seq(ByteType)
    BY DEF TypeOK
  <1>3. ASSUME NEW i \in 1 .. k
        PROVE  Honest(i)' /\ CallAt(obj', log'[i].req, i, P[i - 1], P[i])
    <2>1. Honest(i) /\ CallAt(obj, log[i].req, i, P[i - 1], P[i])
      BY DEF Layout
    <2>2. i \in Nat /\ i \in 1 .. Len(log) /\ P[i - 1] \in Nat /\ P[i] \in Nat
      OBVIOUS
    <2> QED
      BY <1>1, <1>2, <2>1, <2>2, CallGrows
  <1>4. P[k] <= Len(obj')
    BY <1>2 DEF Layout, Extends
  <1> QED
    BY <1>3, <1>4 DEF Layout

\* A call that fails is not honest, and the bytes it left do no harm.
LEMMA FailKeeps ==
  ASSUME TypeOK, NEW k \in Nat, NEW P \in [0 .. k -> Nat], Built(P, k), k = Len(log),
         obj' \in Seq(ByteType), Extends(obj, obj'), End(FALSE)
  PROVE  Built(P, k)'
  <1>1. Layout(P, k)'
    BY LayoutKeeps DEF Built
  <1>2. log \in Seq(LogType) /\ [req |-> req, ok |-> FALSE, sent |-> sent] \in LogType
    BY DEF TypeOK, LogType
  <1>3. log' = Append(log, [req |-> req, ok |-> FALSE, sent |-> sent])
    BY DEF End
  <1>4. Len(log') = k + 1 /\ log'[k + 1].ok = FALSE
    BY <1>2, <1>3
  <1>5. ~Honest(k + 1)'
    BY <1>4 DEF Honest
  <1> QED
    BY <1>1, <1>4, <1>5 DEF Built

\* What comes after the first call that was not honest changes nothing.
LEMMA LaterKeeps ==
  ASSUME TypeOK, NEW k \in Nat, NEW P \in [0 .. k -> Nat], Built(P, k), k < Len(log), Next
  PROVE  Built(P, k)'
  <1>1. /\ Len(log) \in Nat /\ Len(log') \in Nat /\ Len(log) <= Len(log')
        /\ \A i \in 1 .. Len(log) : log'[i] = log[i] /\ Honest(i)' = Honest(i)
    BY LogGrows, LogKeeps
  <1>2. Layout(P, k)'
    BY ObjGrows, LogGrows, LayoutKeeps DEF Built
  <1>3. ~Honest(k + 1)'
    BY <1>1 DEF Built
  <1> QED
    BY <1>1, <1>2, <1>3 DEF Built

\* A call that goes on.
LEMMA GoesOn ==
  ASSUME TypeOK, NEW k \in Nat, NEW P \in [0 .. k -> Nat], Built(P, k), k = Len(log),
         obj' \in Seq(ByteType), Extends(obj, obj'), UNCHANGED log, Current(P[k])'
  PROVE  Built(P, k)'
  <1>1. Layout(P, k)'
    BY LayoutKeeps DEF Built
  <1> QED
    BY <1>1 DEF Built

-----------------------------------------------------------------------------
LEMMA PathNothing ==
  ASSUME NEW r \in Requests, AsNamed, r.api = "append"
  PROVE  ArName(r).fits /\ (r.link = None \/ r.link.fits)
  BY DEF AsNamed, ArName

\* A call that has been returned from.
LEMMA ReturnKeeps ==
  ASSUME TypeOK, NEW k \in Nat, NEW P \in [0 .. k -> Nat], Built(P, k), k = Len(log),
         Return
  PROVE  \E m \in Nat : \E Q \in [0 .. m -> Nat] : Built(Q, m)'
  <1> DEFINE last == [req |-> req, ok |-> TRUE, sent |-> sent]
  <1>1. /\ stage = "written" /\ todo = <<>> /\ End(TRUE) /\ obj' = obj
        /\ stage' = "idle" /\ todo' = <<>> /\ log' = Append(log, last)
    BY DEF Return, At, End
  <1>2. log \in Seq(LogType) /\ last \in LogType /\ obj \in Seq(ByteType)
    BY DEF TypeOK, LogType
  <1>3. Len(log') = k + 1 /\ log'[k + 1] = last
    BY <1>1, <1>2
  <1>4. Layout(P, k)' /\ Layout(P, k)
    <2>1. Extends(obj, obj')
      BY <1>1 DEF Extends
    <2> QED
      BY <1>1, <1>2, <2>1, LayoutKeeps DEF Built
  <1>5. CASE ~Honest(k + 1)'
    BY <1>3, <1>4, <1>5 DEF Built
  <1>6. CASE Honest(k + 1)'
    <2>11. PICK n \in Nat : n = Len(obj)
      BY <1>2
    <2> DEFINE Q == [i \in 0 .. k + 1 |-> IF i = k + 1 THEN n ELSE P[i]]
    <2>1. /\ Q \in [0 .. k + 1 -> Nat] /\ Q[k + 1] = Len(obj)
          /\ \A i \in 0 .. k : Q[i] = P[i]
      BY <2>11
    <2>2. req \in {Finish, IntoInner} \/ sent = req.size
      BY <1>3, <1>6 DEF Honest, Ends
    <2>3. obj \o todo = obj
      BY <1>1, <1>2
    <2>4. CallAt(obj, req, k + 1, P[k], Len(obj))
      BY <1>1, <2>2, <2>3 DEF Built, Current
    <2> HIDE DEF Q
    <2>5. Q[0] = 0 /\ Q[k + 1] <= Len(obj')
      BY <1>1, <1>2, <1>4, <2>1 DEF Layout
    <2>6. ASSUME NEW i \in 1 .. k + 1
          PROVE  Honest(i)' /\ CallAt(obj', log'[i].req, i, Q[i - 1], Q[i])
      <3>1. CASE i \in 1 .. k
        <4>1. Honest(i)' /\ CallAt(obj', log'[i].req, i, P[i - 1], P[i])
          BY <1>4, <3>1 DEF Layout
        <4>2. Q[i - 1] = P[i - 1] /\ Q[i] = P[i]
          BY <2>1, <3>1
        <4> QED
          BY <4>1, <4>2
      <3>2. CASE i = k + 1
        <4>1. Q[i - 1] = P[k] /\ Q[i] = Len(obj)
          BY <2>1, <3>2
        <4> QED
          BY <1>1, <1>3, <1>6, <2>4, <3>2, <4>1
      <3> QED
        BY <3>1, <3>2
    <2>7. Layout(Q, k + 1)'
      BY <2>1, <2>5, <2>6 DEF Layout
    <2>8. Current(Q[k + 1])'
      BY <1>1, <2>1 DEF Current
    <2>9. Built(Q, k + 1)'
      BY <1>3, <2>7, <2>8 DEF Built
    <2>10. k + 1 \in Nat
      OBVIOUS
    <2> QED
      BY <2>1, <2>9, <2>10
  <1> QED
    BY <1>5, <1>6

\* The calls of the API, made where all calls before were honest.
LEMMA CallKeeps ==
  ASSUME TypeOK, Quiet, AsNamed,
         NEW k \in Nat, NEW P \in [0 .. k -> Nat], Built(P, k), k = Len(log),
         (\E r \in Requests : CallAppend(r)) \/ CallFinish \/ CallIntoInner
  PROVE  Built(P, k)'
  <1> DEFINE s == P[k]
  <1>1. Idle /\ stage = "idle" /\ todo = <<>> /\ Len(obj) = s /\ UNCHANGED <<obj, log>>
    BY DEF CallAppend, CallFinish, CallIntoInner, WriteEnd, Idle, Built, Current, vars
  <1>2. obj \in Seq(ByteType) /\ obj' = obj /\ Extends(obj, obj') /\ obj \o todo = obj
    BY <1>1 DEF TypeOK, Extends
  <1>3. ASSUME NEW r \in Requests, CallAppend(r)
        PROVE  Current(s)'
    <2>1. /\ todo' = <<>> /\ req' = r
          /\ stage' = IF r.api = "append" THEN "member" ELSE "path"
      BY <1>1, <1>3 DEF CallAppend
    <2>2. CASE r.api = "append"
      <3>1. ArName(r).fits /\ (r.link = None \/ r.link.fits)
        BY <2>2, PathNothing
      <3>2. PathAt(obj, r, s, s) /\ LinkAt(obj, r, s, Len(obj)) /\ s \in Nat
        BY <1>1, <3>1 DEF PathAt, LinkAt
      <3>3. obj' \o todo' = obj /\ stage' = "member"
        BY <1>1, <1>2, <2>1, <2>2
      <3> QED
        BY <2>1, <3>2, <3>3 DEF Current
    <2>3. CASE r.api # "append"
      BY <1>1, <2>1, <2>3 DEF Current
    <2> QED
      BY <2>2, <2>3
  <1>4. ASSUME NEW r \in {Finish, IntoInner}, WriteEnd(r)
        PROVE  Current(s)'
    <2>1. todo' = Zeros(2 * Block) /\ stage' = "written" /\ req' = r
      BY <1>4 DEF WriteEnd
    <2>2. EndAt(obj \o Zeros(2 * Block), s, Len(obj \o Zeros(2 * Block)))
      BY <1>1, <1>2, EndWritten
    <2>3. obj' \o todo' = obj \o Zeros(2 * Block)
      BY <1>2, <2>1
    <2> QED
      BY <2>1, <2>2, <2>3 DEF Current, CallAt
  <1>5. CASE UNCHANGED <<obj, stage, req, todo, sent, log>>
    <2>1. Current(s)'
      BY <1>5 DEF Built, Current
    <2> QED
      BY <1>1, <1>2, <2>1, GoesOn
  <1>6. CASE (\E r \in Requests : CallAppend(r)) \/ WriteEnd(Finish) \/ WriteEnd(IntoInner)
    <2>1. Current(s)'
      BY <1>3, <1>4, <1>6
    <2> QED
      BY <1>1, <1>2, <2>1, GoesOn
  <1> QED
    BY <1>5, <1>6 DEF CallFinish, CallIntoInner, vars

\* The stages of a call, made where all calls before were honest.
LEMMA PathKeeps ==
  ASSUME TypeOK, NEW k \in Nat, NEW P \in [0 .. k -> Nat], Built(P, k), k = Len(log),
         PreparePath
  PROVE  Built(P, k)'
  <1>1. stage = "path" /\ todo = <<>> /\ req \in Requests /\ Len(obj) = P[k]
    BY DEF PreparePath, At, TypeOK, HasRequest, Built, Current
  <1>2. obj \in Seq(ByteType)
    BY DEF TypeOK
  <1>3. CASE End(FALSE) /\ UNCHANGED obj
    <2>1. Extends(obj, obj') /\ obj' \in Seq(ByteType)
      BY <1>2, <1>3 DEF Extends
    <2> QED
      BY <1>3, <2>1, FailKeeps
  <1>4. CASE ArName(req).fits /\ Proceed("link", <<>>)
    <2>1. obj' = obj /\ log' = log /\ req' = req /\ todo' = <<>> /\ stage' = "link"
      BY <1>4 DEF Proceed
    <2>2. obj' \o todo' = obj /\ Extends(obj, obj')
      BY <1>2, <2>1 DEF Extends
    <2>3. PathAt(obj, req, P[k], Len(obj))
      BY <1>1, <1>4 DEF PathAt
    <2>4. Current(P[k])'
      BY <2>1, <2>2, <2>3 DEF Current
    <2> QED
      BY <1>2, <2>1, <2>2, <2>4, GoesOn
  <1>5. CASE ~ArName(req).fits /\ Proceed("cut", LongMember("longname", ArName(req)))
    <2> DEFINE m == LongMember("longname", ArName(req))
    <2>1. obj' = obj /\ log' = log /\ req' = req /\ todo' = m /\ stage' = "cut"
      BY <1>5 DEF Proceed
    <2>2. LongAt(obj \o m, "longname", ArName(req), Len(obj), Len(obj \o m))
      BY <1>1, <1>2, NamesOf, LongWritten DEF Kinds
    <2>3. obj' \o todo' = obj \o m /\ Extends(obj, obj')
      BY <1>2, <2>1 DEF Extends
    <2> HIDE DEF m
    <2>4. Current(P[k])'
      BY <1>1, <1>5, <2>1, <2>2, <2>3 DEF Current, ArName
    <2> QED
      BY <1>2, <2>1, <2>3, <2>4, GoesOn
  <1> QED
    BY <1>3, <1>4, <1>5 DEF PreparePath

LEMMA CutKeeps ==
  ASSUME TypeOK, NEW k \in Nat, NEW P \in [0 .. k -> Nat], Built(P, k), k = Len(log),
         CutPath
  PROVE  Built(P, k)'
  <1>1. stage = "cut" /\ todo = <<>> /\ obj \in Seq(ByteType) /\ obj \o todo = obj
    BY DEF CutPath, At, TypeOK
  <1>2. ~ArName(req).fits /\ LongAt(obj, "longname", ArName(req), P[k], Len(obj))
    BY <1>1 DEF Built, Current
  <1>3. CASE End(FALSE) /\ UNCHANGED obj
    <2>1. Extends(obj, obj') /\ obj' \in Seq(ByteType)
      BY <1>1, <1>3 DEF Extends
    <2> QED
      BY <1>3, <2>1, FailKeeps
  <1>4. CASE Proceed("link", <<>>)
    <2>1. obj' = obj /\ log' = log /\ req' = req /\ todo' = <<>> /\ stage' = "link"
      BY <1>4 DEF Proceed
    <2>2. obj' \o todo' = obj /\ Extends(obj, obj')
      BY <1>1, <2>1 DEF Extends
    <2>3. PathAt(obj, req, P[k], Len(obj))
      BY <1>2 DEF PathAt
    <2>4. Current(P[k])'
      BY <2>1, <2>2, <2>3 DEF Current
    <2> QED
      BY <1>1, <2>1, <2>2, <2>4, GoesOn
  <1> QED
    BY <1>3, <1>4 DEF CutPath

LEMMA LinkKeeps ==
  ASSUME TypeOK, NEW k \in Nat, NEW P \in [0 .. k -> Nat], Built(P, k), k = Len(log),
         PrepareLink
  PROVE  Built(P, k)'
  <1>1. /\ stage = "link" /\ todo = <<>> /\ req \in Requests
        /\ obj \in Seq(ByteType) /\ obj \o todo = obj
    BY DEF PrepareLink, At, TypeOK, HasRequest
  <1>2. PathAt(obj, req, P[k], Len(obj)) /\ P[k] \in Nat
    BY <1>1 DEF Built, Current
  <1>6. PICK x \in Nat : x = Len(obj)
    BY <1>1
  <1>3. CASE End(FALSE) /\ UNCHANGED obj
    <2>1. Extends(obj, obj') /\ obj' \in Seq(ByteType)
      BY <1>1, <1>3 DEF Extends
    <2> QED
      BY <1>3, <2>1, FailKeeps
  <1>4. CASE (req.link = None \/ req.link.fits) /\ Proceed("member", <<>>)
    <2>1. obj' = obj /\ log' = log /\ req' = req /\ todo' = <<>> /\ stage' = "member"
      BY <1>4 DEF Proceed
    <2>2. obj' \o todo' = obj /\ Extends(obj, obj')
      BY <1>1, <2>1 DEF Extends
    <2>3. PathAt(obj, req, P[k], x) /\ LinkAt(obj, req, x, Len(obj))
      BY <1>2, <1>4, <1>6 DEF LinkAt
    <2>4. Current(P[k])'
      BY <1>6, <2>1, <2>2, <2>3 DEF Current
    <2> QED
      BY <1>1, <2>1, <2>2, <2>4, GoesOn
  <1>5. CASE /\ req.link # None /\ ~req.link.fits
             /\ Proceed("member", LongMember("longlink", req.link))
    <2> DEFINE m == LongMember("longlink", req.link)
    <2>1. obj' = obj /\ log' = log /\ req' = req /\ todo' = m /\ stage' = "member"
      BY <1>5 DEF Proceed
    <2>2. m \in Seq(ByteType) /\ LongAt(obj \o m, "longlink", req.link, x, Len(obj \o m))
      BY <1>1, <1>5, <1>6, NamesOf, LongWritten DEF Kinds
    <2>3. obj' \o todo' = obj \o m /\ Extends(obj, obj')
      BY <1>1, <2>1 DEF Extends
    <2> HIDE DEF m
    <2>4. obj \o m \in Seq(ByteType) /\ Extends(obj, obj \o m)
      BY <1>1, <2>2, Joined
    <2>5. PathAt(obj \o m, req, P[k], x)
      BY <1>1, <1>2, <1>6, <2>4, PathGrows
    <2>6. LinkAt(obj \o m, req, x, Len(obj \o m))
      BY <1>5, <2>2 DEF LinkAt
    <2>7. Current(P[k])'
      BY <1>6, <2>1, <2>3, <2>5, <2>6 DEF Current
    <2> QED
      BY <1>1, <2>1, <2>3, <2>7, GoesOn
  <1> QED
    BY <1>3, <1>4, <1>5 DEF PrepareLink

LEMMA MemberKeeps ==
  ASSUME TypeOK, Quiet, NEW k \in Nat, NEW P \in [0 .. k -> Nat], Built(P, k), k = Len(log),
         WriteMember \/ WriteSpecial
  PROVE  Built(P, k)'
  <1>1. /\ stage = "member" /\ todo = <<>> /\ req \in Requests /\ sent = 0
        /\ obj \in Seq(ByteType) /\ obj \o todo = obj
    BY DEF WriteMember, WriteSpecial, At, TypeOK, HasRequest, Quiet
  <1>2. PICK x \in Nat : PathAt(obj, req, P[k], x) /\ LinkAt(obj, req, x, Len(obj))
    BY <1>1 DEF Built, Current
  <1>3. PICK y \in Nat : y = Len(obj)
    BY <1>1
  <1>4. /\ obj' = obj /\ log' = log /\ req' = req /\ stage' = "written"
        /\ Extends(obj, obj') /\ req \notin {Finish, IntoInner}
    BY <1>1, AppendIsNoEnd DEF WriteMember, WriteSpecial, Proceed, Extends
  <1>5. ASSUME sent' = req.size
        PROVE  /\ todo' \in Seq(ByteType)
               /\ MemberAt(obj \o todo', req, k + 1, y, Len(obj \o todo'))
    <2>1. k + 1 \in Nat
      OBVIOUS
    <2>2. CASE WriteMember
      <3>1. todo' = Appended(HeadFor(req), Bytes(DataOf(k + 1), req.size))
        BY <1>5, <2>2 DEF WriteMember, Header, HeadFor
      <3> QED
        BY <1>1, <1>3, <2>1, <3>1, MemberWritten
    <2>3. CASE WriteSpecial
      <3>1. todo' = Bytes(HeadFor(req), Block) /\ req.size = 0
        BY <1>1, <1>5, <2>3 DEF WriteSpecial, Proceed, Header, HeadFor
      <3>2. todo' \in Seq(ByteType)
        BY <1>1, <3>1, MemberParts, <2>1
      <3> QED
        BY <1>1, <1>3, <2>1, <3>1, <3>2, SpecialWritten
    <2> QED
      BY <2>2, <2>3
  <1>6. ASSUME sent' = req.size
        PROVE  CallAt(obj \o todo', req, k + 1, P[k], Len(obj \o todo'))
    <2>1. obj \o todo' \in Seq(ByteType) /\ Extends(obj, obj \o todo')
      BY <1>1, <1>5, <1>6, Joined
    <2>2. P[k] \in Nat
      OBVIOUS
    <2>3. PathAt(obj \o todo', req, P[k], x) /\ LinkAt(obj \o todo', req, x, y)
      BY <1>1, <1>2, <1>3, <2>1, <2>2, PathGrows, LinkGrows
    <2> QED
      BY <1>1, <1>5, <1>6, <2>3 DEF CallAt, AppendAt
  <1>7. Current(P[k])'
    BY <1>4, <1>6 DEF Current
  <1> QED
    BY <1>1, <1>4, <1>7, GoesOn

LEMMA WriteKeeps ==
  ASSUME TypeOK, NEW k \in Nat, NEW P \in [0 .. k -> Nat], Built(P, k), k = Len(log), Write
  PROVE  Built(P, k)'
  <1>1. /\ obj' = obj \o todo /\ todo' = <<>> /\ todo # <<>>
        /\ UNCHANGED <<stage, req, sent, log>>
    BY DEF Write
  <1>2. obj \in Seq(ByteType) /\ todo \in Seq(ByteType)
    BY DEF TypeOK
  <1>3. obj' \in Seq(ByteType) /\ Extends(obj, obj') /\ obj' \o todo' = obj \o todo
    BY <1>1, <1>2, Joined
  <1>4. Current(P[k])'
    <2>1. Current(P[k])
      BY DEF Built
    <2>2. stage \notin {"idle", "path"}
      BY <1>1, <2>1 DEF Current
    <2> QED
      BY <1>1, <1>3, <2>1, <2>2 DEF Current, ArName
  <1> QED
    BY <1>1, <1>3, <1>4, GoesOn

LEMMA InterruptedKeeps ==
  ASSUME TypeOK, NEW k \in Nat, NEW P \in [0 .. k -> Nat], Built(P, k), k = Len(log),
         Interrupted
  PROVE  Built(P, k)'
  <1>1. Next /\ End(FALSE)
    BY DEF Next, Interrupted
  <1> QED
    BY <1>1, ObjGrows, FailKeeps

LEMMA QuietKeeps == ASSUME TypeOK, Quiet, [Next]_vars PROVE Quiet'
  BY DEF Quiet, Next, vars, CallAppend, CallFinish, CallIntoInner, WriteEnd, PreparePath,
         CutPath, PrepareLink, Proceed, WriteMember, WriteSpecial, Write, Interrupted,
         Return, End, Idle, At

LEMMA BuiltStep ==
  ASSUME TypeOK, Quiet, AsNamed, Next,
         NEW k \in Nat, NEW P \in [0 .. k -> Nat], Built(P, k)
  PROVE  \E m \in Nat : \E Q \in [0 .. m -> Nat] : Built(Q, m)'
  <1>1. CASE k < Len(log)
    BY <1>1, LaterKeeps
  <1>2. CASE k = Len(log)
    <2>1. CASE (\E r \in Requests : CallAppend(r)) \/ CallFinish \/ CallIntoInner
      BY <1>2, <2>1, CallKeeps
    <2>2. CASE PreparePath
      BY <1>2, <2>2, PathKeeps
    <2>3. CASE CutPath
      BY <1>2, <2>3, CutKeeps
    <2>4. CASE PrepareLink
      BY <1>2, <2>4, LinkKeeps
    <2>5. CASE WriteMember \/ WriteSpecial
      BY <1>2, <2>5, MemberKeeps
    <2>6. CASE Write
      BY <1>2, <2>6, WriteKeeps
    <2>7. CASE Interrupted
      BY <1>2, <2>7, InterruptedKeeps
    <2>8. CASE Return
      BY <1>2, <2>8, ReturnKeeps
    <2> QED
      BY <2>1, <2>2, <2>3, <2>4, <2>5, <2>6, <2>7, <2>8 DEF Next
  <1>3. k \in 0 .. Len(log) /\ Len(log) \in Nat
    BY DEF Built, TypeOK
  <1>4. k < Len(log) \/ k = Len(log)
    BY <1>3
  <1> QED
    BY <1>1, <1>2, <1>4, Zenon

LEMMA InitBuilt ==
  ASSUME Init
  PROVE  Quiet /\ \E k \in Nat : \E P \in [0 .. k -> Nat] : Built(P, k)
  <1> DEFINE P == [i \in 0 .. 0 |-> 0]
  <1>1. /\ obj = <<>> /\ log = <<>> /\ todo = <<>> /\ stage = "idle"
        /\ Len(obj) = 0 /\ Len(log) = 0
    BY DEF Init
  <1>2. P \in [0 .. 0 -> Nat] /\ P[0] = 0
    OBVIOUS
  <1> HIDE DEF P
  <1>3. Current(P[0])
    BY <1>1, <1>2 DEF Current
  <1>4. Layout(P, 0)
    BY <1>1, <1>2 DEF Layout
  <1>5. Built(P, 0)
    BY <1>1, <1>3, <1>4 DEF Built
  <1>6. Quiet
    BY DEF Init, Quiet
  <1> QED
    BY <1>2, <1>5, <1>6

-----------------------------------------------------------------------------
(***************************************************************************)
(* What a reader finds at the boundary of a block                          *)
(***************************************************************************)

\* The number of a block that is there is the number of one the reader has.
LEMMA BlockNumber ==
  ASSUME NEW L \in Nat, NEW p \in Nat, p % Block = 0, p + Block <= L
  PROVE  LET k == (p \div Block) + 1
         IN  /\ k \in 1 .. RoundUp(L) \div Block
             /\ (k - 1) * Block = p /\ k * Block = p + Block
  <1> DEFINE q == p \div Block
             m == (L + Block - 1) \div Block
             e == m - (q + 1)
  <1>1. p = Block * q /\ q \in Int
    BY Division
  <1>2. /\ L + Block - 1 = Block * m + ((L + Block - 1) % Block) /\ m \in Int
        /\ (L + Block - 1) % Block \in 0 .. Block - 1
    <2>1. L + Block - 1 \in Int
      OBVIOUS
    <2> QED
      BY <2>1, Division
  <1>3. RoundUp(L) \div Block = m
    <2>1. RoundUp(L) = Block * m + 0 /\ 0 \in 0 .. Block - 1 /\ RoundUp(L) \in Int
      BY <1>2 DEF RoundUp
    <2> QED
      BY <1>2, <2>1, Quotient
  <1>4. (q + 1) * Block = p + Block /\ q * Block = p
    BY <1>1
  <1>5. q >= 0
    <2>1. CASE q <= -1
      <3>1. Block * q <= -Block
        BY <1>1, <2>1
      <3> QED
        BY <1>1, <3>1
    <2> QED
      BY <1>1, <2>1
  <1> HIDE DEF q, m
  <1>6. e \in Int /\ Block * e >= 0
    <2>1. Block * m >= L
      BY <1>2
    <2>2. Block * e = Block * m - (q + 1) * Block
      BY <1>1, <1>2
    <2>3. Block * m \in Int
      BY <1>2
    <2> QED
      BY <1>1, <1>2, <1>4, <2>1, <2>2, <2>3
  <1> HIDE DEF e
  <1>7. e >= 0
    <2>1. CASE e <= -1
      <3>1. Block * e <= -Block
        BY <1>6, <2>1
      <3> QED
        BY <1>6, <3>1
    <2> QED
      BY <1>6, <2>1
  <1>8. q + 1 \in 1 .. m
    BY <1>1, <1>2, <1>5, <1>7 DEF e
  <1> QED
    BY <1>1, <1>3, <1>4, <1>8 DEF q

LEMMA BlockFound ==
  ASSUME obj \in Seq(ByteType), NEW p \in Nat, p % Block = 0, p + Block <= Len(obj)
  PROVE  BlockAt(Archive, p) = Parsed(SubSeq(obj, p + 1, p + Block))
  <1> DEFINE k == (p \div Block) + 1
             n == RoundUp(Len(obj)) \div Block
  <1>1. k \in 1 .. n /\ (k - 1) * Block = p /\ k * Block = p + Block
    <2>1. Len(obj) \in Nat
      OBVIOUS
    <2> HIDE DEF k, n
    <2> QED
      BY <2>1, BlockNumber, Zenon DEF k, n
  <1>2. Archive.blocks = [i \in 1 .. n |-> Parsed(BlockBytes(i))]
    BY DEF Archive
  <1> HIDE DEF n
  <1>3. k \in DOMAIN Archive.blocks /\ Archive.blocks[k] = Parsed(BlockBytes(k))
    BY <1>1, <1>2
  <1>4. BlockAt(Archive, p) = Archive.blocks[k]
    BY <1>3 DEF BlockAt
  <1> HIDE DEF k
  <1>5. Min2(k * Block, Len(obj)) = p + Block
    BY <1>1 DEF Min2
  <1>6. BlockBytes(k) = SubSeq(obj, p + 1, p + Block)
    BY <1>1, <1>5 DEF BlockBytes
  <1> QED
    BY <1>3, <1>4, <1>6

\* What stands in the archive is what is cut out of it.
LEMMA CutOut ==
  ASSUME NEW w \in Seq(ByteType), NEW p \in Nat, NEW s \in Seq(ByteType), Stands(w, p, s)
  PROVE  SubSeq(w, p + 1, p + Len(s)) = s
  <1> DEFINE t == SubSeq(w, p + 1, p + Len(s))
  <1>1. p + Len(s) <= Len(w) /\ \A j \in 1 .. Len(s) : w[p + j] = s[j]
    BY DEF Stands
  <1>2. t \in Seq(ByteType) /\ Len(t) = Len(s)
    BY <1>1
  <1>3. ASSUME NEW j \in 1 .. Len(s) PROVE t[j] = s[j]
    BY <1>1, <1>2
  <1> HIDE DEF t
  <1>4. t = s
    BY <1>2, <1>3
  <1> QED
    BY <1>4 DEF t

LEMMA HeaderFound ==
  ASSUME obj \in Seq(ByteType), NEW p \in Nat, p % Block = 0,
         NEW h \in HeadType, Stands(obj, p, Bytes(h, Block))
  PROVE  /\ p + Block <= Len(obj) /\ BlockAt(Archive, p) = h.blk
         /\ obj[p + 1].of = h
  <1> DEFINE s == Bytes(h, Block)
  <1>1. h \in TagType /\ Block \in Nat /\ 1 \in 1 .. Block
    BY DEF TagType
  <1>2. s \in Seq(ByteType) /\ Len(s) = Block /\ s[1].of = h
    <2>1. s[1] = [of |-> h, at |-> 1]
      BY <1>1, BytesOf
    <2> QED
      BY <1>1, <2>1, BytesOf
  <1>3. p + Block <= Len(obj) /\ obj[p + 1] = s[1]
    BY <1>1, <1>2 DEF Stands
  <1>4. SubSeq(obj, p + 1, p + Block) = s
    BY <1>2, CutOut
  <1>5. h.tag = "head" /\ Blank.tag = "zero"
    BY DEF HeadType, Blank
  <1>6. ~ \A j \in DOMAIN s : s[j].of = Blank
    <2>1. 1 \in DOMAIN s
      BY <1>1, <1>2
    <2> QED
      BY <1>2, <1>5, <2>1
  <1>7. s[1].of.tag = "head" /\ s = Bytes(s[1].of, Block)
    BY <1>2, <1>5
  <1> HIDE DEF s
  <1>8. Parsed(s) = h.blk
    BY <1>2, <1>6, <1>7 DEF Parsed
  <1> QED
    BY <1>2, <1>3, <1>4, <1>8, BlockFound

LEMMA ZerosFound ==
  ASSUME obj \in Seq(ByteType), NEW p \in Nat, p % Block = 0, p + Block <= Len(obj),
         \A j \in 1 .. Block : obj[p + j].of = Blank
  PROVE  BlockAt(Archive, p).zero = TRUE
  <1> DEFINE s == SubSeq(obj, p + 1, p + Block)
  <1>1. s \in Seq(ByteType) /\ Len(s) = Block /\ \A j \in 1 .. Block : s[j] = obj[p + j]
    <2>1. s \in Seq(ByteType) /\ Len(s) = Block
      OBVIOUS
    <2>2. ASSUME NEW j \in 1 .. Block PROVE s[j] = obj[p + j]
      <3>1. j \in 1 .. Len(s) /\ p + 1 + j - 1 = p + j
        BY <2>1
      <3> QED
        BY <3>1
    <2> QED
      BY <2>1, <2>2
  <1> HIDE DEF s
  <1>2. \A j \in DOMAIN s : s[j].of = Blank
    <2>1. DOMAIN s = 1 .. Block
      BY <1>1
    <2>2. ASSUME NEW j \in 1 .. Block PROVE s[j].of = Blank
      <3>1. s[j] = obj[p + j] /\ obj[p + j].of = Blank
        BY <1>1
      <3> QED
        BY <3>1
    <2> QED
      BY <2>1, <2>2
  <1>3. Parsed(s) = NoBytes
    BY <1>2 DEF Parsed
  <1>4. NoBytes.zero = TRUE
    BY DEF NoBytes, Garbage
  <1> QED
    BY <1>3, <1>4, BlockFound DEF s

-----------------------------------------------------------------------------
(***************************************************************************)
(* What the reader does there                                              *)
(***************************************************************************)

\* A step of the reader.
Reader == Read!SkipZeros \/ Read!Describe \/ Read!Give \/ Read!Stop \/ Read!Reject

\* TarWalk knows the format under names of its own.
LEMMA SameFormat ==
  /\ \A n : Read!RoundUp(n) = RoundUp(n)
  /\ \A m, n : Read!Min2(m, n) = Min2(m, n)
  /\ \A a, o : Read!BlockAt(a, o) = BlockAt(a, o)
  /\ \A b : Read!MemberSize(b, None) = b.size
  /\ Read!NoDesc = SaidOf(None, None)
  BY DEF Read!RoundUp, RoundUp, Read!Min2, Min2, Read!BlockAt, BlockAt, Read!Garbage, Garbage,
         Read!MemberSize, Read!NoDesc, SaidOf

\* The member that follows the header.
EntryOf(size) ==
  [blk |-> BlockAt(Archive, at), hpos |-> at, fpos |-> at + Block, size |-> size,
   long |-> desc.long, link |-> desc.link, pax |-> desc.pax]

\* At a header that is there with its member, the reader takes the member.
LEMMA AtHeader ==
  ASSUME obj \in Seq(ByteType), arch = Archive, Len(obj) <= U64Max, desc.pax = None,
         at \in Nat, at % Block = 0,
         NEW kind \in {"file", "longname", "longlink"}, NEW size \in Nat,
         NEW name \in NameType, NEW link \in NameType \cup {None},
         Stands(obj, at, Bytes(HeaderOf(kind, size, name, link), Block)),
         at + Span(size) <= Len(obj), Reader
  PROVE  /\ at' = at + Span(size) /\ status' = status
         /\ LET run == [from |-> at + Block, to |-> at + Block + size]
            IN  /\ kind = "longname" =>
                     desc' = [desc EXCEPT !.long = run] /\ given' = given
                /\ kind = "longlink" =>
                     desc' = [desc EXCEPT !.link = run] /\ given' = given
                /\ kind = "file" =>
                     desc' = SaidOf(None, None) /\ given' = Append(given, EntryOf(size))
  <1> DEFINE h == HeaderOf(kind, size, name, link)
  <1>1. h \in HeadType
    BY HeaderType DEF Kinds
  <1>2. at + Block <= Len(obj) /\ BlockAt(Archive, at) = h.blk
    BY <1>1, HeaderFound
  <1>3. /\ h.blk.zero = FALSE /\ h.blk.cksum = TRUE /\ h.blk.magic = "gnu"
        /\ h.blk.kind = kind /\ h.blk.size = size
    BY DEF HeaderOf
  <1>4. Archive.len = Len(obj)
    BY DEF Archive
  <1> HIDE DEF h
  <1>5. Read!Here = h.blk
    BY <1>2, SameFormat DEF Read!Here
  <1>6. Read!Size = size
    BY <1>3, <1>5, SameFormat DEF Read!Size
  <1>7. Span(size) = Block + RoundUp(size) /\ RoundUp(size) \in Nat /\ RoundUp(size) >= size
    BY SpanIs DEF Span
  <1>8. size # None
    OBVIOUS
  <1>9. /\ Len(obj) \in Nat /\ U64Max \in Nat
        /\ at + Block + RoundUp(size) <= Len(obj)
        /\ at + Block + RoundUp(size) = at + Span(size)
    BY <1>7, WidthAssumption
  <1>10. size + Block - 1 <= U64Max /\ at + Block + RoundUp(size) <= U64Max
    BY <1>7, <1>9
  <1>11. Read!Sound
    BY <1>2, <1>3, <1>4, <1>5, <1>6, <1>8, <1>10, SameFormat DEF Read!Sound
  <1>12. (Read!Describes <=> kind \in Descriptors) /\ ~Read!IsSparse
    <2>1. Read!IsDescriptor(Read!Here) <=> kind \in Descriptors
      BY <1>3, <1>5 DEF Read!IsDescriptor, Read!Recognized, Read!Descriptors, Descriptors
    <2>2. Read!Here.kind # "sparse" /\ [raw |-> FALSE, zeros |-> zeros].raw = FALSE
      BY <1>3, <1>5
    <2> QED
      BY <2>1, <2>2 DEF Read!Describes, Read!IsSparse
  <1>13. ~Read!SkipZeros
    BY <1>3, <1>5 DEF Read!SkipZeros
  <1>14. ~Read!Stop
    BY <1>2, <1>3, <1>4, <1>5 DEF Read!Stop
  <1>15. ~Read!Reject
    BY <1>2, <1>4, <1>11, <1>12 DEF Read!Reject
  <1>16. CASE Read!Describe
    <2>1. Min2(at + Block + size, Len(obj)) = at + Block + size
      BY <1>7, <1>9 DEF Min2
    <2>2. kind # "file" /\ kind # "pax"
      BY <1>12, <1>16 DEF Read!Describe, Descriptors
    <2>3. at' = at + Span(size) /\ status' = status /\ given' = given
      BY <1>6, <1>9, <1>16, SameFormat DEF Read!Describe
    <2>4. /\ kind = "longname" =>
                desc' = [desc EXCEPT !.long = [from |-> at + Block, to |-> at + Block + size]]
          /\ kind = "longlink" =>
                desc' = [desc EXCEPT !.link = [from |-> at + Block, to |-> at + Block + size]]
      BY <1>3, <1>4, <1>5, <1>6, <1>16, <2>1, <2>2, SameFormat DEF Read!Describe
    <2> QED
      BY <2>2, <2>3, <2>4
  <1>17. CASE Read!Give
    <2>1. kind = "file"
      BY <1>12, <1>17 DEF Read!Give, Descriptors
    <2>2. /\ at' = at + Span(size) /\ status' = status /\ desc' = SaidOf(None, None)
          /\ given' = Append(given, Read!Member(size))
      BY <1>6, <1>9, <1>17, SameFormat DEF Read!Give
    <2>3. Read!Member(size) = EntryOf(size)
      BY <1>2, <1>5 DEF Read!Member, EntryOf
    <2> QED
      BY <2>1, <2>2, <2>3
  <1> QED
    BY <1>13, <1>14, <1>15, <1>16, <1>17 DEF Reader

\* At a block of zeros it goes on or stops.
LEMMA AtZeros ==
  ASSUME obj \in Seq(ByteType), arch = Archive, desc = SaidOf(None, None),
         at \in Nat, at % Block = 0, at + Block <= Len(obj), zeros \in BOOLEAN,
         \A j \in 1 .. Block : obj[at + j].of = Blank,
         Reader
  PROVE  /\ given' = given /\ desc' = desc
         /\ zeros = TRUE => at' = at + Block /\ status' = status
         /\ zeros = FALSE => status' = "end"
  <1>1. BlockAt(Archive, at).zero = TRUE /\ Archive.len = Len(obj)
    BY ZerosFound DEF Archive
  <1>2. Read!Here.zero = TRUE
    BY <1>1, SameFormat DEF Read!Here
  <1>3. ~Read!Sound
    BY <1>2 DEF Read!Sound
  <1>4. ~Read!Describe /\ ~Read!Give /\ ~Read!Reject
    BY <1>1, <1>2, <1>3 DEF Read!Describe, Read!Give, Read!Reject
  <1>5. CASE Read!SkipZeros
    BY <1>5 DEF Read!SkipZeros
  <1>6. CASE Read!Stop
    <2>1. at # Len(obj)
      OBVIOUS
    <2> QED
      BY <1>1, <1>6, <2>1, SameFormat DEF Read!Stop
  <1> QED
    BY <1>4, <1>5, <1>6 DEF Reader

\* At the end of the archive it stops.
LEMMA AtEnd ==
  ASSUME obj \in Seq(ByteType), arch = Archive, desc = SaidOf(None, None), at = Len(obj), Reader
  PROVE  status' = "end" /\ given' = given
  <1>1. Archive.len = Len(obj) /\ ~(at + Block <= Len(obj))
    BY DEF Archive
  <1>2. ~Read!Sound
    BY <1>1 DEF Read!Sound
  <1>3. ~Read!Describe /\ ~Read!Give /\ ~Read!Reject /\ ~Read!SkipZeros
    BY <1>1, <1>2 DEF Read!Describe, Read!Give, Read!Reject, Read!SkipZeros
  <1>4. Read!Stop
    BY <1>3 DEF Reader
  <1> QED
    BY <1>1, <1>4, SameFormat DEF Read!Stop

-----------------------------------------------------------------------------
(***************************************************************************)
(* What it is given                                                        *)
(***************************************************************************)

\* A name is read back from where it was put.
LEMMA NameFound ==
  ASSUME obj \in Seq(ByteType), NEW kind \in Kinds, NEW name \in NameType,
         NEW from \in Nat, NEW to, name.fits \/ LongAt(obj, kind, name, from, to)
  PROVE  Goes(LongRun(name, from), StoredName(name), name)
  <1>1. CASE name.fits
    BY <1>1 DEF Goes, LongRun, StoredName
  <1>2. CASE ~name.fits
    <2> DEFINE n == name.len + 1
               text == LongText(name)
               run == [from |-> from + Block, to |-> from + Block + n]
    <2>1. /\ n \in Nat /\ name.len \in Nat /\ text \in Seq(ByteType) /\ Len(text) = n
          /\ \A j \in 1 .. name.len : text[j] = Bytes(TextOf(name), name.len)[j]
          /\ text[n].of = Blank
      BY LongParts DEF NameType
    <2>2. Stands(obj, from + Block, text)
      BY <1>2 DEF LongAt
    <2>3. LongRun(name, from) = run /\ run.from = from + Block /\ run.to = from + Block + n
      BY <1>2 DEF LongRun
    <2>4. run \in [from : Nat, to : Nat]
      BY <2>1
    <2> HIDE DEF n, text, run
    <2>5. run # None
      BY <2>4, AbsentAssumption
    <2>6. RunBytes(run) = text
      <3>1. from + Block \in Nat
        OBVIOUS
      <3>2. SubSeq(obj, from + Block + 1, from + Block + Len(text)) = text
        BY <2>1, <2>2, <3>1, CutOut
      <3> QED
        BY <2>1, <2>3, <3>2 DEF RunBytes
    <2>7. text # <<>> /\ Last(text).of = Blank
      BY <2>1 DEF Last, n
    <2>8. Front(text) = Bytes(TextOf(name), name.len)
      <3> DEFINE b == Bytes(TextOf(name), name.len)
      <3>1. Front(text) = SubSeq(text, 1, name.len) /\ name.len <= Len(text)
        BY <2>1 DEF Front, n
      <3>2. TextOf(name) \in TagType
        BY DEF TextOf, TagType
      <3>3. b \in Seq(ByteType) /\ Len(b) = name.len
        BY <2>1, <3>2, BytesOf
      <3>4. \A j \in 1 .. name.len : text[j] = b[j]
        BY <2>1
      <3> HIDE DEF b
      <3>5. /\ SubSeq(text, 1, name.len) \in Seq(ByteType)
            /\ Len(SubSeq(text, 1, name.len)) = name.len
            /\ \A j \in 1 .. name.len : SubSeq(text, 1, name.len)[j] = b[j]
        BY <2>1, <3>1, <3>4
      <3>6. SubSeq(text, 1, name.len) = b
        BY <3>3, <3>5
      <3> QED
        BY <3>1, <3>6 DEF b
    <2>9. Unterminated(text) = Bytes(TextOf(name), name.len)
      BY <2>7, <2>8 DEF Unterminated
    <2> QED
      BY <2>3, <2>5, <2>6, <2>9 DEF Goes
  <1> QED
    BY <1>1, <1>2

\* The entry behind its descriptors is what was asked for.
LEMMA EntryMatches ==
  ASSUME AsNamed, obj \in Seq(ByteType), NEW i \in Nat, log[i].req \in Requests,
         NEW from \in Nat, NEW x \in Nat, NEW y \in Nat, y % Block = 0, NEW to,
         PathAt(obj, log[i].req, from, x), LinkAt(obj, log[i].req, x, y),
         MemberAt(obj, log[i].req, i, y, to),
         NEW e, e.hpos = y, e.fpos = y + Block, e.size = log[i].req.size,
         e.long = LongRun(ArName(log[i].req), from), e.link = LinkRun(log[i].req.link, x)
  PROVE  Matches(e, i)
  <1>1. PICK r \in Requests : r = log[i].req
    OBVIOUS
  <1>2. /\ ArName(r) \in NameType /\ r.link \in NameType \cup {None}
        /\ HeadFor(r) \in HeadType /\ r.size \in Nat
    BY NamesOf, MemberParts
  <1>3. ArName(r) = r.name
    BY DEF ArName, AsNamed
  <1>4. HeaderAt(e) = HeadFor(r)
    <2>1. Stands(obj, y, Bytes(HeadFor(r), Block))
      BY <1>1 DEF MemberAt
    <2>2. obj[y + 1].of = HeadFor(r)
      BY <1>2, <2>1, HeaderFound
    <2> QED
      BY <2>2 DEF HeaderAt
  <1>5. HeadFor(r).name = StoredName(ArName(r)) /\ HeadFor(r).link = StoredLink(r.link)
    BY DEF HeadFor, HeaderOf
  <1>6. NamedAs(e, r)
    <2>1. ArName(r).fits \/ LongAt(obj, "longname", ArName(r), from, x)
      BY <1>1 DEF PathAt
    <2>2. Goes(LongRun(ArName(r), from), StoredName(ArName(r)), ArName(r))
      BY <1>2, <2>1, NameFound DEF Kinds
    <2> QED
      BY <1>1, <1>3, <1>4, <1>5, <2>2 DEF NamedAs
  <1>7. LinksTo(e, r)
    <2>1. CASE r.link = None
      BY <1>1, <1>4, <1>5, <2>1 DEF LinksTo, LinkRun, StoredLink
    <2>2. CASE r.link # None
      <3>1. r.link.fits \/ LongAt(obj, "longlink", r.link, x, y)
        BY <1>1, <2>2 DEF LinkAt
      <3>2. Goes(LongRun(r.link, x), StoredName(r.link), r.link)
        BY <1>2, <2>2, <3>1, NameFound DEF Kinds
      <3> QED
        BY <1>1, <1>4, <1>5, <2>2, <3>2 DEF LinksTo, LinkRun, StoredLink
    <2> QED
      BY <2>1, <2>2
  <1>8. Contents(e) = Bytes(DataOf(i), r.size)
    <2> DEFINE d == Bytes(DataOf(i), r.size)
    <2>1. d \in Seq(ByteType) /\ Len(d) = r.size /\ Stands(obj, y + Block, d)
      BY <1>1, MemberParts DEF MemberAt
    <2>2. y + Block \in Nat
      OBVIOUS
    <2> HIDE DEF d
    <2>3. SubSeq(obj, y + Block + 1, y + Block + Len(d)) = d
      BY <2>1, <2>2, CutOut
    <2> QED
      BY <1>1, <2>1, <2>3 DEF Contents, d
  <1> QED
    BY <1>1, <1>6, <1>7, <1>8 DEF Matches

-----------------------------------------------------------------------------
(***************************************************************************)
(* The place of a call among the entries                                   *)
(***************************************************************************)

LEMMA VisibleFinite ==
  ASSUME NEW k \in Nat
  PROVE  IsFiniteSet(Visible(k)) /\ Cardinality(Visible(k)) \in Nat
  <1>1. IsFiniteSet(1 .. k)
    BY FS_Interval
  <1>2. Visible(k) \subseteq 1 .. k
    BY DEF Visible
  <1> QED
    BY <1>1, <1>2, FS_Subset, FS_CardinalityType

\* An append comes after those before it.
LEMMA VisibleNext ==
  ASSUME NEW c \in Nat, ~Ends(c + 1), zeros = TRUE \/ \A i \in 1 .. c : ~Ends(i)
  PROVE  /\ Visible(c + 1) = Visible(c) \cup {c + 1}
         /\ Cardinality(Visible(c + 1)) = Cardinality(Visible(c)) + 1
  <1>1. Shown(c + 1)
    <2>1. \A j \in 1 .. c + 1 : j \in 1 .. c \/ j = c + 1
      OBVIOUS
    <2> QED
      BY <2>1 DEF Shown
  <1>2. Visible(c + 1) = Visible(c) \cup {c + 1}
    <2>1. 1 .. c + 1 = (1 .. c) \cup {c + 1}
      OBVIOUS
    <2> QED
      BY <1>1, <2>1 DEF Visible
  <1>3. c + 1 \notin Visible(c)
    BY DEF Visible
  <1> QED
    BY <1>2, <1>3, VisibleFinite, FS_AddElement

\* The end of the archive is no entry, ...
LEMMA VisibleEnd ==
  ASSUME NEW c \in Nat, Ends(c + 1)
  PROVE  Visible(c + 1) = Visible(c)
  <1>1. ~Shown(c + 1)
    BY DEF Shown
  <1>2. 1 .. c + 1 = (1 .. c) \cup {c + 1}
    OBVIOUS
  <1> QED
    BY <1>1, <1>2 DEF Visible

\* ... and a reader that stops there sees nothing of what follows.
LEMMA VisibleRest ==
  ASSUME NEW k \in Nat, NEW c \in 0 .. k - 1, Ends(c + 1), zeros = FALSE
  PROVE  Visible(k) = Visible(c)
  <1>1. ASSUME NEW i \in 1 .. k, i > c PROVE ~Shown(i)
    <2>1. c + 1 \in 1 .. i
      BY <1>1
    <2> QED
      BY <2>1 DEF Shown
  <1>2. \A i \in 1 .. k : i \in 1 .. c \/ i > c
    OBVIOUS
  <1>3. \A i \in 1 .. c : i \in 1 .. k
    OBVIOUS
  <1> QED
    BY <1>1, <1>2, <1>3 DEF Visible

-----------------------------------------------------------------------------
(***************************************************************************)
(* The invariant of the reader is kept                                     *)
(***************************************************************************)

\* The reader has opened a complete archive; S is what its entries are in.
Ready(S) ==
  /\ TypeOK /\ Quiet /\ holder # "builder" /\ Len(obj) <= U64Max
  /\ zeros \in BOOLEAN /\ arch = Archive /\ given \in Seq(S)

\* It takes a step.
Takes == status = "none" /\ Reader /\ UNCHANGED <<vars, zeros, arch>>

LEMMA GivenGrows ==
  ASSUME Reader
  PROVE  given' = given \/ \E e : given' = Append(given, e)
  BY DEF Reader, Read!SkipZeros, Read!Describe, Read!Give, Read!Stop, Read!Reject

LEMMA ToldKeeps ==
  ASSUME NEW S, Ready(S), NEW c \in Nat, Told(c), UNCHANGED <<obj, log, zeros>>,
         given' = given \/ \E e : given' = Append(given, e)
  PROVE  /\ Told(c)' /\ Len(given') >= Len(given) /\ Len(given') \in Nat
         /\ Visible(c)' = Visible(c) /\ \E T : given' \in Seq(T)
  <1>1. given \in Seq(S)
    BY DEF Ready
  <1>2. PICK T : given \in Seq(T) /\ given' \in Seq(T)
    <2>1. CASE given' = given
      BY <1>1, <2>1
    <2>2. CASE \E e : given' = Append(given, e)
      <3>1. PICK e : given' = Append(given, e)
        BY <2>2
      <3>2. given \in Seq(S \cup {e}) /\ e \in S \cup {e}
        BY <1>1
      <3>3. given' \in Seq(S \cup {e})
        BY <3>1, <3>2
      <3> QED
        BY <3>2, <3>3
    <2> QED
      BY <2>1, <2>2
  <1>3. /\ Len(given') >= Len(given) /\ Len(given') \in Nat
        /\ \A n \in DOMAIN given : n \in DOMAIN given' /\ given'[n] = given[n]
    BY <1>2
  <1>4. ASSUME NEW i PROVE Visible(i)' = Visible(i)
    BY DEF Visible, Shown, Ends
  <1>5. ASSUME NEW e, NEW i PROVE Matches(e, i)' = Matches(e, i)
    BY DEF Matches, NamedAs, LinksTo, Goes, HeaderAt, RunBytes, Contents
  <1>6. ASSUME NEW i \in Visible(c)
        PROVE  /\ Cardinality(Visible(i)') \in DOMAIN given'
               /\ Matches(given[Cardinality(Visible(i))], i)'
    <2> DEFINE n == Cardinality(Visible(i))
    <2>1. n \in DOMAIN given /\ Matches(given[n], i)
      BY DEF Told
    <2>2. Cardinality(Visible(i)') = n
      BY <1>4
    <2>3. PICK m : m = n
      OBVIOUS
    <2>4. PICK e : e = given[m]
      OBVIOUS
    <2>5. given'[m] = e
      BY <1>3, <2>1, <2>3, <2>4
    <2>6. Matches(e, i)'
      BY <1>5, <2>1, <2>3, <2>4
    <2>7. Matches(given[m], i)'
      BY <2>5, <2>6 DEF Matches, NamedAs, LinksTo, HeaderAt, Contents
    <2>8. n' = m
      BY <2>2, <2>3
    <2> QED
      BY <1>3, <2>1, <2>2, <2>3, <2>7, <2>8
  <1>7. Told(c)'
    BY <1>4, <1>6 DEF Told
  <1> QED
    BY <1>2, <1>3, <1>4, <1>7

\* Once it has been through the calls that were honest it may do anything.
LEMMA OverKeeps ==
  ASSUME NEW S, Ready(S), Takes, NEW k \in Nat, k # Len(log),
         Told(k), Len(given) >= Cardinality(Visible(k))
  PROVE  Over(k)'
  <1>1. UNCHANGED <<obj, log, zeros>>
    BY DEF Takes, vars
  <1>2. Told(k)' /\ Len(given') >= Len(given) /\ Len(given') \in Nat /\ Visible(k)' = Visible(k)
    BY <1>1, GivenGrows, ToldKeeps DEF Takes
  <1>3. Len(given) \in Nat /\ Cardinality(Visible(k)) \in Nat
    BY VisibleFinite DEF Ready
  <1>4. Len(given') >= Cardinality(Visible(k))
    BY <1>2, <1>3
  <1> QED
    BY <1>1, <1>2, <1>4 DEF Over

\* It comes to the end of an archive in which all calls were honest.
LEMMA EndsProperly ==
  ASSUME NEW S, Ready(S), Takes, NEW k \in Nat, NEW P \in [0 .. k -> Nat], Built(P, k),
         k = Len(log), Underway(P, k, k), at = P[k], desc = SaidOf(None, None)
  PROVE  Over(k)'
  <1>1. UNCHANGED <<obj, log, zeros>>
    BY DEF Takes, vars
  <1>2. at = Len(obj)
    BY DEF Ready, Quiet, Built, Current
  <1>3. status' = "end" /\ given' = given
    BY <1>2, AtEnd DEF Ready, Takes, TypeOK
  <1>4. Told(k) /\ Len(given) = Cardinality(Visible(k))
    BY DEF Underway
  <1>5. Told(k)' /\ Visible(k)' = Visible(k)
    BY <1>1, <1>3, <1>4, ToldKeeps
  <1>6. Len(given') = Cardinality(Visible(k)') /\ Len(given') >= Cardinality(Visible(k)')
    <2>1. Cardinality(Visible(k)) \in Nat
      BY VisibleFinite
    <2> QED
      BY <1>3, <1>4, <1>5, <2>1
  <1> QED
    BY <1>3, <1>5, <1>6 DEF Over

LEMMA AddBlock ==
  ASSUME NEW p \in Nat, p % Block = 0
  PROVE  p + Block \in Nat /\ (p + Block) % Block = 0
  <1>1. Block = Block * 1 /\ 1 \in Int /\ Block \in Int
    OBVIOUS
  <1>2. Block % Block = 0
    BY <1>1, Multiple
  <1>3. p \in Int /\ p + Block \in Nat
    OBVIOUS
  <1>4. (p + Block) % Block = 0
    BY <1>1, <1>2, <1>3, SumOfMultiples
  <1> QED
    BY <1>3, <1>4

LEMMA AddSpan ==
  ASSUME NEW p \in Nat, p % Block = 0, NEW n \in Nat
  PROVE  p + Span(n) \in Nat /\ (p + Span(n)) % Block = 0
  <1>1. Span(n) \in Nat /\ Span(n) \in Int /\ p \in Int /\ Span(n) % Block = 0
    BY SpanIs
  <1>2. p + Span(n) \in Nat
    BY <1>1
  <1> QED
    BY <1>1, <1>2, SumOfMultiples

\* At the blocks of zeros that a finished archive ends with.
LEMMA PassesEnd ==
  ASSUME NEW S, Ready(S), Takes, NEW k \in Nat, NEW P \in [0 .. k -> Nat], Built(P, k),
         NEW c \in 0 .. k - 1, Ends(c + 1), Underway(P, k, c), desc = SaidOf(None, None),
         at = P[c] \/ (at = P[c] + Block /\ zeros = TRUE)
  PROVE  Reads(P, k)'
  <1>1. UNCHANGED <<obj, log, zeros>>
    BY DEF Takes, vars
  <1>2. /\ obj \in Seq(ByteType) /\ arch = Archive /\ zeros \in BOOLEAN
        /\ at \in Nat /\ at % Block = 0 /\ status = "none"
        /\ Told(c) /\ Len(given) = Cardinality(Visible(c))
        /\ (zeros = TRUE \/ \A i \in 1 .. c : ~Ends(i))
    BY DEF Ready, TypeOK, Underway
  <1>3. /\ P[c + 1] = P[c] + 2 * Block /\ P[c + 1] <= Len(obj) /\ P[c] \in Nat
        /\ \A j \in 1 .. 2 * Block : obj[P[c] + j].of = Blank
    <2>1. c + 1 \in 1 .. k /\ c = c + 1 - 1
      OBVIOUS
    <2>2. CallAt(obj, log[c + 1].req, c + 1, P[c], P[c + 1])
      BY <2>1 DEF Built, Layout
    <2>3. EndAt(obj, P[c], P[c + 1])
      BY <2>2, AppendIsNoEnd DEF CallAt, Ends
    <2> QED
      BY <2>3 DEF EndAt
  <1>4. /\ at + Block <= Len(obj)
        /\ \A j \in 1 .. Block : obj[at + j].of = Blank
    <2>1. CASE at = P[c]
      BY <1>2, <1>3, <2>1
    <2>2. CASE at = P[c] + Block
      <3>1. at + Block <= Len(obj)
        BY <1>2, <1>3, <2>2
      <3>2. ASSUME NEW j \in 1 .. Block PROVE obj[at + j].of = Blank
        <4>1. Block + j \in 1 .. 2 * Block /\ at + j = P[c] + (Block + j)
          BY <1>3, <2>2
        <4> QED
          BY <1>3, <4>1
      <3> QED
        BY <3>1, <3>2
    <2> QED
      BY <2>1, <2>2
  <1>5. /\ given' = given /\ desc' = desc
        /\ zeros = TRUE => at' = at + Block /\ status' = status
        /\ zeros = FALSE => status' = "end"
    BY <1>2, <1>4, AtZeros DEF Takes
  <1>6. Told(c)' /\ Visible(c)' = Visible(c)
    BY <1>1, <1>2, <1>5, ToldKeeps
  <1>7. Cardinality(Visible(c)) \in Nat
    BY VisibleFinite
  <1>8. CASE zeros = FALSE
    <2>1. Visible(k) = Visible(c)
      BY <1>8, VisibleRest
    <2>2. Told(k)
      BY <1>2, <2>1 DEF Told
    <2>3. Told(k)' /\ Visible(k)' = Visible(k)
      BY <1>1, <1>5, <2>2, ToldKeeps
    <2>4. Len(given') = Cardinality(Visible(k)') /\ Len(given') >= Cardinality(Visible(k)')
      BY <1>2, <1>5, <1>7, <2>1, <2>3
    <2>5. Over(k)'
      BY <1>5, <1>8, <2>3, <2>4 DEF Over
    <2> QED
      BY <2>5 DEF Reads
  <1>9. CASE zeros = TRUE
    <2>1. zeros' = TRUE /\ status' = "none" /\ desc' = SaidOf(None, None) /\ at' = at + Block
      BY <1>1, <1>2, <1>5, <1>9
    <2>2. at' \in Nat /\ at' % Block = 0
      BY <1>2, <2>1, AddBlock
    <2>3. CASE at = P[c]
      <3>1. at' = P[c] + Block /\ Ends(c + 1)' /\ c < k
        BY <1>1, <2>1, <2>3 DEF Ends
      <3>2. Len(given') = Cardinality(Visible(c)')
        BY <1>2, <1>5, <1>6
      <3>3. Underway(P, k, c)'
        BY <1>6, <2>1, <2>2, <3>1, <3>2 DEF Underway
      <3> QED
        BY <3>3 DEF Reads
    <2>4. CASE at = P[c] + Block
      <3>1. at' = P[c + 1]
        BY <1>3, <2>1, <2>4
      <3>2. Visible(c + 1) = Visible(c) /\ c + 1 \in 0 .. k /\ c + 1 \in Nat
        BY VisibleEnd
      <3>3. Told(c + 1)
        BY <1>2, <3>2 DEF Told
      <3>4. Told(c + 1)' /\ Visible(c + 1)' = Visible(c + 1)
        BY <1>1, <1>5, <3>2, <3>3, ToldKeeps
      <3>5. Len(given') = Cardinality(Visible(c + 1)')
        BY <1>2, <1>5, <3>2, <3>4
      <3>6. Underway(P, k, c + 1)'
        BY <2>1, <2>2, <3>1, <3>4, <3>5 DEF Underway
      <3> QED
        BY <3>2, <3>6 DEF Reads
    <2> QED
      BY <2>3, <2>4
  <1> QED
    BY <1>2, <1>8, <1>9

\* An append begins with the first of its headers.
LEMMA AppendBegins ==
  ASSUME NEW S, Ready(S), NEW k \in Nat, NEW P \in [0 .. k -> Nat], Built(P, k),
         NEW c \in 0 .. k - 1, ~Ends(c + 1), at = P[c], desc = SaidOf(None, None)
  PROVE  Within(P, c)
  <1>1. c + 1 \in 1 .. k /\ c = c + 1 - 1
    OBVIOUS
  <1>2. CallAt(obj, log[c + 1].req, c + 1, P[c], P[c + 1])
    BY <1>1 DEF Built, Layout
  <1>3. AppendAt(obj, log[c + 1].req, c + 1, P[c], P[c + 1])
    BY <1>2 DEF CallAt, Ends
  <1> QED
    BY <1>3 DEF AppendAt, Within

\* A longname or longlink member is noted.
LEMMA TakesLong ==
  ASSUME NEW S, Ready(S), Takes, at \in Nat, at % Block = 0, desc.pax = None,
         NEW kind \in {"longname", "longlink"}, NEW name \in NameType, ~name.fits,
         NEW to, LongAt(obj, kind, name, at, to)
  PROVE  /\ at' = to /\ to \in Nat /\ to % Block = 0 /\ status' = status /\ given' = given
         /\ kind = "longname" => desc' = [desc EXCEPT !.long = LongRun(name, at)]
         /\ kind = "longlink" => desc' = [desc EXCEPT !.link = LongRun(name, at)]
  <1> DEFINE n == name.len + 1
  <1>1. n \in Nat
    BY DEF NameType
  <1> HIDE DEF n
  <1>2. /\ Stands(obj, at, Bytes(HeaderOf(kind, n, name, None), Block))
        /\ to = at + Span(n) /\ to <= Len(obj)
    BY DEF LongAt, LongHead, n
  <1>3. LongRun(name, at) = [from |-> at + Block, to |-> at + Block + n]
    BY DEF LongRun, n
  <1>4. kind \in {"file", "longname", "longlink"} /\ None \in NameType \cup {None}
    OBVIOUS
  <1>5. obj \in Seq(ByteType) /\ arch = Archive /\ Len(obj) <= U64Max /\ Reader
    BY DEF Ready, Takes, TypeOK
  <1>6. at + Span(n) <= Len(obj)
    BY <1>2
  <1>7. /\ at' = at + Span(n) /\ status' = status
        /\ LET run == [from |-> at + Block, to |-> at + Block + n]
           IN  /\ kind = "longname" =>
                    desc' = [desc EXCEPT !.long = run] /\ given' = given
               /\ kind = "longlink" =>
                    desc' = [desc EXCEPT !.link = run] /\ given' = given
    BY <1>1, <1>2, <1>4, <1>5, <1>6, AtHeader
  <1>8. to \in Nat /\ to % Block = 0
    BY <1>1, <1>2, AddSpan
  <1>9. given' = given
    BY <1>7
  <1>10. at' = to /\ status' = status
    BY <1>2, <1>7, Zenon
  <1> QED
    BY <1>3, <1>7, <1>8, <1>9, <1>10, Zenon

\* The entry of an append is given where its turn is.
LEMMA ToldNext ==
  ASSUME NEW S, Ready(S), NEW c \in Nat, Told(c), Len(given) = Cardinality(Visible(c)),
         ~Ends(c + 1), zeros = TRUE \/ \A i \in 1 .. c : ~Ends(i),
         UNCHANGED <<obj, log, zeros>>,
         NEW e, Matches(e, c + 1), given' = Append(given, e)
  PROVE  Told(c + 1)' /\ Len(given') = Cardinality(Visible(c + 1)')
  <1>1. /\ Visible(c + 1) = Visible(c) \cup {c + 1}
        /\ Cardinality(Visible(c + 1)) = Cardinality(Visible(c)) + 1
        /\ Cardinality(Visible(c)) \in Nat
    BY VisibleNext, VisibleFinite
  <1>2. given \in Seq(S)
    BY DEF Ready
  <1>3. /\ Len(given') = Len(given) + 1 /\ given'[Len(given) + 1] = e
        /\ DOMAIN given' = 1 .. Len(given) + 1
    <2>1. given \in Seq(S \cup {e}) /\ e \in S \cup {e}
      BY <1>2
    <2> QED
      BY <2>1
  <1>4. ASSUME NEW i PROVE Visible(i)' = Visible(i)
    BY DEF Visible, Shown, Ends
  <1>5. Told(c)'
    <2>1. given' = given \/ \E m : given' = Append(given, m)
      OBVIOUS
    <2> QED
      BY <2>1, ToldKeeps
  <1>6. Len(given') = Cardinality(Visible(c + 1)')
    BY <1>1, <1>3, <1>4
  <1>7. Matches(e, c + 1)'
    BY DEF Matches, NamedAs, LinksTo, Goes, HeaderAt, RunBytes, Contents
  <1>8. PICK m : m = Len(given) + 1
    OBVIOUS
  <1>9. m = Cardinality(Visible(c + 1)') /\ given'[m] = e /\ m \in DOMAIN given'
    BY <1>1, <1>3, <1>6, <1>8
  <1>10. Matches(given[m], c + 1)'
    BY <1>7, <1>9 DEF Matches, NamedAs, LinksTo, HeaderAt, Contents
  <1>11. ASSUME NEW i \in Visible(c + 1)'
         PROVE  /\ Cardinality(Visible(i)') \in DOMAIN given'
                /\ Matches(given[Cardinality(Visible(i))], i)'
    <2>1. CASE i \in Visible(c)
      <3>1. i \in Visible(c)'
        BY <1>4, <2>1
      <3> QED
        BY <1>5, <3>1 DEF Told
    <2>2. CASE i = c + 1
      BY <1>9, <1>10, <2>2
    <2> QED
      BY <1>1, <1>4, <2>1, <2>2
  <1>12. Told(c + 1)'
    BY <1>11 DEF Told
  <1> QED
    BY <1>6, <1>12

LEMMA RequestOf ==
  ASSUME TypeOK, NEW i \in 1 .. Len(log), ~Ends(i)
  PROVE  log[i].req \in Requests
  <1>1. log \in Seq(LogType)
    BY DEF TypeOK, LogType
  <1>2. log[i] \in LogType
    BY <1>1
  <1> QED
    BY <1>2 DEF LogType, CallType, Ends

\* The reader has come to the member of an append, and gives it.
LEMMA GivesMember ==
  ASSUME AsNamed, NEW S, Ready(S), Takes, NEW k \in Nat, NEW P \in [0 .. k -> Nat],
         k <= Len(log), NEW c \in 0 .. k - 1, ~Ends(c + 1), Underway(P, k, c),
         NEW r \in Requests, r = log[c + 1].req, NEW x \in Nat, NEW y \in Nat,
         PathAt(obj, r, P[c], x), LinkAt(obj, r, x, y), MemberAt(obj, r, c + 1, y, P[c + 1]),
         at = y, desc = SaidOf(LongRun(ArName(r), P[c]), LinkRun(r.link, x))
  PROVE  Underway(P, k, c + 1)'
  <1>1. UNCHANGED <<obj, log, zeros>>
    BY DEF Takes, vars
  <1>2. /\ obj \in Seq(ByteType) /\ arch = Archive /\ Len(obj) <= U64Max /\ Reader
        /\ at \in Nat /\ at % Block = 0 /\ status = "none"
        /\ Told(c) /\ Len(given) = Cardinality(Visible(c))
        /\ (zeros = TRUE \/ \A i \in 1 .. c : ~Ends(i))
    BY DEF Ready, TypeOK, Underway, Takes
  <1>3. /\ r.size \in Nat /\ StoredName(ArName(r)) \in NameType
        /\ StoredLink(r.link) \in NameType \cup {None}
    BY NamesOf
  <1>4. /\ Stands(obj, at, Bytes(HeaderOf("file", r.size, StoredName(ArName(r)),
                                          StoredLink(r.link)), Block))
        /\ P[c + 1] = at + Span(r.size) /\ at + Span(r.size) <= Len(obj)
    BY DEF MemberAt, HeadFor
  <1>5. desc.pax = None
    BY DEF SaidOf
  <1>6. /\ at' = at + Span(r.size) /\ status' = status
        /\ desc' = SaidOf(None, None) /\ given' = Append(given, EntryOf(r.size))
    BY <1>2, <1>3, <1>4, <1>5, AtHeader
  <1>7. PICK e : e = EntryOf(r.size)
    OBVIOUS
  <1>8. /\ e.hpos = y /\ e.fpos = y + Block /\ e.size = r.size
        /\ e.long = LongRun(ArName(r), P[c]) /\ e.link = LinkRun(r.link, x)
    BY <1>7 DEF EntryOf, SaidOf
  <1>9. c \in Nat /\ c + 1 \in Nat /\ P[c] \in Nat /\ c + 1 \in 0 .. k
    OBVIOUS
  <1>10. Matches(e, c + 1)
    BY <1>2, <1>8, <1>9, EntryMatches
  <1>11. Told(c + 1)' /\ Len(given') = Cardinality(Visible(c + 1)')
    BY <1>1, <1>2, <1>6, <1>7, <1>9, <1>10, ToldNext
  <1>12. at' \in Nat /\ at' % Block = 0 /\ at' = P[c + 1]
    BY <1>2, <1>3, <1>4, <1>6, AddSpan
  <1>13. zeros' = TRUE \/ \A i \in 1 .. c + 1 : ~Ends(i)'
    <2>1. \A i \in 1 .. c + 1 : i \in 1 .. c \/ i = c + 1
      OBVIOUS
    <2> QED
      BY <1>1, <1>2, <2>1 DEF Ends
  <1> QED
    BY <1>2, <1>6, <1>11, <1>12, <1>13 DEF Underway

\* The reader is at one of the headers of an append.
LEMMA StaysWithin ==
  ASSUME NEW S, Ready(S), Takes, NEW k \in Nat, NEW P \in [0 .. k -> Nat],
         NEW c \in 0 .. k - 1, ~Ends(c + 1), Underway(P, k, c), Within(P, c)',
         status' = status, given' = given, at' \in Nat, at' % Block = 0
  PROVE  Reads(P, k)'
  <1>1. UNCHANGED <<obj, log, zeros>>
    BY DEF Takes, vars
  <1>2. /\ status = "none" /\ Told(c) /\ Len(given) = Cardinality(Visible(c))
        /\ (zeros = TRUE \/ \A i \in 1 .. c : ~Ends(i))
    BY DEF Underway
  <1>3. c \in Nat /\ c \in 0 .. k /\ c < k
    OBVIOUS
  <1>4. Told(c)' /\ Visible(c)' = Visible(c)
    BY <1>1, <1>2, <1>3, ToldKeeps
  <1>5. Len(given') = Cardinality(Visible(c)')
    BY <1>2, <1>4
  <1>6. ~Ends(c + 1)' /\ (zeros' = TRUE \/ \A i \in 1 .. c : ~Ends(i)')
    BY <1>1, <1>2 DEF Ends
  <1>7. Underway(P, k, c)'
    BY <1>2, <1>3, <1>4, <1>5, <1>6 DEF Underway
  <1> QED
    BY <1>3, <1>7 DEF Reads

LEMMA PassesAppend ==
  ASSUME AsNamed, NEW S, Ready(S), Takes, NEW k \in Nat, NEW P \in [0 .. k -> Nat],
         k <= Len(log), NEW c \in 0 .. k - 1, ~Ends(c + 1), Underway(P, k, c), Within(P, c)
  PROVE  Reads(P, k)'
  <1>1. UNCHANGED <<obj, log, zeros>>
    BY DEF Takes, vars
  <1>2. PICK r \in Requests : r = log[c + 1].req
    <2>1. c + 1 \in 1 .. Len(log)
      BY DEF Ready, TypeOK
    <2> QED
      BY <2>1, RequestOf DEF Ready
  <1> DEFINE long == LongRun(ArName(r), P[c])
  <1>3. PICK x \in Nat, y \in Nat :
            /\ PathAt(obj, r, P[c], x) /\ LinkAt(obj, r, x, y)
            /\ MemberAt(obj, r, c + 1, y, P[c + 1])
            /\ \/ at = P[c] /\ desc = SaidOf(None, None)
               \/ at = x /\ desc = SaidOf(long, None)
               \/ at = y /\ desc = SaidOf(long, LinkRun(r.link, x))
    BY <1>2 DEF Within
  <1>4. at \in Nat /\ at % Block = 0
    BY DEF Underway
  <1>5. ArName(r) \in NameType /\ r.link \in NameType \cup {None}
    BY NamesOf
  <1>6. /\ PathAt(obj, r, P[c], x)' /\ LinkAt(obj, r, x, y)'
        /\ MemberAt(obj, r, c + 1, y, P[c + 1])' /\ r = log'[c + 1].req
    BY <1>1, <1>2, <1>3
  <1>7. CASE at = y /\ desc = SaidOf(long, LinkRun(r.link, x))
    <2>1. Underway(P, k, c + 1)'
      BY <1>2, <1>3, <1>7, GivesMember
    <2>2. c + 1 \in 0 .. k
      OBVIOUS
    <2> QED
      BY <2>1, <2>2 DEF Reads
  <1>8. CASE at = x /\ desc = SaidOf(long, None)
    <2>1. CASE r.link = None \/ r.link.fits
      <3>1. y = x /\ LinkRun(r.link, x) = None
        BY <1>3, <2>1 DEF LinkAt, LinkRun, LongRun
      <3> QED
        BY <1>7, <1>8, <3>1
    <2>2. CASE r.link # None /\ ~r.link.fits
      <3>1. LongAt(obj, "longlink", r.link, x, y) /\ desc.pax = None
        BY <1>3, <1>8, <2>2 DEF LinkAt, SaidOf
      <3>2. /\ at' = y /\ y % Block = 0 /\ status' = status /\ given' = given
            /\ desc' = [desc EXCEPT !.link = LongRun(r.link, x)]
        BY <1>4, <1>5, <1>8, <2>2, <3>1, TakesLong
      <3>3. desc' = SaidOf(long, LinkRun(r.link, x))
        BY <1>8, <2>2, <3>2 DEF SaidOf, LinkRun
      <3>4. Within(P, c)'
        BY <1>6, <3>2, <3>3 DEF Within
      <3> QED
        BY <3>2, <3>4, StaysWithin
    <2> QED
      BY <2>1, <2>2
  <1>9. CASE at = P[c] /\ desc = SaidOf(None, None)
    <2>1. CASE ArName(r).fits
      <3>1. x = P[c] /\ long = None
        BY <1>3, <2>1 DEF PathAt, LongRun
      <3> QED
        BY <1>8, <1>9, <3>1
    <2>2. CASE ~ArName(r).fits
      <3>1. LongAt(obj, "longname", ArName(r), P[c], x) /\ desc.pax = None
        BY <1>3, <1>9, <2>2 DEF PathAt, SaidOf
      <3>2. /\ at' = x /\ x % Block = 0 /\ status' = status /\ given' = given
            /\ desc' = [desc EXCEPT !.long = long]
        BY <1>4, <1>5, <1>9, <2>2, <3>1, TakesLong
      <3>3. desc' = SaidOf(long, None)
        BY <1>9, <3>2 DEF SaidOf
      <3>4. Within(P, c)'
        BY <1>6, <3>2, <3>3 DEF Within
      <3> QED
        BY <3>2, <3>4, StaysWithin
    <2> QED
      BY <2>1, <2>2
  <1> QED
    BY <1>3, <1>7, <1>8, <1>9

\* All in all.
LEMMA ReaderStep ==
  ASSUME AsNamed, NEW S, Ready(S), Takes, NEW k \in Nat, NEW P \in [0 .. k -> Nat],
         Built(P, k), Reads(P, k)
  PROVE  Reads(P, k)'
  <1>1. k \in 0 .. Len(log) /\ Len(log) \in Nat
    BY DEF Built, Ready, TypeOK
  <1>2. CASE Over(k)
    <2>1. k # Len(log)
      BY <1>2 DEF Over, Takes
    <2> QED
      BY <1>2, <2>1, OverKeeps DEF Over, Reads
  <1>3. ASSUME NEW c \in 0 .. k, Underway(P, k, c) PROVE Reads(P, k)'
    <2>1. CASE c = k
      <3>1. at = P[k] /\ desc = SaidOf(None, None)
        BY <1>3, <2>1 DEF Underway
      <3>2. Told(k) /\ Len(given) >= Cardinality(Visible(k))
        <4>1. Cardinality(Visible(k)) \in Nat
          BY VisibleFinite
        <4> QED
          BY <1>3, <2>1, <4>1 DEF Underway
      <3>3. CASE k = Len(log)
        BY <1>3, <2>1, <3>1, <3>3, EndsProperly DEF Reads
      <3>4. CASE k # Len(log)
        BY <3>2, <3>4, OverKeeps DEF Reads
      <3> QED
        BY <3>3, <3>4
    <2>2. CASE c # k
      <3>1. c \in 0 .. k - 1 /\ k <= Len(log)
        BY <1>1, <2>2
      <3>2. CASE Ends(c + 1)
        <4>1. \/ at = P[c] /\ desc = SaidOf(None, None)
              \/ zeros = TRUE /\ at = P[c] + Block /\ desc = SaidOf(None, None)
              \/ ~Ends(c + 1)
          BY <1>3 DEF Underway
        <4>2. desc = SaidOf(None, None) /\ (at = P[c] \/ (at = P[c] + Block /\ zeros = TRUE))
          BY <3>2, <4>1
        <4> QED
          BY <1>3, <3>1, <3>2, <4>2, PassesEnd
      <3>3. CASE ~Ends(c + 1)
        <4>1. Within(P, c)
          <5>1. CASE at = P[c] /\ desc = SaidOf(None, None)
            BY <3>1, <3>3, <5>1, AppendBegins
          <5>2. (at = P[c] /\ desc = SaidOf(None, None)) \/ Ends(c + 1) \/ Within(P, c)
            BY <1>3 DEF Underway
          <5> QED
            BY <3>3, <5>1, <5>2
        <4> QED
          BY <1>3, <3>1, <3>3, <4>1, PassesAppend
      <3> QED
        BY <3>2, <3>3
    <2> QED
      BY <2>1, <2>2
  <1> QED
    BY <1>2, <1>3 DEF Reads

-----------------------------------------------------------------------------
(***************************************************************************)
(* The invariant of the whole                                              *)
(***************************************************************************)

IndInv == BuilderInv /\ ReaderInv

LEMMA BuiltStays ==
  ASSUME UNCHANGED vars, NEW k \in Nat, NEW P \in [0 .. k -> Nat], Built(P, k)
  PROVE  Built(P, k)'
  <1>1. UNCHANGED <<obj, todo, stage, req, sent, log>>
    BY DEF vars
  <1>2. ASSUME NEW i PROVE Honest(i)' = Honest(i)
    BY <1>1 DEF Honest, Ends
  <1>3. Layout(P, k)'
    BY <1>1, <1>2 DEF Built, Layout
  <1>4. Current(P[k])' = Current(P[k])
    BY <1>1 DEF Current, ArName
  <1>5. Len(log)' = Len(log)
    BY <1>1
  <1> QED
    BY <1>2, <1>3, <1>4, <1>5 DEF Built

LEMMA BuilderStep ==
  ASSUME AsNamed, BuilderInv, [Next]_vars
  PROVE  BuilderInv'
  <1>1. IInv /\ TypeOK /\ Quiet
    BY DEF BuilderInv, IInv
  <1>2. PICK k \in Nat : \E P \in [0 .. k -> Nat] : Built(P, k)
    BY DEF BuilderInv
  <1>3. PICK P \in [0 .. k -> Nat] : Built(P, k)
    BY <1>2
  <1>4. IInv' /\ Quiet'
    BY <1>1, NextIInv, QuietKeeps
  <1>5. CASE Next
    BY <1>1, <1>3, <1>4, <1>5, BuiltStep DEF BuilderInv
  <1>6. CASE UNCHANGED vars
    <2>1. Built(P, k)'
      BY <1>3, <1>6, BuiltStays
    <2> QED
      BY <1>4, <2>1 DEF BuilderInv
  <1> QED
    BY <1>5, <1>6

\* A builder that is gone does nothing.
LEMMA GoneIsGone ==
  ASSUME Quiet, holder # "builder"
  PROVE  ~Next
  <1>1. stage = "idle" /\ todo = <<>>
    BY DEF Quiet
  <1> QED
    BY <1>1 DEF Next, CallAppend, CallFinish, CallIntoInner, PreparePath, CutPath, PrepareLink,
         WriteMember, WriteSpecial, Write, Interrupted, Return, Idle, At

\* What the reader opens is at its beginning.
LEMMA OpenStep ==
  ASSUME BuilderInv, NotOpen, Open
  PROVE  ReaderInv'
  <1>1. /\ holder # "builder" /\ zeros' \in BOOLEAN /\ arch' = Archive
        /\ UNCHANGED <<vars, at, desc, given, status>>
    BY DEF Open
  <1>2. UNCHANGED <<obj, log, holder>>
    BY <1>1 DEF vars
  <1>3. Opened'
    <2>1. Archive' = Archive
      BY <1>2 DEF Archive, BlockBytes
    <2>2. given' \in Seq({})
      BY <1>1 DEF NotOpen
    <2> QED
      BY <1>1, <1>2, <2>1, <2>2 DEF Opened
  <1>4. PICK k \in Nat : \E P \in [0 .. k -> Nat] : Built(P, k)
    BY DEF BuilderInv
  <1>5. PICK P \in [0 .. k -> Nat] : Built(P, k)
    BY <1>4
  <1>6. Built(P, k)'
    BY <1>1, <1>5, BuiltStays
  <1>7. at' = 0 /\ desc' = SaidOf(None, None) /\ given' = <<>> /\ status' = "none" /\ P[0] = 0
    BY <1>1, <1>5 DEF NotOpen, Built, Layout
  <1>8. Visible(0)' = {}
    BY DEF Visible
  <1>9. Told(0)' /\ Len(given') = Cardinality(Visible(0)')
    BY <1>7, <1>8, FS_EmptySet DEF Told
  <1>10. 0 % Block = 0 /\ 0 \in 0 .. k
    <2>1. 0 = Block * 0
      OBVIOUS
    <2> QED
      BY <2>1, Multiple
  <1>11. Underway(P, k, 0)'
    BY <1>7, <1>9, <1>10 DEF Underway
  <1>12. Reads(P, k)'
    BY <1>10, <1>11 DEF Reads
  <1> QED
    BY <1>3, <1>6, <1>12 DEF ReaderInv

LEMMA TakeStep ==
  ASSUME AsNamed, BuilderInv, Opened, ReaderInv, Takes
  PROVE  ReaderInv'
  <1>1. UNCHANGED <<obj, log, holder, zeros, arch>> /\ UNCHANGED vars
    BY DEF Takes, vars
  <1>2. PICK S : given \in Seq(S)
    BY DEF Opened
  <1>3. zeros \in BOOLEAN /\ arch = Archive /\ holder # "builder"
    BY DEF Opened
  <1>4. \E T : given' \in Seq(T)
    <2>1. CASE given' = given
      BY <1>2, <2>1
    <2>2. CASE \E e : given' = Append(given, e)
      <3>1. PICK e : given' = Append(given, e)
        BY <2>2
      <3>2. given \in Seq(S \cup {e}) /\ e \in S \cup {e}
        BY <1>2
      <3>3. given' \in Seq(S \cup {e})
        BY <3>1, <3>2
      <3> QED
        BY <3>3
    <2> QED
      BY <2>1, <2>2, GivenGrows DEF Takes
  <1>5. Opened'
    <2>1. Archive' = Archive
      BY <1>1 DEF Archive, BlockBytes
    <2> QED
      BY <1>1, <1>3, <1>4, <2>1 DEF Opened
  <1>6. ASSUME Len(obj') <= U64Max
        PROVE  \E k \in Nat : \E P \in [0 .. k -> Nat] : Built(P, k)' /\ Reads(P, k)'
    <2>1. Len(obj) <= U64Max /\ ~NotOpen
      BY <1>1, <1>3, <1>6, AbsentAssumption DEF NotOpen
    <2>2. PICK k \in Nat : \E P \in [0 .. k -> Nat] : Built(P, k) /\ Reads(P, k)
      BY <2>1 DEF ReaderInv
    <2>3. PICK P \in [0 .. k -> Nat] : Built(P, k) /\ Reads(P, k)
      BY <2>2
    <2>4. Ready(S)
      BY <1>2, <1>3, <2>1 DEF Ready, BuilderInv, IInv
    <2>5. Reads(P, k)'
      BY <2>3, <2>4, ReaderStep
    <2>6. Built(P, k)'
      BY <1>1, <2>3, BuiltStays
    <2> QED
      BY <2>5, <2>6
  <1> QED
    BY <1>5, <1>6 DEF ReaderInv

LEMMA ReadsStays ==
  ASSUME UNCHANGED <<vars, walk>>, NEW k \in Nat, NEW P \in [0 .. k -> Nat], Reads(P, k)
  PROVE  Reads(P, k)'
  <1>1. UNCHANGED <<obj, log, zeros, at, desc, given, status>>
    BY DEF vars, walk
  <1>2. ASSUME NEW i PROVE Visible(i)' = Visible(i) /\ Ends(i)' = Ends(i)
    BY <1>1 DEF Visible, Shown, Ends
  <1>3. ASSUME NEW e, NEW i PROVE Matches(e, i)' = Matches(e, i)
    BY <1>1 DEF Matches, NamedAs, LinksTo, Goes, HeaderAt, RunBytes, Contents
  <1>4. ASSUME NEW c, Told(c) PROVE Told(c)'
    <2>1. ASSUME NEW i \in Visible(c)
          PROVE  /\ Cardinality(Visible(i)') \in DOMAIN given'
                 /\ Matches(given[Cardinality(Visible(i))], i)'
      <3>1. PICK e : e = given[Cardinality(Visible(i))]
        OBVIOUS
      <3>2. Cardinality(Visible(i)) \in DOMAIN given /\ Matches(e, i)
        BY <1>4, <3>1 DEF Told
      <3>3. e = given[Cardinality(Visible(i))]'
        BY <1>1, <1>2, <3>1
      <3>4. Matches(e, i)'
        BY <1>3, <3>2
      <3>5. Matches(given[Cardinality(Visible(i))], i)'
        BY <3>3, <3>4 DEF Matches, NamedAs, LinksTo, HeaderAt, Contents
      <3> QED
        BY <1>1, <1>2, <3>2, <3>5
    <2> QED
      BY <1>2, <2>1 DEF Told
  <1>5. CASE Over(k)
    <2>1. Told(k)'
      BY <1>4, <1>5 DEF Over
    <2> QED
      BY <1>1, <1>2, <1>5, <2>1 DEF Over, Reads
  <1>6. ASSUME NEW c \in 0 .. k, Underway(P, k, c) PROVE Underway(P, k, c)'
    <2>1. Told(c)'
      BY <1>4, <1>6 DEF Underway
    <2>2. Within(P, c)' = Within(P, c)
      BY <1>1 DEF Within
    <2> QED
      BY <1>1, <1>2, <1>6, <2>1, <2>2 DEF Underway
  <1> QED
    BY <1>5, <1>6 DEF Reads

LEMMA InitIndInv == RoundTripInit => IndInv
  <1> SUFFICES ASSUME RoundTripInit PROVE IndInv
    OBVIOUS
  <1>1. Init /\ zeros = None /\ Read!Init
    BY DEF RoundTripInit
  <1>2. BuilderInv
    BY <1>1, InitIInv, InitBuilt DEF BuilderInv
  <1>3. NotOpen
    BY <1>1, SameFormat DEF Read!Init, NotOpen
  <1> QED
    BY <1>2, <1>3 DEF IndInv, ReaderInv

LEMMA NextIndInv ==
  ASSUME AsNamed, IndInv, [RoundTripNext]_<<vars, walk>>
  PROVE  IndInv'
  <1>1. BuilderInv /\ ReaderInv
    BY DEF IndInv
  <1>2. CASE Build
    <2>1. Next /\ UNCHANGED walk
      BY <1>2 DEF Build
    <2>2. BuilderInv'
      BY <1>1, <2>1, BuilderStep
    <2>3. NotOpen
      BY <1>1, <2>1, GoneIsGone DEF ReaderInv, Opened, BuilderInv
    <2>4. NotOpen'
      BY <2>1, <2>3 DEF NotOpen, walk
    <2> QED
      BY <2>2, <2>4 DEF IndInv, ReaderInv
  <1>3. CASE Open
    <2>1. UNCHANGED vars /\ zeros = None
      BY <1>3 DEF Open
    <2>2. BuilderInv'
      BY <1>1, <2>1, BuilderStep
    <2>3. NotOpen
      BY <1>1, <2>1, AbsentAssumption DEF ReaderInv, Opened
    <2> QED
      BY <1>1, <1>3, <2>2, <2>3, OpenStep DEF IndInv
  <1>4. CASE \/ ReadStep(Read!SkipZeros) \/ ReadStep(Read!Describe) \/ ReadStep(Read!Give)
             \/ ReadStep(Read!Stop) \/ ReadStep(Read!Reject)
    <2>1. Takes /\ zeros # None
      BY <1>4 DEF ReadStep, Read!Walk, Takes, Reader
    <2>2. BuilderInv'
      BY <1>1, <2>1, BuilderStep DEF Takes
    <2>3. Opened
      BY <1>1, <2>1 DEF ReaderInv, NotOpen
    <2> QED
      BY <1>1, <2>1, <2>2, <2>3, TakeStep DEF IndInv
  <1>5. CASE UNCHANGED <<vars, walk>>
    <2>1. BuilderInv'
      BY <1>1, <1>5, BuilderStep
    <2>2. UNCHANGED vars /\ UNCHANGED <<zeros, arch, at, desc, given, status>>
      BY <1>5 DEF walk
    <2>3. CASE NotOpen
      <3>1. NotOpen'
        BY <2>2, <2>3 DEF NotOpen
      <3> QED
        BY <2>1, <3>1 DEF IndInv, ReaderInv
    <2>4. CASE Opened /\ ReaderInv
      <3>1. ReaderInv'
        <4>1. UNCHANGED <<obj, holder>>
          BY <2>2 DEF vars
        <4>2. Opened'
          <5>1. Archive' = Archive
            BY <4>1 DEF Archive, BlockBytes
          <5> QED
            BY <2>2, <2>4, <4>1, <5>1 DEF Opened
        <4>3. ASSUME Len(obj') <= U64Max, ~NotOpen
              PROVE  \E k \in Nat : \E P \in [0 .. k -> Nat] : Built(P, k)' /\ Reads(P, k)'
          <5>1. PICK k \in Nat : \E P \in [0 .. k -> Nat] : Built(P, k) /\ Reads(P, k)
            BY <2>4, <4>1, <4>3 DEF ReaderInv
          <5>2. PICK P \in [0 .. k -> Nat] : Built(P, k) /\ Reads(P, k)
            BY <5>1
          <5>3. Built(P, k)'
            BY <2>2, <5>2, BuiltStays
          <5>4. Reads(P, k)'
            BY <1>5, <5>2, ReadsStays
          <5> QED
            BY <5>3, <5>4
        <4>4. CASE NotOpen
          <5>1. NotOpen'
            BY <2>2, <4>4 DEF NotOpen
          <5> QED
            BY <5>1 DEF ReaderInv
        <4> QED
          BY <4>2, <4>3, <4>4 DEF ReaderInv
      <3> QED
        BY <2>1, <3>1 DEF IndInv
    <2> QED
      BY <1>1, <2>3, <2>4 DEF ReaderInv
  <1> QED
    BY <1>2, <1>3, <1>4, <1>5 DEF RoundTripNext

LEMMA Invariance == ASSUME AsNamed PROVE RoundTripSpec => []IndInv
  <1>1. IndInv /\ [RoundTripNext]_<<vars, walk>> => IndInv'
    BY NextIndInv
  <1> QED
    BY <1>1, InitIndInv, PTL DEF RoundTripSpec

-----------------------------------------------------------------------------
\* There is one number of calls before the first that was not honest.
LEMMA HonestCallsIs ==
  ASSUME TypeOK, NEW k \in Nat, NEW P \in [0 .. k -> Nat], Built(P, k)
  PROVE  HonestCalls = k
  <1> DEFINE First(m) == /\ \A i \in 1 .. m : Honest(i)
                         /\ m < Len(log) => ~Honest(m + 1)
  <1>1. Len(log) \in Nat
    BY DEF TypeOK
  <1>2. k \in 0 .. Len(log) /\ First(k)
    BY DEF Built, Layout
  <1>3. ASSUME NEW m \in 0 .. Len(log), First(m) PROVE m = k
    <2>1. CASE m < k
      <3>1. m + 1 \in 1 .. k /\ m < Len(log)
        BY <1>1, <1>2, <2>1
      <3> QED
        BY <1>2, <1>3, <3>1
    <2>2. CASE k < m
      <3>1. k + 1 \in 1 .. m /\ k < Len(log)
        BY <1>1, <2>2
      <3> QED
        BY <1>2, <1>3, <3>1
    <2> QED
      BY <1>1, <1>2, <2>1, <2>2
  <1>4. HonestCalls = CHOOSE m \in 0 .. Len(log) : First(m)
    BY DEF HonestCalls
  <1> HIDE DEF First
  <1>5. (CHOOSE m \in 0 .. Len(log) : First(m)) = k
    BY <1>2, <1>3, Zenon
  <1> QED
    BY <1>4, <1>5

\* What the invariant says of the entries given so far.
LEMMA Survival ==
  ASSUME IndInv, Len(obj) <= U64Max
  PROVE  EarlierSurvive /\ ReadBack
  <1>1. CASE NotOpen
    <2>1. status = "none" /\ \A n : n \notin DOMAIN given
      BY <1>1 DEF NotOpen
    <2> QED
      BY <2>1 DEF EarlierSurvive, ReadBack
  <1>2. CASE ~NotOpen
    <2>1. PICK k \in Nat : \E P \in [0 .. k -> Nat] : Built(P, k) /\ Reads(P, k)
      BY <1>2 DEF IndInv, ReaderInv
    <2>2. PICK P \in [0 .. k -> Nat] : Built(P, k) /\ Reads(P, k)
      BY <2>1
    <2>3. TypeOK /\ Opened
      BY <1>2 DEF IndInv, ReaderInv, BuilderInv, IInv
    <2>4. HonestCalls = k
      BY <2>2, <2>3, HonestCallsIs
    <2>5. DOMAIN given = 1 .. Len(given)
      BY <2>3 DEF Opened
    <2>6. CASE Over(k)
      <3>1. /\ Told(k) /\ Len(given) >= Cardinality(Visible(k))
            /\ k = Len(log) => status = "end" /\ Len(given) = Cardinality(Visible(k))
        BY <2>6 DEF Over
      <3>2. Len(given) \in Nat /\ Cardinality(Visible(k)) \in Nat
        BY <2>3, VisibleFinite DEF Opened
      <3>3. EarlierSurvive
        BY <2>4, <3>1, <3>2 DEF EarlierSurvive, Told
      <3>4. ReadBack
        BY <2>4, <3>1 DEF ReadBack
      <3> QED
        BY <3>3, <3>4
    <2>7. ASSUME NEW c \in 0 .. k, Underway(P, k, c)
          PROVE  EarlierSurvive /\ ReadBack
      <3>1. status = "none" /\ Told(c) /\ Len(given) = Cardinality(Visible(c))
        BY <2>7 DEF Underway
      <3>2. ASSUME NEW i \in Visible(k), Cardinality(Visible(i)) \in DOMAIN given
            PROVE  Matches(given[Cardinality(Visible(i))], i)
        <4>1. CASE i \in Visible(c)
          BY <3>1, <4>1 DEF Told
        <4>2. CASE i \notin Visible(c)
          <5>1. i \in 1 .. k /\ Shown(i) /\ i \in Nat /\ i > c
            BY <4>2 DEF Visible
          <5>2. Visible(c) \cup {i} \subseteq Visible(i)
            BY <5>1 DEF Visible
          <5>3. /\ IsFiniteSet(Visible(c)) /\ Cardinality(Visible(c)) \in Nat
                /\ IsFiniteSet(Visible(i)) /\ Cardinality(Visible(i)) \in Nat
            <6>1. c \in Nat /\ i \in Nat
              BY <5>1
            <6> QED
              BY <6>1, VisibleFinite
          <5>4. Cardinality(Visible(c) \cup {i}) = Cardinality(Visible(c)) + 1
            BY <4>2, <5>3, FS_AddElement
          <5>5. Cardinality(Visible(c) \cup {i}) <= Cardinality(Visible(i))
            BY <5>2, <5>3, FS_Subset
          <5>6. Cardinality(Visible(i)) \notin 1 .. Len(given)
            BY <3>1, <5>3, <5>4, <5>5
          <5> QED
            BY <2>5, <3>2, <5>6
        <4> QED
          BY <4>1, <4>2
      <3>3. EarlierSurvive
        BY <2>4, <3>1, <3>2 DEF EarlierSurvive
      <3>4. ReadBack
        BY <3>1 DEF ReadBack
      <3> QED
        BY <3>3, <3>4
    <2> QED
      BY <2>2, <2>6, <2>7 DEF Reads
  <1> QED
    BY <1>1, <1>2

-----------------------------------------------------------------------------
(***************************************************************************)
(* What was appended before the first call that failed is read back, as    *)
(* often as the calls are made and wherever a write is cut short: the      *)
(* padding of append() (builder.rs:463-473) keeps each header where the    *)
(* reader looks for it.  An archive that is longer than a u64 can count is *)
(* left out: offsets into it do not exist.                                 *)
(***************************************************************************)
THEOREM EarlierSurviveCorrect ==
  ASSUME AsNamed
  PROVE  RoundTripSpec => [](Len(obj) <= U64Max => EarlierSurvive)
  <1>1. IndInv => (Len(obj) <= U64Max => EarlierSurvive)
    BY Survival
  <1> QED
    BY <1>1, Invariance, PTL

\* When no call failed the archive has a proper end, and reading gives back
\* what was appended and no more.
THEOREM ReadBackCorrect ==
  ASSUME AsNamed
  PROVE  RoundTripSpec => [](Len(obj) <= U64Max => ReadBack)
  <1>1. IndInv => (Len(obj) <= U64Max => ReadBack)
    BY Survival
  <1> QED
    BY <1>1, Invariance, PTL
=============================================================================
