----------------------------- MODULE RoundTrip -----------------------------
(***************************************************************************)
(* An archive is built, and when the builder is gone it is read back the   *)
(* way TarWalk says: the two halves of the crate composed at the bytes     *)
(* they share.                                                             *)
(***************************************************************************)
EXTENDS Builder, SequencesExt, FiniteSets

\* Whether the reader has opened, and whether a member has a long name, shows.
ASSUME AbsentAssumption == None \notin BOOLEAN /\ None \notin [from : Nat, to : Nat]

VARIABLES
    zeros,                      \* the reader's set_ignore_zeros, None until it opens
    arch,                       \* what it reads
    at, desc, given, status     \* of the reader, see TarWalk

walk == <<zeros, arch, at, desc, given, status>>

-----------------------------------------------------------------------------
(***************************************************************************)
(* What the bytes parse to                                                 *)
(***************************************************************************)

NoBytes == [Garbage EXCEPT !.zero = TRUE, !.size = 0, !.sparse = <<>>]

\* A block is the header it was written as only when all of it is there.
Parsed(bytes) ==
    IF \A j \in DOMAIN bytes : bytes[j].of = Blank THEN NoBytes
    ELSE IF bytes[1].of.tag = "head" /\ bytes = Bytes(bytes[1].of, Block)
         THEN bytes[1].of.blk
         ELSE Garbage

BlockBytes(k) == SubSeq(obj, (k - 1) * Block + 1, Min2(k * Block, Len(obj)))

Archive ==
    [blocks |-> [k \in 1 .. RoundUp(Len(obj)) \div Block |-> Parsed(BlockBytes(k))],
     len |-> Len(obj)]

Read == INSTANCE TarWalk WITH
    Faults <- FALSE,
    opt    <- [raw |-> FALSE, zeros |-> zeros]

-----------------------------------------------------------------------------
\* There is nothing to read yet.
NoArchive == [blocks |-> <<>>, len |-> 0]

RoundTripInit == Init /\ zeros = None /\ arch = NoArchive /\ Read!Init

Build == Next /\ UNCHANGED walk

\* The archive is read when the builder is done with it.
Open ==
    /\ holder # "builder" /\ zeros = None
    /\ zeros' \in BOOLEAN /\ arch' = Archive
    /\ UNCHANGED <<vars, at, desc, given, status>>

\* It has no sparse members.
ReadStep(A) ==
    /\ zeros # None
    /\ UNCHANGED <<vars, zeros>>
    /\ Read!Walk(A)

RoundTripNext ==
    \/ Build \/ Open
    \/ ReadStep(Read!SkipZeros) \/ ReadStep(Read!Describe) \/ ReadStep(Read!Give)
    \/ ReadStep(Read!Stop) \/ ReadStep(Read!Reject)

RoundTripSpec == RoundTripInit /\ [][RoundTripNext]_<<vars, walk>>

-----------------------------------------------------------------------------
(***************************************************************************)
(* How an entry is read                                                    *)
(***************************************************************************)

\* A long name without the NUL at its end.
Unterminated(bytes) ==
    IF bytes # <<>> /\ Last(bytes).of = Blank THEN Front(bytes) ELSE bytes

RunBytes(run) == SubSeq(obj, run.from + 1, run.to)

HeaderAt(e) == obj[e.hpos + 1].of

\* path_bytes and link_name_bytes: the descriptor if there is one.
Goes(long, short, name) ==
    IF long # None
    THEN Unterminated(RunBytes(long)) = Bytes(TextOf(name), name.len)
    ELSE short = name

NamedAs(e, r) == Goes(e.long, HeaderAt(e).name, r.name)

LinksTo(e, r) ==
    IF r.link = None THEN e.link = None /\ HeaderAt(e).link = None
    ELSE Goes(e.link, HeaderAt(e).link, r.link)

Contents(e) == SubSeq(obj, e.fpos + 1, e.fpos + e.size)

\* Entry e is what call i of the log asked for.
Matches(e, i) ==
    LET r == log[i].req
    IN  /\ NamedAs(e, r) /\ LinksTo(e, r)
        /\ e.size = r.size
        /\ Contents(e) = Bytes(DataOf(i), r.size)

-----------------------------------------------------------------------------
(***************************************************************************)
(* Properties                                                              *)
(***************************************************************************)

Ends(i) == log[i].req \in {Finish, IntoInner}

\* A call that succeeded, with as much data as its header says.
Honest(i) == log[i].ok /\ (Ends(i) \/ log[i].sent = log[i].req.size)

HonestCalls == CHOOSE k \in 0 .. Len(log) :
    /\ \A i \in 1 .. k : Honest(i)
    /\ k < Len(log) => ~Honest(k + 1)

\* Call i is an append that a reader gets to see: it was made before the
\* archive was finished, or the reader reads on after zeros.
Shown(i) == ~Ends(i) /\ (zeros = TRUE \/ \A j \in 1 .. i : ~Ends(j))

\* Of the first k calls; so that call i is the Cardinality(Visible(i))-th entry.
Visible(k) == {i \in 1 .. k : Shown(i)}

\* What was appended before the first failure is read back, in order, with its
\* name, link target and contents, however the failed call was cut short and
\* whatever the caller went on to do.
EarlierSurvive ==
    LET v == Visible(HonestCalls)
    IN  /\ \A i \in v :
            LET n == Cardinality(Visible(i))
            IN  n \in DOMAIN given => Matches(given[n], i)
        /\ status # "none" => Cardinality(v) <= Len(given)

\* When every call succeeded, reading gives back just what was appended and
\* comes to a proper end.
ReadBack ==
    HonestCalls = Len(log) /\ status # "none" =>
        /\ status = "end"
        /\ Len(given) = Cardinality(Visible(Len(log)))
=============================================================================
