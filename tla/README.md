# A TLA+ model of async-tar-rs

async-tar-rs reads and writes tar archives over asynchronous readers and
writers. What makes it hard is not the format but the polling: an archive is
walked by a stream whose `poll_next` may return `Pending` between any two reads
and then starts from what its structs remember, while every entry it has handed
out reads from, and moves, the same reader.

This directory holds the specifications of the crate, their TLC
configurations and their TLAPS proofs. Line numbers refer to `src/src/*.rs`.

## Inventory

| component | state | operations | interacts with |
|---|---|---|---|
| Stream of entries, `archive.rs` | `ArchiveInner`: `pos`, `buf`, `obj`; `EntriesFields`: `next`, `done`, `raw`, `fields`, three descriptors | `entries`, `entries_with_seek`, `raw`, `poll_next` with `poll_next_entry_raw`, `poll_skip`, `poll_try_read_all`, `poll_next_entry`, `poll_parse_sparse_header` | the reader; entries handed out move `pos` too |
| Entry as a reader, `entry.rs` | `EntryFields`: `data` (pieces of pad and data), `read_state`, `size` | `poll_read`, `poll_read_all`, accessors of names | `Take` over `ArchiveInner` |
| Unpacking an entry, `entry.rs` | the file system | `unpack`, `unpack_in`, `ensure_dir_created`, `validate_inside_dst` | reads the entry, settings of the archive |
| Unpacking an archive, `archive.rs` | deferred directories | `unpack` | the stream and `unpack_in` |
| Builder, `builder.rs` | `obj`, `finished`, `mode`, `follow` | `append*`, `append_link`, `finish`, `into_inner` | the writer, the file system |
| Directory walk, `builder.rs` | the stack of `append_dir_fs` | `append_dir_all` | the source tree, the builder |
| Header, `header.rs`, `entry_type.rs` | 512 bytes | typed views, numeric fields, ustar paths, checksum | read by the stream, written by the builder |
| Pax records, `pax.rs` | a payload | iteration, `pax_extensions_value` | stream (size), entry (names), unpack (xattrs) |
| Locks, `archive.rs` | `Mutex` around `obj` and `buf` | `try_lock` | two tasks polling at once |
| Settings, errors, `lib.rs` | flags | setters, wrapping of messages | unpack |

Behaviours that are hard to test, and what correctness means there:

* *Stream of entries.* A poll is cut at every read by `Pending`, an error, or a
  short read. What is local to the poll (`processed`, the sparse map, the bytes
  of a long name) is lost, what was consumed from the reader is not. Correct:
  the same entries, sizes and descriptors as a reader with the whole archive in
  memory would see; no entry that is not a header of the archive; no poll that
  nobody wakes; an end.
* *Shared position.* `delta = next - pos` (320) is right only while `pos` counts
  exactly the bytes between the start and the reader, which entries read out of
  order, seeks and wrapped subtractions put at risk. Correct: a header is parsed
  only where the member before it ends.
* *Entry.* Pieces are taken from `data` one at a time; an empty buffer, an early
  end, and an `unpack` after a partial read meet the piece in progress. Correct:
  the bytes delivered are a prefix of the file.
* *Builder.* Every append is a sequence of writes that can fail or be dropped
  half way; metadata is read before the data. Correct: what is written and
  finished is read back as what was appended, or an error was reported.
* *Unpack.* Sequences of system calls on a tree that earlier entries and other
  processes change. Correct: nothing outside the destination, later entries of
  one name win, directories are usable until everything below them exists.
* *Numbers, paths, records.* Conversions at the limits of the field. Correct:
  reading gives back what was written, or writing refused it.

The hazards, each at its line and with the properties that watch it, are listed
in `PROJECT.json`.

## Modules

`TarFormat` is the layout of an archive: a sequence of blocks of `Block` bytes
(512 in the code) and a length. Of a block only what the code branches on is
kept: all zero, checksum valid, which format `as_gnu`/`as_ustar` recognise, the
kind of member, its size (`None` when the field does not parse), the size record
of a pax payload, and the sparse map, its `isextended` flag and the real size.
Payload, or a block read off the grid, parses as `Garbage`: its checksum does
not match. `U64Max` and `I64Max` are the widths; `WrappingSub` is a subtraction
on `u64` in a build without overflow checks.

`EntriesStream` is the stream. Its variables are the fields of the structs
(`pos`, `sbuf` for `buf`; `next`, `done`, `fields`, `longname`, `longlink`,
`pax`), the reader (`off`, `seeking`), the entries handed out (`out`, each with
the runs of archive bytes it has delivered) and the locals of the poll in
progress (`call`, `vec`, `scan`), which every way of ending a poll resets. `pc`
says at which call of the poll functions it stands; one action is what happens
between two calls to the reader:

| action | code |
|---|---|
| `Poll`, `PollDone`, `CallEntries`, `ReadEntry` | the caller: `poll_next`, `entries`, reading an entry |
| `ComputeDelta`, `SkipRead`, `SkipDone`, `SeekDrain`, `SeekSkip` | 320-321, `poll_skip` |
| `BlockShort`, `BlockResume` | the partial block of `poll_try_read_all` |
| `HeaderEof`, `ZeroBlock`, `RejectHeader`, `ReadMember` | 323-404 |
| `StartDescriptor`, `PayloadRead`, `PayloadDone`, `YieldPlain` | 436-490, `poll_read_all` |
| `StartSparse`, `AddSparseBlock`, `ExtensionEof`, `ReadExtension`, `SparseDone` | `poll_parse_sparse_header` |
| `ReadPending`, `ReadFails` | any read that is not ready, or fails |

The environment is chosen by constants: `ShortReads`, `MayFail`,
`SpuriousPolls` (a poll nobody asked for), `OutOfOrder` (entries are read after
the stream has moved on, which the documentation warns of but the API allows).
How the archive is opened is part of the initial state: `opt` says whether it is
read raw, whether zeros are ignored, how it seeks (not at all, at once, or
`deferred`: Pending first), whether the build checks overflow, and whether the
reader may be Pending. A result `"error"` is one the crate reports, `"fault"`
one the reader reported.

`TarWalk` says what the stream promises, with no reader and no polls: it walks a
complete archive one member a step. It yields the member, records that it
describes the next, skips zeros, or stops. It restates the validity of a sparse
map without the incremental bookkeeping of `add_block`. Two choices follow the
code: a second descriptor of a kind replaces the first (see findings), and a
payload cut off by the end of the archive is kept as far as it goes.

`MCEntries` gives the constants values and maps `EntriesStream` to `TarWalk`:
the member in `fields` is not yet taken, everything before it is. `Suited` pairs
each archive with the ways of opening it in which the stream keeps its promises;
why it does not in the others is told below. `EntriesStreamProofs` and
`EntriesOrderProofs` hold the theorems.

`Builder` is the other half of the crate. Here the archive is the sequence of
bytes in the writer (`obj`), and of each byte the model knows what it is a part
of and where in it it stands: a header (with the fields the reader looks at), a
long name, the data of the n-th call, or a zero. A call goes through stages, and
between them `todo` holds what is being handed to `write_all` or `io::copy`:

| action | code |
|---|---|
| `CallAppend` | `append`, `append_data`, `append_link`, `append_path`, `append_path_with_name`, `append_file`, `append_dir`: the request says which header, name and link, the size in the header or the metadata, and how much data there may turn out to be |
| `PreparePath`, `CutPath`, `PrepareLink` | 613-665: into the header, into a longname or longlink member before it, or an error |
| `WriteMember`, `WriteSpecial` | 458-474 with 667-684; 561-576 |
| `Write`, `Interrupted` | the writer takes all of it, or a part of it and the call fails or is dropped |
| `Return` | the call succeeds |
| `CallFinish`, `CallIntoInner` | 449-455, 76-81; `finished` is set before the write |

`log` records how every call ended. A name is a record: its length, whether
`set_path` (for links `set_link_name`) puts it into the header, and whether it
accepts its first 100 bytes. Left out: that names lose `.` and doubled slashes on
the way into a header (`HeaderFields` has that), owners, modes and times, and
the kind of an ordinary member.

`RoundTrip` composes `Builder` with `TarWalk`. When the builder is consumed, the
bytes in the writer are cut into blocks, a block is a header if all the bytes of
one lie in it (otherwise its checksum does not match), and the walk runs over
it; whether the reader ignores zeros is chosen then (`Open`). `MCRoundTrip` has
the requests TLC tries; `RoundTripProofs` has the theorems about `Builder`, and about
the two together.

`EntryRead` is one entry as its caller reads it. The archive behind it knows
nothing of pieces: it delivers its next byte, which is the right one only if
every piece before was read to its end. `taken` and `read_state` are what
`EntryFields` remembers, `off` is what was read from the archive, `call` the call
in progress.

| action | code |
|---|---|
| `CallRead`, `CallPax` | `poll_read`; `pax_extensions`, which reads all |
| `NextPiece`, `NoPiece`, `ReadPad`, `ReadData`, `EndPiece` | one turn each of the loop of `poll_read`, 1031-1076 |
| `CallUnpack`, `CopyData`, `CopyPad`, `CopyShort`, `Unpacked` | `unpack` of a file, 737-756 |
| `Interrupted` | a read that fails, or a future that is dropped |

A `Pending` changes nothing there, so it is a stuttering step. `FileReader` is
the abstract specification: a file with a position, of which a read gives the
next bytes, and nothing only at the end. It has a step in which nothing is
promised but that bytes once read stay read; it is allowed only after an empty
buffer, on a truncated archive, or when `unpack` was called. `EntryReadProofs` has
the theorems.

`FileTree` is the file system (external): a tree of directories, files with
inodes, and symbolic links, with the permissions that make a call fail.
`Unpack` is `Archive::unpack` and `unpack_in` on it, one action per system call,
so that another process (`Meddle`), an error or a dropped future (`CutShort`) can
come between any two; then, or when it is done, it may be called again (`Again`).

| action | code |
|---|---|
| `PutOff`, `NextEntry`, `NextDirectory`, `Unpacked` | `archive.rs` 260-287 |
| `MakeParent`, `Validate` | `ensure_dir_created`, `validate_inside_dst` |
| `MakeDir`, `SetDirPerms` | `unpack_dir`, `set_perms` |
| `Open`, `Remove`, `Reopen`, `Copy`, `SetTimes`, `SetFilePerms` | files, 701-790 |
| `HardLink`; `SymLink`, `Unlink`, `Relink`, `SetLinkTimes` | links, 582-662 |

`DirWalk` is `append_dir_all`: the stack, the order `read_dir` happens to give,
links followed or archived, both header modes, what is refused. `TreeTrip`
composes it with `Unpack`: an archive is either given or the result of a walk over
a source tree. Its properties say what a whole call leaves behind, when it must
fail, and what a second call mends. `FileTreeProofs` has what is known of lookups and
trees; `TreeTripProofs`, `TreeTripLastProofs` and `TreeTripFailProofs` have the
theorems.

`HeaderFields` has the setters and getters of the header: numbers in octal and
base 256 with the widths of their fields, and the path in one field or two, with
the bytes that a refused path leaves. `Pax` has a payload of records, whole or
cut off, the iteration over it and both ways to look up a key. `MCFields` runs
them side by side.

Definitions commented as mutants are faulty variants of the definition below
them. Each is paired in `PROJECT.json` with a property that catches it.

## Runs

The runs of `EntriesStream` use `Block = 2`, `SkipBuf = ReadAllCap = 4`, `U64Max = 63`,
`I64Max = 31`: two-byte blocks still have a cut, a full and a padded case; the
buffers are two blocks, so that skips and payloads take more than one read; the
integer widths are beyond every archive and small enough that sizes near the
maximum occur. Archives have at most ten blocks. Nothing else is bounded: the
reader only moves forward, so the state spaces are finite.

| run | environment | shows |
|---|---|---|
| `Filling` | a reader that fills each buffer and may fail; caller polls when woken and reads entries in order; every way of opening an archive × 32 archives, where `Suited` | `ImplementsWalk` (refinement), `ContentsInOrder`, `NoLostWakeup`, `NoPanic`, and under fairness `PollAnswered`, `StreamEnds` |
| `Hostile` | everything at once: short reads, spurious polls, faults, entries read out of order, wrapping or trapping builds | `TypeInv`, `Framing`, `HeaderPosGenuine`, `DescriptorsBelong`, `MembersDisjoint`, `StreamFused` |

`Suited` has four parts: a slow reader with `PlainArchives`; one that is never
Pending also with `FragileArchives` (descriptors without a member, descriptors
longer than one read, chains of extension blocks); seeks that complete at once
with `OneSkipArchives`; deferred seeks with `NoSkipArchives`.

The run of `RoundTrip` uses `Block = 3` (data of 0 to 4 bytes needs every amount
of padding), name fields of 2 bytes with names of 0 to 4, and three calls that
write, `finish` included: one that fails, one before and one after it.

| run | requests | shows |
|---|---|---|
| `Archived` | every kind of append, files that grow or shrink after their metadata was read included; names that fit, are too long, empty, or no path at all; long names and long links together; zeros ignored (what is appended after `finish` then counts too) or not | `EarlierSurvive`: what was appended before the first failure is read back with its name, link and contents; `ReadBack`: if nothing failed, that and nothing else, and the archive ends well; `Aligned`, `HeadersOnGrid`; `TypeOK` |

| run | instance | shows |
|---|---|---|
| `Reading` | files of up to 5 bytes in up to 3 pieces, with holes first, last and between; archives cut after 0 to 4 bytes; buffers of 0, 1, 2 and 4 bytes; two calls of `unpack` | `ImplementsReader` (refinement), `DeliveredInOrder`, `UnpackWhole`, `PaxWhole`, `TypeOK`, and under fairness `ReaderEnds` |
| `Unpacking` | four names; 23 archives of up to 4 entries, 7 source trees; 7 destinations; 3 settings; two interventions of another process, one cut, two attempts; `MaxLinks = 2`, which the cyclic links of the sources exceed | `LastWins`, `FailsWhenItMust`, `AgainSucceeds`, `TreeCopied`, `NothingLost`, `OnlyOwnFiles`, `Kept`, `TypeOK` |
| `Fields` | binary instead of octal, bytes of 3 bits, a `u64` of 9 bits in fields of 3 and 5 bytes; name and prefix of 3 characters, all paths of up to 4 characters over `a`, `/` and `.`, and 12 longer ones; two calls of setters; payloads of three records out of 9 values and 2 keys, cut anywhere | `NumbersReadBack`, `PathReadsBack`, `SplitsIfPossible`, `CutKeepsRecords`, `NewlineHidesNumbers`, `TypeOK` |

The sizes are small but in the right order: a number field that holds fewer
digits than a `u64` has, and one that holds all its bytes; a path that fits the
name, name and prefix, or neither; a file with holes on both sides of the cut;
a directory with a child and a grandchild, which is what putting directories
off is about.

`Hostile` does not check deadlock: after a panic, or a short read that nobody
wakes, the system does stop. Nor do `Archived`, `Unpacking` and `Fields`, whose
behaviours all end: once the archive is read back, the attempts are used up, or
the calls are made, nothing more happens. `Filling` and `Reading` run over
environments in which there always is a next step.

*Fairness* (`FairSpec`): weak fairness of `Poll` (an executor polls a task that
was woken), weak fairness of the steps of a poll (a poll is a function that
runs on), strong fairness of the reader's answers (a reader that is asked
again and again is ready some time; it may be `Pending` between). Nothing is
assumed of the caller's reads of entries, of faults or of `entries()`. Both
liveness properties exclude deferred seeks: `poll_skip` issues such a seek anew
at every poll (607-614), and with a reader like tokio's `File` may never get on.
`EntryRead` assumes strong fairness of the steps of a read and of a copy and of
the caller's reads into a buffer that is not empty: the caller reads on, and does
not drop every future before it is done. `TreeTrip` and `Fields` have no fairness;
their calls cannot go on for ever and what they promise is about the end.

*What the code does otherwise.* Each of these runs checks one property that the
repository states, and TLC finds a behaviour of the code without it:

| run | property | what happens |
|---|---|---|
| `SeekPosition` | `HeaderPosGenuine` | a seek does not move `pos`; the second skip goes too far |
| `BigSkip` | `NoPanic` | a skip above 32 KiB reads `min(amt, 32768)` bytes in its last round |
| `ShortHeader` | `StreamEnds` | a partial block is answered by `Pending` with no waker |
| `PendingName` | `NamesWhole` | a `Pending` in a long name loses what was read of it |
| `ClosedDirectory` | `DirectoriesDontInterfere` | a directory put off that may not be written fails one below it that is made later |
| `PartialUnpack` | `UnpackEntire` | `unpack` after one that failed writes an empty file and succeeds |

`ClosedDirectory` has the archives of `Unpacking` whose directories are all put off,
`PartialUnpack` the entries of `Reading` and no buffers, so that nothing but `unpack` and `pax_extensions` is
called.

The same causes have other effects, which were seen in the model and have no run
of their own: a block completed out of `buf` panics in `copy_from_slice` (799),
and a last block cut short hangs instead of failing (794); a `Pending` between
a dangling long name and the end of the archive lets the stream end well,
because `processed` is a local (415); the test for a second long name, link name or
pax header before one member looks at fields of the descriptor that are never set
(440), so that the last one counts and the error of 441-444 is never given; a
`Pending` between two extension blocks
makes a sound sparse member fail, because the map is parsed again without the
blocks already consumed (527); a seek that is not complete at once is issued
again at every poll (607-614), so the skip is repeated or never done; a skip by
seek past the end of the archive is not an error, while the same skip by
reading is. In `Builder`: `append_path_with_name`
archives a fifo or device under its path, not the name it is given (525, where
279-280 promises the name); an append that fails after its long name was written
leaves that name to the next member; a `finish` that failed is not repeated, so
that `into_inner` then returns an archive without an end and no error; the
header of a file that changed while it was archived does not tell how much data
follows, so the members behind it are lost.

In `entry.rs`: a read into an empty buffer ends the piece in progress, and what
was left of it is skipped (1054); after an archive that ends early a hole is still
delivered, at the wrong offset. `unpack` after a partial read writes only the
pieces no read had begun, and after a failed `unpack` an empty file, both without
an error (737-754), though 193-194 and 237 promise the entire contents
(`PartialUnpack`); of an entry that was not read it does write all (`UnpackWhole`).
`pax_extensions` called again after a failure keeps only the records that were left
(442), where 142 and 151-152 promise each of them and that the entire entry is read;
a call before which nothing was delivered keeps all (`PaxWhole`).

In unpacking: directories are put off in the order of the archive and not
children first, so a directory without files in a read-only directory fails,
although 262-264 of `archive.rs` says permissions should not interfere
(`ClosedDirectory`; that nothing else makes a sound archive fail is
`FailsWhenItMust`); between `remove_file` and `open` (729) a cut
loses the file that was replaced; a call that fails leaves the directories that
were put off unmade, or with default permissions; a second call over the first
one's result fails at hard links, which `overwrite` does not apply to, and at
read-only directories; times are set by path (772) and may hit the file another
process has put there, while permissions go to the open file; a directory that
was put off and meets a symbolic link of its name sets the permissions of what
the link denotes, and of whatever bears its name by then: if another process has
put a file in place of the link, that file's bits change (893, named in
`OnlyOwnFiles`). `append_dir_all` that follows a link to a directory above it
ends only when the system refuses to follow that many links. With `overwrite`,
an entry whose path leads through the link it is to replace (`a/a`, where `a` is
a link to its own directory) removes that link and then cannot open its path: the
link is lost without a cut. A hard link to a symbolic link is a second link, of
which the archive says nothing: with `c -> a -> .` in the destination, a hard link
`b` to `c` and then a file `b/a`, that file's path leads through `b` to `a`, and
`a`, on which `b` rests, is removed for it. And when an earlier call was cut short,
a link that it replaced may lead the next call elsewhere, so that it succeeds and
what the cut one had removed stays lost. This is why `NothingLost` speaks of
archives whose paths lead through no link and whose hard links are not made to one
(`Direct`), and of others only after a first call that succeeds. `Unpacking` has the
archives and destinations of all three.

In fields and records: a short path set after a long one keeps the prefix of the
long one (984 of `header.rs`), although 361 says that `set_path` sets the pathname, and a path that is refused may have replaced
the prefix (1007-1014); a leading `.` stays if the split leaves it alone in the
prefix (1002), although 363-364 says that any is stripped. `PathReadsBack` is about
all other calls. Modes and device numbers silently lose digits, and an id of 2^63 or more
loses its top bit; a number that was never set is an error to read. A pax value
with a newline is malformed, an empty line in it ends the payload; looking up a
size stops at a malformed record and looking up a name skips it.

These are why `Suited` leaves out some ways of opening some archives, and what the
hypotheses of the properties (`Undisturbed`, `Sound`, `Straight`) name.

## Proofs

`EntriesStreamProofs` proves, for every set of archives, every block size and
width, and every environment:

* `TypeCorrect`: `Spec => []TypeInv`. Types alone are not inductive:
  `WrappingSub(next, pos)` is a natural number only if `pos` does not pass the
  end of the archive by more than the width (`Counted`), and the steps after
  the header use `fields` (`HasFields`). `TypeInv` is their conjunction. One
  lemma per action shows the types of the data, `FlagStep` the Booleans,
  `ReaderMoves` sums up what any step does to the reader: nothing (`Stays`),
  read a number of available bytes (`Takes`), or seek (`Seeks`).
* `FramingCorrect`: `Spec => []Framing` when nothing seeks (`SeekFree`). `Framing`
  is the inductive invariant behind `HeaderPosGenuine`: the reader is where `pos`
  says (`InStep`); while a poll skips, the remainder is the distance to `next`,
  possibly plus `2^64` when a subtraction wrapped, and when it parses a header
  the reader is at `next` (`Aimed`). The core is `SkipRests`: a wrapped remainder
  cannot reach zero, because no archive is that long, so a skip that comes to
  rest has come to rest at `next`.
* `HeadersGenuine`: `Spec => []HeaderPosGenuine` when nothing seeks.
* `FusedCorrect`: `Spec => StreamFused`, seeks or not: a stream that has answered
  is `done` and idle (`Answered`), and then only `CallEntries`, `PollDone` and
  `ReadEntry` are possible.

`EntriesOrderProofs` builds on `Framing` and proves, when nothing seeks:

* `DisjointCorrect`, `BelongCorrect`: `Spec => []MembersDisjoint`,
  `Spec => []DescriptorsBelong`. The two speak of the entries handed out; the
  inductive invariant `Ordered` adds what is still on its way (`Behind`): the
  reader has passed the entry handed out last, then the payloads of the
  descriptors held, then the member at hand, and `next` is at or past the padded
  end of each member (a sparse entry reports another size and is left out). A
  raw stream holds neither member nor descriptor. `CallEntries` would start over
  while entries are out; it cannot, since an entry handed out means that bytes
  were counted.
* `ContentsCorrect`: `Spec => []ContentsInOrder`, for a caller that reads each entry
  before it asks for the next (`~OutOfOrder`), when no `Pending` can come between two
  extension blocks of a sparse map (`MapsResume`: there the map is parsed again from
  the header, see above). The invariant (`Contents`) follows a member from its header
  to its last byte: what of it was read before it is handed over (nothing, or its
  extension blocks so far, `MapRead`), and as long as it is the last one handed out,
  what is left of it and where the reader stands in it.

Its second part is about readers that fill their buffers and archives of whole
blocks (`FillsBlocks`), when nothing seeks:

* `WakeupCorrect`: `Spec => []NoLostWakeup`. The invariant (`Filled`) is that and
  `Gridded`: no part of a block is ever kept in `buf`, and blocks are asked for on
  the grid only.
* `PanicFree`: `Spec => []NoPanic`, as long as members fit the buffer of `poll_skip`
  in builds that trap overflow (`MembersFit`). The invariant (`Reached`) keeps the
  reader before the next header and within one round of the skip loop.

The hypotheses are not for convenience: `ShortHeader`, `BigSkip` and `SeekPosition`
are runs in which one of them fails and a promise with it.

Both modules assume what `EnvironmentAssumption` says: archives are well-formed, are
shorter than `2^64` by two blocks, and buffers are not empty.

`RoundTripProofs` proves of `Builder`, for every set of requests and every block size:

* `TypeCorrect`: `Spec => []TypeOK`. A call that has not written its member
  knows its request (`HasRequest`).
* `AlignedCorrect`, `HeadersOnGridCorrect`: `Spec => []Aligned`,
  `Spec => []HeadersOnGrid`. The inductive invariant (`IInv`) is `TypeOK` and
  `WholeBlocks`: as long as no call fails, what is written together with what is
  about to be is a `Piece`, a whole number of blocks with its headers on the grid.
  The two properties need each other: a header written at the end of a piece is
  on the grid only because the piece is aligned. `Multiple` and `PaddingFits` are
  the arithmetic, `AppendedPiece` says that `append` writes a piece whatever the
  data, and `PieceJoin` that pieces can be joined.

and of builder and reader together, for every block size, limit on names, set of
requests and number of calls:

* `EarlierSurviveCorrect`, `ReadBackCorrect`: what was appended before the first
  failure is read back, with its name, link and contents, and when nothing failed
  the reader gets just that and comes to a proper end. Special files are
  taken to ask for their own path (`AsNamed`), for any other name is lost.

The invariant has two halves. `Built` says where the calls stand in the bytes:
there is a function `P` from the number of a call to the offset at which it ends,
such that between `P[i - 1]` and `P[i]` stand the descriptors, the header and the
padded data of call `i` (`CallAt`), and it says how far the call in progress has come
(`Current`). A call that fails leaves bytes behind `P[k]`, and nothing is claimed of
these. `Reads` says where the reader is among the calls: after `c` of them, behind
the first block of an end, or at one of the headers of the next call with just the
descriptors that stand before it (`Within`). Two lemmas carry the weight: `AtHeader`,
that a reader at the boundary of a block where a header and its member stand takes
this member and comes to the end of its padding, and `NameFound`, that it finds the
name where `prepare_header_path` put it. The theorems assume `AsNamed`: a header
given to `append` is finished, so that its names fit, and a special file asks for
its own path. They speak of archives whose length a `u64` holds; offsets into
longer ones do not exist.

`EntryReadProofs` proves for every set of entries, whatever their holes, every
size of buffer and every number of calls:

* `TypeCorrect`: `Spec => []TypeOK`. That pieces are apart follows from each one
  beginning where the one before it ends (`StartsAfter`), by an induction that looks at
  the least number that is an exception (`LeastNumber`).
* `DeliveredCorrect`: `Spec => []DeliveredInOrder`. What was delivered says nothing
  of what will be; the inductive invariant relates three positions: the bytes
  delivered end where the piece in `read_state` has been read to, the archive is
  where that piece's bytes are (`off`), and all pieces before it were read to their
  ends. It holds while no buffer is empty, no hole lies behind the cut and no
  `unpack` was called over a piece in progress.

and going on from there:

* `ReaderCorrect`: `Spec => ImplementsReader`, the refinement of `FileReader`. As long
  as nothing was lost the reader is before a piece, in one, or at the end of the
  file (`Followed`), so that a delivery is the next bytes of the file and a read that
  ends with nothing has come to its end. Every other step delivers nothing, or maps
  to the step in which nothing is promised.
* `PaxWholeCorrect`: `Spec => []PaxWhole`. The invariant (`Gathered`) says that what a
  call of `pax_extensions` has gathered is what was delivered since it began, so that
  the records kept are the rest of the file from there (`PaxRest`), and all of it if
  nothing had been delivered.
* `UnpackWholeCorrect`: `Spec => []UnpackWhole`. The invariant says what a copy in
  progress has written and where the reader stands (`Drained`), that `data` is
  empty from then on (`Once`), and that nothing was read from the archive as long as
  no piece was taken (`Untouched`): a copy that starts there is at the right byte even
  where a hole lies behind the cut, for it fails before it comes to one.

`ReadAssumption` is all they need: the pieces of an entry follow one another in the
file and in the archive, which is what the checks of `poll_parse_sparse_header`
ensure.

The theorems about unpacking hold for every archive, source, destination and
setting, and any number of interventions and attempts, of which one may be cut short
(`CutShort` happens once), unless a property says otherwise. They are about a file system, so they rest on what `Lookup` returns for
every tree. It is defined by itself twice over: a path is looked up by looking up its
parent, and a link by starting again with one link fewer. That such a function exists
is an induction over the links that may still be followed and, for each number of
them, over the length of the path. The induction theorems of the library take an
operator, which the provers cannot instantiate; `FileTreeProofs` restates what is
needed for a set (`Inductive`) and for functions that are built step by step
(`RecursionExists`), and draws from it that a lookup unfolds, that its values are
nodes of the tree, that it finds the very path where no link is on the way, that
removing a node which is no directory leads no lookup to a new place, and that a new
node leads none to another place than itself (`LookupGrows`).
It also shows that trees stay trees (`Sound`: every node in a directory,
every file on the disk) when something is made in a directory or removed that is none.

`TreeTripProofs`:

* `OwnFilesCorrect`: `TripSpec => OnlyOwnFiles`. One invariant behind it: an open
  file was made by this process, because it is opened with `create_new` only. The
  other (`Chmods`): when a directory's permissions are about to be set, its path leads
  to no file that was there at the start. The call before it found a directory there;
  what is made or removed since lets a path lead to what is new, or nowhere, but to no
  other old node (`CanonGrows`, `CanonShrinks`).
* `KeptCorrect`: `TripSpec => Kept`. Without `overwrite` no name is removed, and
  directories never are; here the invariant is about the control: removal is
  reached only with `overwrite`.
* `TypeCorrect`: `TripSpec => []TypeOK`, that is above all, the destination stays a
  tree, though another process makes and removes things between any two system calls.
  `TypeInv` adds what a stage knows of its entry (`Staged`) and that what is on the
  stack of a walk is in the source (`Walking`).

`TreeTripLastProofs`:

* `NothingLostCorrect`: `TripSpec => []NothingLost`. The number of names that are
  missing is not inductive; `LostInv` says which they are (`LostFew`), that each is
  still to be made by an entry that is to come (`ToCome`), that what is removed can be
  made again (`Ready`), and that all links are those of the archive or were there
  before (`LinksKnown`). Writing it down showed that the property was false as it
  first stood; the two counterexamples are told above.
* `LastWinsCorrect`: `TripSpec => []LastWins`. `WinsInv` says what each entry has left
  until a later one of its name has its turn (`Leaves`), what the file in progress
  has come to (`Stages`), and that the directories put off are just those whose turn
  is still to come, in their order (`Queue`): the order of the archive and the
  order of unpacking differ.
* `TreeCopiedCorrect`: `TripSpec => []TreeCopied`. `WalkInv` is what the walk keeps:
  every entry was made of a path of the source (`Drawn`), a path that is not archived
  yet is below one on the stack, or is one (`Covered`), and what is on the stack is in
  a directory of the source and marked with its kind (`Listed`). `Covered` is inductive
  because everything below a directory is below one of its children, in whatever order
  `read_dir` gives them, and nothing is below anything else. So when the stack is
  empty every path is archived, and the archive is one that `LastWins` speaks of: no
  path leads through a link that was archived as one, and entries of one path are the
  same (`WalkStraight`). That there are no more names than in the source is `OnlyMade`:
  in a new directory there is only what entries make and what leads to it. The theorem
  assumes `DeepEnough`: `SourcePaths` enumerates paths up to `MaxDepth` for TLC, and no
  source may have longer ones. Every source has such a bound, for it is finite and a
  path that goes around in a cycle of links takes one of `MaxLinks` links with each
  round; `MCUnpack` has TLC evaluate that its own do (`SourcesShallow`).

`TreeTripFailProofs`:

* `AgainSucceedsCorrect`: `TripSpec => []AgainSucceeds`. As long as nothing forbids it
  (`Hopeful`), everything in the destination was made for the archive and every
  directory is open (`Owned`), wherever a call was cut, and what the next system call
  needs is there (`Prepared`): then none can fail.
* `FailsWhenItMustCorrect`: `TripSpec => []FailsWhenItMust`. While
  a call has not failed, `FailInv` tells the tree from the entries unpacked so far: what
  they made is there (`Present`), nothing else is (`Whose`), a directory lacks a
  bit just when the last of them that gave it bits took it (`Bits`), none of them
  could not be unpacked (`Sofar`), and how far the current one has come (`Reaching`).
  From these, an entry that is not `Bad` never fails (`NoFailure`), and one that was
  unpacked was not bad (`NotBad`). Before it was proved, `FailInv` was model-checked
  also on an instance with all archives of up to two entries over two names, and
  many of three.

`TripAssumption`, `TreeAssumption` and `UnpackAssumption` are all they need: archives
are sequences of entries, sources and destinations are trees, and `None` is neither a
path, a number nor a set of bits.

Only model-checked:

* the refinement of `TarWalk`, whose sparse maps are folds that the code computes in
  one pass and the abstract specification in another;
* everything in `Fields`. What a number reads back as is positional notation, a fold
  over powers, and the provers have no rule for `^`; even the type of a digit divides
  by one. Paths and records are texts that folds take apart and join: what a fold
  returns for every input is induction over data;
* liveness, which the proof system does not do.

## Not modelled

The `async-std` variant of `poll_try_read_all`, which keeps the whole rest of the
buffer after a short read (the rest of that variant has the same control); two
tasks contending for the `try_lock`s, where a `Pending` is returned that nobody
wakes (690); ownership and extended attributes, set by calls that change nothing
a later step looks at; links that lead out of the destination, which
`validate_inside_dst` refuses; creation of the destination; entries whose time
does not parse; the code for Windows; user and group names, device numbers and
`set_link_name` in headers (copies of bytes, octal numbers, a path without the
split); `Debug`; the wrapping and text of errors (`error.rs`, `lib.rs`).

## Plan

1. `TarFormat`, `EntriesStream`, `TarWalk`, `MCEntries`, `EntriesStreamProofs`,
   `EntriesOrderProofs`: done.
2. `Builder`, `RoundTrip`, `MCRoundTrip`, `RoundTripProofs`: done.
3. `FileReader`, `EntryRead`, `MCEntryRead`, `EntryReadProofs`: done.
4. `FileTree`, `Unpack`, `DirWalk`, `TreeTrip`, `MCUnpack`, `FileTreeProofs`,
   `TreeTripProofs`, `TreeTripLastProofs`, `TreeTripFailProofs`: done.
5. `HeaderFields`, `Pax`, `MCFields`: done.
6. Left: `InnerLock`, a second task at the locks, as an extension of `EntriesStream`;
   the refinement of `TarWalk` for archives without sparse members.
