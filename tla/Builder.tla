------------------------------ MODULE Builder ------------------------------
(***************************************************************************)
(* Builder: calls that append members to an archive behind a writer that   *)
(* may fail, and whose futures may be dropped, at any byte.  The archive   *)
(* is the sequence of bytes written; of a byte the model knows what it is  *)
(* a part of, so that a block is a header only if all of its bytes are.    *)
(*                                                                         *)
(* A call is a few stages, each of which hands bytes to write_all or       *)
(* io::copy.  What is still to be written is `todo`; nothing observes the  *)
(* archive while a call runs, so that the bytes go out in one step, or     *)
(* some of them and the call fails.                                        *)
(***************************************************************************)
EXTENDS TarFormat

CONSTANTS
    Names,      \* paths and link targets, see NameType
    NameMax,    \* bytes of the name and linkname fields (100)
    Requests,   \* the appends a caller may ask for, see RequestType
    MaxCalls    \* bound on the calls that write

(***************************************************************************)
(* fits: set_path (set_link_name) puts the name into the header as it is.  *)
(* head: set_path accepts its first NameMax bytes.                         *)
(***************************************************************************)
NameType == [text : STRING, len : Nat, fits : BOOLEAN, head : BOOLEAN]

(***************************************************************************)
(* api: "append" takes a finished header, "data" and "link" a header       *)
(* without names (append_data, append_link), "file" is a file, directory   *)
(* or symlink on disk (append_path, append_file, append_dir), "special" a  *)
(* fifo or device.  path: where it is on disk; name: what it is to be      *)
(* called in the archive; size: the size in the header or the metadata;    *)
(* lens: how many bytes its data may turn out to have when it is copied.   *)
(***************************************************************************)
RequestType ==
    [api : {"append", "data", "link", "file", "special"},
     path : Names, name : Names, link : Names \cup {None},
     size : Nat, lens : SUBSET Nat]

ASSUME BuilderAssumption ==
    /\ Names \subseteq NameType /\ None \notin Names
    /\ NameMax \in Nat
    /\ Requests \subseteq RequestType
    /\ MaxCalls \in Nat

VARIABLES
    obj,        \* the bytes in the writer
    finished,   \* finish() has been called
    stage,      \* where the call in progress stands
    req,        \* what it was asked for
    todo,       \* bytes it is about to write
    sent,       \* bytes of data it was given to copy
    holder,     \* who has the writer: "builder", "caller", or "nobody"
    log         \* the calls so far: what was asked, and how each one ended

vars == <<obj, finished, stage, req, todo, sent, holder, log>>

-----------------------------------------------------------------------------
(***************************************************************************)
(* Bytes                                                                   *)
(***************************************************************************)

Blank == [tag |-> "zero"]
TextOf(name) == [tag |-> "text", name |-> name]
DataOf(k) == [tag |-> "data", call |-> k]

\* A header whose checksum has been set.
HeaderOf(kind, size, name, link) ==
    [tag |-> "head", name |-> name, link |-> link,
     blk |-> [zero |-> FALSE, cksum |-> TRUE, magic |-> "gnu", kind |-> kind,
              size |-> size, pax |-> None, sparse |-> <<>>, ext |-> FALSE,
              real |-> None]]

\* The first n bytes of something.
Bytes(what, n) == [j \in 1 .. n |-> [of |-> what, at |-> j]]
Zeros(n) == [j \in 1 .. n |-> [of |-> Blank, at |-> 0]]

\* The zeros that follow n bytes of data.
PaddingAlways(n) == Block - (n % Block)     \* mutant
PaddingTwice(n) == n % Block                \* mutant
Padding(n) == IF n % Block = 0 THEN 0 ELSE Block - (n % Block)

\* What append() writes: a header, its data, and the padding.
Appended(header, data) ==
    Bytes(header, Block) \o data \o Zeros(Padding(Len(data)))

\* Mutant: the NUL that the header counts is not written.
LongWithoutNul(kind, name) ==
    Appended(HeaderOf(kind, name.len + 1, name, None),
             Bytes(TextOf(name), name.len))

\* The longname or longlink member of a name, which ends with a NUL.
LongMember(kind, name) ==
    Appended(HeaderOf(kind, name.len + 1, name, None),
             Bytes(TextOf(name), name.len) \o Zeros(1))

\* The part of a long name that is put into the header after all: it fits.
CutName(name) == [name EXCEPT !.fits = TRUE]

\* The name a member goes by: append_special is not told the one asked for.
ArName(r) == IF r.api = "special" THEN r.path ELSE r.name

\* What the header says of the name or the link asked for.
StoredNone(name) == IF name.fits THEN name ELSE None        \* mutant
StoredName(name) == IF name.fits THEN name ELSE CutName(name)

-----------------------------------------------------------------------------
Finish    == [api |-> "finish"]
IntoInner == [api |-> "into_inner"]

Init ==
    /\ obj = <<>> /\ finished = FALSE
    /\ stage = "idle" /\ req = Finish /\ todo = <<>> /\ sent = 0
    /\ holder = "builder" /\ log = <<>>

Idle == stage = "idle" /\ holder = "builder"

\* append, append_data, append_link, append_path, append_file, append_dir.
CallAppend(r) ==
    /\ Idle /\ Len(log) < MaxCalls
    /\ req' = r
    /\ stage' = IF r.api = "append" THEN "member" ELSE "path"
    /\ UNCHANGED <<obj, finished, todo, sent, holder, log>>

\* The end of the archive; a builder that is finished writes it no more.
WriteEnd(r) ==
    /\ ~finished /\ Len(log) < MaxCalls
    /\ finished' = TRUE
    /\ req' = r
    /\ todo' = Zeros(2 * Block)
    /\ stage' = "written"
    /\ UNCHANGED <<obj, sent, holder, log>>

CallFinish ==
    /\ Idle
    /\ \/ WriteEnd(Finish)
       \/ finished /\ UNCHANGED vars

CallIntoInner ==
    /\ Idle
    /\ \/ WriteEnd(IntoInner)
       \/ /\ finished
          /\ holder' = "caller"
          /\ UNCHANGED <<obj, finished, stage, req, todo, sent, log>>

-----------------------------------------------------------------------------
\* The call in progress is at this stage and has nothing left to write.
At(s) == stage = s /\ todo = <<>>

\* How a call ends.  An into_inner that fails drops the builder.
End(ok) ==
    /\ stage' = "idle" /\ todo' = <<>> /\ sent' = 0
    /\ log' = Append(log, [req |-> req, ok |-> ok, sent |-> sent])
    /\ holder' = IF req.api = "into_inner" THEN IF ok THEN "caller" ELSE "nobody"
                 ELSE holder
    /\ UNCHANGED <<finished, req>>

Proceed(s, bytes) ==
    /\ stage' = s /\ todo' = bytes
    /\ UNCHANGED <<obj, finished, req, sent, holder, log>>

\* prepare_header_path: the name goes into the header, or into a member before it.
PreparePath ==
    /\ At("path")
    /\ LET name == ArName(req)
       IN  \/ name.fits /\ Proceed("link", <<>>)
           \/ ~name.fits /\ name.len < NameMax /\ End(FALSE) /\ UNCHANGED obj
           \/ /\ ~name.fits /\ name.len >= NameMax
              /\ Proceed("cut", LongMember("longname", name))

\* The start of a long name is put into the header, if it is a path.
CutPath ==
    /\ At("cut")
    /\ IF ArName(req).head THEN Proceed("link", <<>>)
                           ELSE End(FALSE) /\ UNCHANGED obj

\* prepare_header_link, for those calls that have a link.
PrepareLink ==
    /\ At("link")
    /\ \/ req.link = None /\ Proceed("member", <<>>)
       \/ /\ req.link # None
          /\ \/ req.link.fits /\ Proceed("member", <<>>)
             \/ ~req.link.fits /\ req.link.len < NameMax /\ End(FALSE) /\ UNCHANGED obj
             \/ /\ ~req.link.fits /\ req.link.len >= NameMax
                /\ Proceed("member", LongMember("longlink", req.link))

StoredLink(link) == IF link = None THEN None ELSE StoredName(link)

Header == HeaderOf("file", req.size, StoredName(ArName(req)), StoredLink(req.link))

\* append(): the header and the data there is, whatever size the header says.
WriteMember ==
    /\ At("member") /\ req.api # "special"
    /\ \E n \in req.lens :
        /\ todo' = Appended(Header, Bytes(DataOf(Len(log) + 1), n))
        /\ sent' = n
    /\ stage' = "written"
    /\ UNCHANGED <<obj, finished, req, holder, log>>

\* append_special writes its header by itself.
WriteSpecial ==
    /\ At("member") /\ req.api = "special"
    /\ Proceed("written", Bytes(Header, Block))

Write ==
    /\ todo # <<>>
    /\ obj' = obj \o todo
    /\ todo' = <<>>
    /\ UNCHANGED <<finished, stage, req, sent, holder, log>>

\* A writer, a data reader or a file fails, or the caller drops the future.
Interrupted ==
    /\ stage # "idle"
    /\ \E n \in 0 .. Len(todo) : obj' = obj \o SubSeq(todo, 1, n)
    /\ End(FALSE)

Return ==
    /\ At("written")
    /\ End(TRUE)
    /\ UNCHANGED obj

Next ==
    \/ \E r \in Requests : CallAppend(r)
    \/ CallFinish \/ CallIntoInner
    \/ PreparePath \/ CutPath \/ PrepareLink
    \/ WriteMember \/ WriteSpecial
    \/ Write \/ Interrupted \/ Return

Spec == Init /\ [][Next]_vars

-----------------------------------------------------------------------------
(***************************************************************************)
(* Properties                                                              *)
(***************************************************************************)

Stages == {"idle", "path", "cut", "link", "member", "written"}

HeadType == [tag : {"head"}, name : NameType, link : NameType \cup {None},
             blk : BlockType]

ByteType ==
    [of : {Blank} \cup [tag : {"text"}, name : NameType]
                  \cup [tag : {"data"}, call : Nat] \cup HeadType,
     at : Nat]

CallType == Requests \cup {Finish, IntoInner}

\* A call to append that is not yet written out knows what it was asked.
HasRequest == stage \in {"path", "cut", "link", "member"} => req \in Requests

TypeOK ==
    /\ HasRequest
    /\ obj \in Seq(ByteType) /\ todo \in Seq(ByteType)
    /\ finished \in BOOLEAN /\ stage \in Stages
    /\ req \in CallType /\ sent \in Nat
    /\ holder \in {"builder", "caller", "nobody"}
    /\ log \in Seq([req : CallType, ok : BOOLEAN, sent : Nat])

\* No call has failed so far.
Clean == \A i \in DOMAIN log : log[i].ok

\* As long as no call fails, calls start and end at the boundary of a block:
\* append() pads what it copied, whatever the header says (builder.rs:463-473).
Aligned ==
    /\ stage = "idle" => todo = <<>>
    /\ Clean => (Len(obj) + Len(todo)) % Block = 0

\* Then every header lies in one block, so that a reader that goes from block
\* to block can find it.
OnGrid(bytes) ==
    \A i \in DOMAIN bytes :
        bytes[i].of.tag = "head" =>
            /\ (i - bytes[i].at) % Block = 0
            /\ bytes[i].at \in 1 .. Block

HeadersOnGrid == Clean => OnGrid(obj \o todo)
=============================================================================
