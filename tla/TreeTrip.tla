------------------------------ MODULE TreeTrip ------------------------------
(***************************************************************************)
(* Archives that are given, and archives that append_dir_all makes of a    *)
(* tree, are unpacked; and what unpacking promises.                        *)
(***************************************************************************)
EXTENDS Unpack, FiniteSets

CONSTANTS
    Archives,   \* the archives that are given
    Sources,    \* the trees to be archived, with their inodes
    Bases,      \* the names they get
    MaxDepth    \* paths of the source that TreeCopied looks at

ASSUME TripAssumption ==
    /\ Archives \subseteq Seq(EntryType)
    /\ Bases \subseteq Path
    /\ \A s \in Sources :
        /\ s.disk \in Seq(InodeType) /\ IsRooted(s.tree) /\ IsFiniteSet(DOMAIN s.tree)
        /\ \A p \in DOMAIN s.tree : s.tree[p] \in NodeType(Len(s.disk)) \cup SpecialType
    /\ MaxDepth \in Nat

VARIABLES source, base, follow, mode, stack, walk

W == INSTANCE DirWalk

walkOnly == <<source, base, follow, mode, stack, walk>>
tripVars == <<vars, walkOnly>>

TripInit ==
    /\ InitUnpack
    /\ \/ /\ archive \in Archives /\ pc = "next"
          /\ source = None /\ base = <<>> /\ follow = FALSE /\ mode = "complete"
          /\ stack = <<>> /\ walk = "idle"
       \/ /\ source \in Sources /\ base \in Bases
          /\ follow \in BOOLEAN /\ mode \in {"complete", "deterministic"}
          /\ W!StartWalk /\ pc = "waits"

\* Unpacking starts when the archive is finished.
WalkStep ==
    /\ W!WalkNext
    /\ pc' = IF walk' = "done" THEN "next" ELSE pc
    /\ UNCHANGED <<set, first, tree, disk, k, cur, directories, f, counts>>

UnpackStep == walk \in {"idle", "done"} /\ UnpackNext /\ UNCHANGED walkOnly

TripNext == WalkStep \/ UnpackStep

TripSpec == TripInit /\ [][TripNext]_tripVars

-----------------------------------------------------------------------------
TypeOK ==
    /\ set \in Settings
    /\ archive \in Seq(EntryType)
    /\ IsRooted(tree) /\ \A p \in DOMAIN tree : tree[p] \in NodeType(Len(disk))
    /\ disk \in Seq(InodeType)
    /\ k \in 0 .. Len(archive) /\ cur \in 0 .. Len(archive)
    /\ f \in 0 .. Len(disk) /\ (pc \in {"copy", "utimes", "fchmod"} => f # 0)

-----------------------------------------------------------------------------
(***************************************************************************)
(* What is promised about files that were there, and files of others       *)
(***************************************************************************)

\* The files that were there before.
FirstFiles == {first[p].ino : p \in {q \in DOMAIN first : first[q].kind = "file"}}

\* unpack never writes to a file it has not made: it makes a new file and if
\* need be removes a name first (entry.rs:706-707).  Nor does it change the
\* bits of a file that was there before it began.  Those of a file that another
\* process makes meanwhile it does change if it takes it for a directory it has
\* just found (entry.rs:893), and then only.  Times are left out: they are set
\* by name (entry.rs:772), and may hit any file.
OnlyOwnFiles ==
    [][\A i \in DOMAIN disk :
          disk[i].maker = 0 =>
              /\ disk'[i].maker = 0
              /\ disk'[i].data = disk[i].data
              /\ disk'[i].perm # disk[i].perm =>
                    /\ pc = "chmod" /\ E.kind \in {"dir", "bsd"}
                    /\ i \notin FirstFiles]_tripVars

\* Unless set_overwrite is on nothing that is there makes way for an entry,
\* and directories never do (archive.rs:186-189).
Kept ==
    [][meddles' = meddles =>
        \A p \in DOMAIN tree :
            /\ tree[p].kind = "dir" \/ ~set.overwrite => p \in DOMAIN tree'
            /\ tree[p].kind = "dir" => tree'[p].kind = "dir"
            /\ tree[p].kind # "dir" /\ ~set.overwrite => tree'[p] = tree[p]]_tripVars

\* Names that are, or come to be, symbolic links.
LinkNames ==
    {p \in DOMAIN first : first[p].kind = "symlink"}
        \cup {archive[n].path : n \in {m \in DOMAIN archive :
                                     archive[m].kind = "symlink" /\ archive[m].path \notin {None, <<>>}}}

\* p is such a name, or leads through one.
Bends(p) == p # None /\ \E q \in LinkNames : p = q \/ Below(p, q)

\* No path of an entry leads through a symbolic link, and no hard link is
\* made to one.
Direct ==
    \A n \in DOMAIN archive :
        /\ archive[n].path # None => \A q \in LinkNames : ~Below(archive[n].path, q)
        /\ archive[n].kind = "hardlink" => ~Bends(archive[n].link)

\* A name that is there is missing only while unpack replaces it: a call that
\* is cut short loses one file at most, one that fails none, unless it took
\* away the very link its path led through, and one that succeeds has lost
\* none (entry.rs:721-730), unless an earlier one was cut short and the links
\* have come to lead elsewhere.
NothingLost ==
    meddles = 0 =>
        LET lost == DOMAIN first \ DOMAIN tree
        IN  /\ Direct =>
                Cardinality(lost) <= cuts + (IF pc \in {"reopen", "relink"} THEN 1 ELSE 0)
            /\ pc = "ok" /\ (Direct \/ attempts = 1) => lost = {}

-----------------------------------------------------------------------------
(***************************************************************************)
(* What unpacking an archive leaves behind                                 *)
(***************************************************************************)

DirKinds == {"dir", "bsd"}

\* The entries that make something.
Made == {n \in DOMAIN archive :
            archive[n].path \notin {None, <<>>} /\ archive[n].kind # "meta"}

\* n is unpacked before m: in the order of the archive, but directories last.
Before(n, m) ==
    LET late(i) == archive[i].kind = "dir"
    IN  IF late(n) = late(m) THEN n < m ELSE late(m)

LastAt(n) == \A m \in Made : archive[m].path = archive[n].path => m = n \/ Before(m, n)

\* No name leads through a symbolic link, of the archive or from before, so
\* that every place has one name.
Straight ==
    /\ Direct
    /\ \A n \in DOMAIN archive :
        LET e == archive[n]
        IN  /\ e.kind \in DirKinds => ~Bends(e.path)
            /\ e.kind = "meta" => e.path # None /\ Len(e.path) = 1

Undisturbed == meddles = 0 /\ Straight

\* The bits an entry asks for, on a node of this process.
AsksFor(n, perm) ==
    archive[n].mode # None =>
        perm = {b \in archive[n].mode : b \notin set.mask /\ (b = "s" => set.preserve)}

FileLeft(n) ==
    LET node == tree[archive[n].path]
    IN  /\ node.kind = "file"
        /\ disk[node.ino].maker = n /\ disk[node.ino].data = n
        /\ AsksFor(n, disk[node.ino].perm)
        /\ disk[node.ino].dated = set.mtime

\* The file a hard link names when its turn comes: the last one before it.
LinkedTo(n, m) ==
    /\ m \in Made /\ archive[m].path = archive[n].link /\ Before(m, n)
    /\ \A i \in Made : archive[i].path = archive[n].link /\ Before(i, n) => i = m \/ Before(i, m)

\* What entry n has made is there: a whole file with its bits and times, a
\* link, or a directory with its bits; a hard link has the contents of the
\* file it was made of.
Left(n) ==
    LET e == archive[n]
    IN  /\ e.path \in DOMAIN tree
        /\ e.kind = "file" => FileLeft(n)
        /\ e.kind = "symlink" => tree[e.path] = Symlink(e.link)
        /\ e.kind \in DirKinds => tree[e.path].kind = "dir" /\ AsksFor(n, tree[e.path].perm)
        /\ e.kind = "hardlink" =>
                \A m \in Made : LinkedTo(n, m) /\ archive[m].kind = "file" =>
                    /\ tree[e.path].kind = "file"
                    /\ disk[tree[e.path].ino].data = m

\* After a call that succeeds every name is what the last entry of that name
\* says.
LastWins == pc = "ok" /\ Undisturbed => \A n \in Made : LastAt(n) => Left(n)

-----------------------------------------------------------------------------
(***************************************************************************)
(* When unpacking fails                                                    *)
(***************************************************************************)

\* Two entries that cannot both be unpacked, n before m.
Clash(n, m) ==
    LET e == archive[n]  g == archive[m]
        dirs == {e.kind \in DirKinds, g.kind \in DirKinds}
    IN  /\ Before(n, m)
        /\ \/ e.path = g.path /\ dirs = {TRUE, FALSE}
           \/ e.path = g.path /\ dirs = {FALSE} /\ (~set.overwrite \/ g.kind = "hardlink")
           \/ Below(g.path, e.path) /\ e.kind \notin DirKinds
           \/ Below(e.path, g.path) /\ g.kind \notin DirKinds

\* A link without a name, or a hard link to nothing or to a directory.
BadLink(n) ==
    /\ archive[n].kind \in {"symlink", "hardlink"}
    /\ \/ archive[n].link \in {None, <<>>}
       \/ /\ archive[n].kind = "hardlink"
          /\ ~\E m \in Made : LinkedTo(n, m) /\ archive[m].kind \notin DirKinds

\* Entry n makes what is at p, or a directory on the way to what it makes.
Makes(n, p) == archive[n].path = p \/ Below(archive[n].path, p)

\* Directory n has its bits when m is unpacked, and they forbid it: without
\* "x" if m or what it links to is below, without "w" if m creates something.
Closed(n, m) ==
    LET d == archive[n].path
        bits == archive[n].mode \ set.mask
        e == archive[m]
        child == SubSeq(e.path, 1, Len(d) + 1)
    IN  /\ archive[n].kind \in DirKinds /\ archive[n].mode # None
        /\ Before(n, m)
        /\ \A i \in Made :
                Before(n, i) /\ Before(i, m) /\ archive[i].path = d => archive[i].mode = None
        /\ \/ "x" \notin bits /\ Below(e.path, d)
           \/ "x" \notin bits /\ e.kind = "hardlink" /\ e.link # None /\ Below(e.link, d)
           \/ /\ "w" \notin bits /\ Below(e.path, d)
              /\ \/ child = e.path /\ e.kind \notin DirKinds
                 \/ ~\E i \in Made : Before(i, n) /\ Makes(i, child)

Fresh == first = [p \in {<<>>} |-> NewDir]

\* Into a new directory, unpack succeeds only if no two entries clash and no
\* link is bad, and fails only then, or if a directory comes to be closed
\* before something below it is made.  That it does fail there is a fault: see
\* DirectoriesDontInterfere.
FailsWhenItMust ==
    LET wrong == \/ \E n, m \in Made : Clash(n, m)
                 \/ \E n \in Made : BadLink(n)
    IN  Fresh /\ attempts = 1 /\ Undisturbed =>
            /\ pc = "ok" => ~wrong
            /\ pc = "failed" => wrong \/ \E n, m \in Made : Closed(n, m)

\* Directories are put off to the end so that their permissions do not get in
\* the way of what lies in them, says the comment (archive.rs:262-264): into a
\* new directory, unpack fails only over entries that clash or links that are
\* bad.  It does not hold: directories are made in the order of the
\* archive, and one that only a later entry makes is below one that is closed.
DirectoriesDontInterfere ==
    /\ Fresh /\ attempts = 1 /\ Undisturbed
    /\ ~\E n, m \in Made : Clash(n, m)
    /\ ~\E n \in Made : BadLink(n)
    => pc # "failed"

\* Over what an earlier call has left, whole or not, unpacking with overwrite
\* succeeds if that succeeds at all, there are no hard links, and every
\* directory may be written: a call that was cut short can be made again.
AgainSucceeds ==
    /\ Fresh /\ attempts > 1 /\ Undisturbed /\ set.overwrite
    /\ \A n \in Made :
        /\ archive[n].kind # "hardlink" /\ ~BadLink(n)
        /\ archive[n].kind \in DirKinds /\ archive[n].mode # None =>
                {"w", "x"} \subseteq archive[n].mode \ set.mask
    /\ ~\E n, m \in Made : Clash(n, m)
    => pc # "failed"

-----------------------------------------------------------------------------
(***************************************************************************)
(* A tree there and back                                                   *)
(***************************************************************************)

\* The node of the source that is archived under a path.
SourceAt(p) == IF follow THEN Canon(source.tree, p) ELSE Place(source.tree, p)

\* Paths to nodes of the source, as the walk takes them.
SourcePaths ==
    LET up[n \in 0 .. MaxDepth] ==
            IF n = 0 THEN {<<>>} ELSE up[n - 1] \cup {Append(p, x) : p \in up[n - 1], x \in Names}
    IN  {p \in up[MaxDepth] : IF follow THEN SourceAt(p) # None ELSE p \in DOMAIN source.tree}

CopyOf(p) ==
    LET node == source.tree[SourceAt(p)]
        here == tree[base \o p]
        asked == W!ModeOf(node)
    IN  /\ node.kind = "symlink" => here = node
        /\ node.kind = "dir" => here = Dir({b \in asked : b \notin set.mask /\ (b = "s" => set.preserve)})
        /\ node.kind \in {"file", "fifo"} => here.kind = "file"

\* A tree that is archived and unpacked is copied: its directories, links and
\* files are there, no more and no fewer, and with follow what the links lead
\* to stands in their place.
TreeCopied ==
    walk = "done" /\ pc = "ok" /\ Fresh /\ meddles = 0 =>
        /\ DOMAIN tree \ {SubSeq(base, 1, n) : n \in 0 .. Len(base)}
               = {base \o p : p \in SourcePaths} \ {base}
        /\ \A p \in SourcePaths \ {<<>>} : CopyOf(p)
=============================================================================
