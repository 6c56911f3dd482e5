------------------------------ MODULE FileTree ------------------------------
(***************************************************************************)
(* The file system as tar sees it (external): a tree of directories, files *)
(* and symbolic links.  tree maps the place of everything that exists to a *)
(* node; the root is the empty path.  A symbolic link names a path from    *)
(* the root.  The process is no superuser: "w" and "x" are what it may do  *)
(* with a directory, and "s" stands for the bits beyond rwx.               *)
(***************************************************************************)
EXTENDS Naturals, Sequences

CONSTANTS
    Names,      \* names of files and directories
    MaxLinks,   \* symbolic links followed in one lookup, before ELOOP
    None

ASSUME TreeAssumption == MaxLinks \in Nat /\ None \notin Seq(Names)

Path == Seq(Names)
Perm == SUBSET {"w", "x", "s"}

Dir(perm)       == [kind |-> "dir", perm |-> perm]
File(ino)       == [kind |-> "file", ino |-> ino]
Symlink(target) == [kind |-> "symlink", target |-> target]

Parent(p) == SubSeq(p, 1, Len(p) - 1)
Name(p) == p[Len(p)]

\* p lies below d.
Below(p, d) == Len(p) > Len(d) /\ SubSeq(p, 1, Len(d)) = d

\* A fifo or a socket is only ever archived.
NodeType(inodes) ==
    [kind : {"dir"}, perm : Perm] \cup [kind : {"file"}, ino : 1 .. inodes]
        \cup [kind : {"symlink"}, target : Path]
SpecialType == [kind : {"fifo", "socket"}]

\* There is a root, and everything else is in a directory.
IsRooted(tree) ==
    /\ DOMAIN tree \subseteq Path /\ <<>> \in DOMAIN tree
    /\ \A p \in DOMAIN tree \ {<<>>} :
            Parent(p) \in DOMAIN tree /\ tree[Parent(p)].kind = "dir"

IsDir(tree, p) == p \in DOMAIN tree /\ tree[p].kind = "dir"

MaySearch(tree, p) == IsDir(tree, p) /\ "x" \in tree[p].perm
MayWrite(tree, p)  == MaySearch(tree, p) /\ "w" \in tree[p].perm

\* What a path denotes, all links followed, when n links may be followed: its
\* place, or None if there is nothing, a directory on the way may not be
\* searched, or too many links are met; and how many may still be followed.
Lookup(tree) ==
    LET nothing == [at |-> None, left |-> 0]
        walk[a \in (0 .. MaxLinks) \X Path] ==
            LET n == a[1]
                p == a[2]
                d == walk[<<n, Parent(p)>>]
                q == Append(d.at, Name(p))
            IN  IF p = <<>> THEN [at |-> <<>>, left |-> n]
                ELSE IF ~MaySearch(tree, d.at) \/ q \notin DOMAIN tree THEN nothing
                ELSE IF tree[q].kind # "symlink" THEN [at |-> q, left |-> d.left]
                ELSE IF d.left = 0 THEN nothing
                ELSE walk[<<d.left - 1, tree[q].target>>]
    IN  walk

\* canonicalize
Canon(tree, path) == Lookup(tree)[<<MaxLinks, path>>].at

\* Where p itself is, or would be: links are followed up to its last name.
Place(tree, p) ==
    IF p = <<>> THEN <<>>
    ELSE IF MaySearch(tree, Canon(tree, Parent(p)))
         THEN Append(Canon(tree, Parent(p)), Name(p))
         ELSE None

\* symlink_metadata succeeds.
Exists(tree, p) == Place(tree, p) # None /\ Place(tree, p) \in DOMAIN tree

\* create_dir, open with create_new, symlink or hard_link succeeds at p.
MayCreate(tree, p) ==
    /\ Place(tree, p) # None /\ Place(tree, p) \notin DOMAIN tree
    /\ MayWrite(tree, Canon(tree, Parent(p)))

\* remove_file succeeds at p.
MayRemove(tree, p) ==
    /\ Exists(tree, p) /\ tree[Place(tree, p)].kind # "dir"
    /\ MayWrite(tree, Canon(tree, Parent(p)))

With(tree, p, node) ==
    [q \in DOMAIN tree \cup {p} |-> IF q = p THEN node ELSE tree[q]]

Without(tree, p) == [q \in DOMAIN tree \ {p} |-> tree[q]]

\* metadata(p).is_dir()
DenotesDir(tree, p) == IsDir(tree, Canon(tree, p))
=============================================================================
