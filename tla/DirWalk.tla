------------------------------ MODULE DirWalk ------------------------------
(***************************************************************************)
(* Builder::append_dir_all: a tree becomes the entries of an archive, in   *)
(* an order that is up to read_dir.  A directory is taken from the stack,  *)
(* its children are put on it, and it is appended before any of them.      *)
(***************************************************************************)
EXTENDS FileTree, SequencesExt

VARIABLES
    source,     \* the tree and its inodes; besides files it has "fifo"s and "socket"s
    base,       \* path, the name of the root in the archive: maybe empty, or "."
    follow,     \* follow_symlinks
    mode,       \* HeaderMode
    stack,      \* what is still to be archived
    archive,    \* the entries appended so far
    walk        \* "idle", "walk", "done" or "failed"

walkVars == <<source, base, follow, mode, stack, archive, walk>>

There == source.tree

Item(src, dir, link) == [src |-> src, dir |-> dir, link |-> link]

StartWalk == stack = <<Item(<<>>, TRUE, FALSE)>> /\ archive = <<>> /\ walk = "walk"

\* set_metadata_in_mode: the permissions in the header.
ModeOf(node) ==
    LET perm == CASE node.kind = "dir"  -> node.perm
                  [] node.kind = "file" -> source.disk[node.ino].perm
                  [] OTHER              -> {"w"}
    IN  IF mode = "complete" THEN perm
        ELSE IF node.kind = "dir" \/ "x" \in perm THEN {"w", "x"} ELSE {"w"}

\* A fifo is a member without data, which unpack takes for a file.
Entry(node, dest) ==
    [kind |-> IF node.kind = "fifo" THEN "file" ELSE node.kind,
     path |-> dest,
     link |-> IF node.kind = "symlink" THEN node.target ELSE None,
     mode |-> ModeOf(node)]

Top  == Last(stack)
Dest == base \o Top.src

\* What the item on top denotes.
Target == Canon(There, Top.src)

IsTree == Top.dir \/ (Top.link /\ follow /\ DenotesDir(There, Top.src))

Keep == UNCHANGED <<source, base, follow, mode>>

GiveUp == walk' = "failed" /\ Keep /\ UNCHANGED <<stack, archive>>

\* The children of a directory in some order, each with the type its own
\* node has: file_type follows no link.
Children(dir, src) ==
    LET names == {p[Len(p)] : p \in {q \in DOMAIN There : q # <<>> /\ Parent(q) = dir}}
        item(n) == LET kind == There[Append(dir, n)].kind
                   IN  Item(Append(src, n), kind = "dir", kind = "symlink")
    IN  {[i \in DOMAIN s |-> item(s[i])] : s \in SetToSeqs(names)}

\* Mutant: the directory itself is not appended.
WalkDirSilent ==
    /\ walk = "walk" /\ stack # <<>> /\ IsTree
    /\ IF ~IsDir(There, Target) THEN GiveUp
       ELSE /\ \E children \in Children(Target, Top.src) : stack' = Front(stack) \o children
            /\ Keep /\ UNCHANGED <<walk, archive>>

WalkDir ==
    /\ walk = "walk" /\ stack # <<>> /\ IsTree
    /\ IF ~IsDir(There, Target) THEN GiveUp
       ELSE /\ \E children \in Children(Target, Top.src) : stack' = Front(stack) \o children
            /\ archive' = IF Dest = <<>> THEN archive
                          ELSE Append(archive, Entry(There[Target], Dest))
            /\ Keep /\ UNCHANGED walk

\* The link itself is archived.
WalkLink ==
    /\ walk = "walk" /\ stack # <<>> /\ ~IsTree /\ Top.link /\ ~follow
    /\ IF ~Exists(There, Top.src) THEN GiveUp
       ELSE /\ stack' = Front(stack)
            /\ archive' = Append(archive, Entry(There[Place(There, Top.src)], Dest))
            /\ Keep /\ UNCHANGED walk

\* append_file, or append_special, which refuses sockets.
WalkFile ==
    /\ walk = "walk" /\ stack # <<>> /\ ~IsTree /\ (Top.link => follow)
    /\ IF Target = None \/ There[Target].kind = "socket" THEN GiveUp
       ELSE /\ stack' = Front(stack)
            /\ archive' = Append(archive, Entry(There[Target], Dest))
            /\ Keep /\ UNCHANGED walk

WalkDone == walk = "walk" /\ stack = <<>> /\ walk' = "done" /\ Keep /\ UNCHANGED <<stack, archive>>

WalkNext == WalkDir \/ WalkLink \/ WalkFile \/ WalkDone
=============================================================================
