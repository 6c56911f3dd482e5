------------------------------- MODULE Unpack -------------------------------
(***************************************************************************)
(* Archive::unpack and unpack_in: the entries of an archive become files,  *)
(* directories and links, one system call per step, while another process  *)
(* may create or remove a file and unpacking may be cut short anywhere, by *)
(* an error of the archive or the disk or because its future is dropped.   *)
(* Then, or when it is done, it may be called again on what is there.      *)
(***************************************************************************)
EXTENDS FileTree

CONSTANTS
    Disks,          \* what may be there before: pairs of a tree and its inodes
    Settings,       \* the setters of Archive, see SettingType
    Meddling,       \* places where another process may create or remove a file
    MaxMeddles,     \* bound on how often it does
    MaxAttempts     \* bound on the calls of Archive::unpack

(***************************************************************************)
(* An entry as unpack sees it.  "bsd" is a file with a slash at the end of *)
(* its name and a header that is not ustar, "meta" a member that describes *)
(* others.  path is None if it has a ".."; its "." and "/" are left out.   *)
(* mode and link are None where the header has none that parses.           *)
(***************************************************************************)
EntryType ==
    [kind : {"file", "dir", "bsd", "symlink", "hardlink", "meta"},
     path : Path \cup {None}, link : Path \cup {None}, mode : Perm \cup {None}]

\* set_overwrite, set_mask, set_preserve_permissions, set_preserve_mtime.
SettingType == [overwrite : BOOLEAN, mask : Perm, preserve : BOOLEAN, mtime : BOOLEAN]

(***************************************************************************)
(* A file.  maker is the number of the entry it was made for, or 0 for a   *)
(* file of somebody else; data is the number of the entry all of whose     *)
(* bytes it has, 0 for other data, and None while it is incomplete.        *)
(***************************************************************************)
InodeType == [maker : Nat, data : Nat \cup {None}, perm : Perm, dated : BOOLEAN]

ASSUME UnpackAssumption ==
    /\ Settings \subseteq SettingType
    /\ \A d \in Disks : /\ d.disk \in Seq(InodeType) /\ IsRooted(d.tree)
                        /\ \A p \in DOMAIN d.tree : d.tree[p] \in NodeType(Len(d.disk))
    /\ Meddling \subseteq Path
    /\ MaxMeddles \in Nat /\ MaxAttempts \in Nat
    /\ None \notin Nat /\ \A perm \in Perm : perm # None

VARIABLES
    archive,    \* the entries, in the order of the archive
    set,        \* the settings
    tree, disk, \* the destination: places, and the files behind them
    first,      \* the tree that was there before
    pc,         \* the next system call
    k,          \* how many entries the stream has yielded
    cur,        \* number of the entry being unpacked
    directories,    \* numbers of the entries put off
    f,          \* number of the open file
    meddles, attempts, cuts     \* what has been counted so far

fixed  == <<archive, set, first>>
counts == <<meddles, attempts, cuts>>
vars   == <<fixed, tree, disk, pc, k, cur, directories, f, counts>>

-----------------------------------------------------------------------------
InitUnpack ==
    /\ set \in Settings
    /\ \E d \in Disks : tree = d.tree /\ disk = d.disk /\ first = d.tree
    /\ k = 0 /\ cur = 0 /\ directories = <<>> /\ f = 0
    /\ meddles = 0 /\ attempts = 1 /\ cuts = 0

E == archive[cur]

\* The next system call is one for the same entry.
Go(next) ==
    /\ pc' = next
    /\ UNCHANGED <<fixed, k, cur, directories, counts>>

\* An error ends unpack; nothing is undone.
Fail == Go("failed") /\ UNCHANGED <<tree, disk, f>>

-----------------------------------------------------------------------------
(***************************************************************************)
(* Archive::unpack: directories are put off, to be made after all others.  *)
(***************************************************************************)

\* Mutant: they are made as they come.
PutNoneOff(e) == FALSE

IsPutOff(e) == e.kind = "dir"

PutOff ==
    /\ pc = "next" /\ k < Len(archive) /\ IsPutOff(archive[k + 1])
    /\ k' = k + 1
    /\ directories' = Append(directories, k + 1)
    /\ UNCHANGED <<fixed, tree, disk, pc, cur, f, counts>>

\* unpack_in: a name with ".." or without a component is passed over.
Start(n) ==
    /\ cur' = n
    /\ pc' = IF archive[n].path \in {None, <<>>} THEN "next" ELSE "parents"
    /\ UNCHANGED <<fixed, tree, disk, f, counts>>

NextEntry ==
    /\ pc = "next" /\ k < Len(archive) /\ ~IsPutOff(archive[k + 1])
    /\ Start(k + 1)
    /\ k' = k + 1
    /\ UNCHANGED directories

NextDirectory ==
    /\ pc = "next" /\ k = Len(archive) /\ directories # <<>>
    /\ Start(Head(directories))
    /\ directories' = Tail(directories)
    /\ UNCHANGED k

Unpacked ==
    /\ pc = "next" /\ k = Len(archive) /\ directories = <<>>
    /\ Go("ok") /\ UNCHANGED <<tree, disk, f>>

-----------------------------------------------------------------------------
(***************************************************************************)
(* ensure_dir_created and validate_inside_dst                              *)
(***************************************************************************)

\* Lengths of the prefixes of p that are directories above it and not there.
Missing(p) == {n \in 1 .. Len(p) - 1 : ~Exists(tree, SubSeq(p, 1, n))}

NewDir == Dir({"w", "x"})

\* A new node at p, where Place says.
Make(p, node) == tree' = With(tree, Place(tree, p), node)

MakeParent ==
    /\ pc = "parents" /\ Missing(E.path) # {}
    /\ LET n == CHOOSE n \in Missing(E.path) : \A m \in Missing(E.path) : n <= m
           p == SubSeq(E.path, 1, n)
       IN  IF MayCreate(tree, p)
           THEN Make(p, NewDir) /\ Go("parents") /\ UNCHANGED <<disk, f>>
           ELSE Fail

\* What unpack does first for an entry of this kind: any that is not known
\* is a file.
FirstCall(kind) ==
    CASE kind \in {"dir", "bsd"}          -> "mkdir"
      [] kind \in {"symlink", "hardlink"} -> kind
      [] kind = "meta"                    -> "next"
      [] OTHER                            -> "open"

Validate ==
    /\ pc = "parents" /\ Missing(E.path) = {}
    /\ Go(IF Canon(tree, Parent(E.path)) = None THEN "failed" ELSE FirstCall(E.kind))
    /\ UNCHANGED <<tree, disk, f>>

-----------------------------------------------------------------------------
(***************************************************************************)
(* unpack_dir and set_perms                                                *)
(***************************************************************************)

AfterDir == IF E.mode = None THEN "next" ELSE "chmod"

\* Mutant: a directory that is there already is an error.
MakeDirOnce ==
    /\ pc = "mkdir"
    /\ IF MayCreate(tree, E.path)
       THEN Make(E.path, NewDir) /\ Go(AfterDir)
       ELSE UNCHANGED tree /\ Go("failed")
    /\ UNCHANGED <<disk, f>>

\* A directory may be there already, or a link to one.
MakeDir ==
    /\ pc = "mkdir"
    /\ IF MayCreate(tree, E.path)
       THEN Make(E.path, NewDir) /\ Go(AfterDir)
       ELSE /\ UNCHANGED tree
            /\ Go(IF Exists(tree, E.path) /\ DenotesDir(tree, E.path)
                  THEN AfterDir ELSE "failed")
    /\ UNCHANGED <<disk, f>>

\* Mutant: nothing is masked.
PermsAll(e) == IF set.preserve THEN e.mode ELSE e.mode \ {"s"}

\* The permissions of an entry, less the mask and, unless they are all to
\* be preserved, the bits beyond rwx.
Perms(e) == (IF set.preserve THEN e.mode ELSE e.mode \ {"s"}) \ set.mask

\* chmod by path: links are followed, and by now another process may have put
\* a file where a link to a directory was.
SetDirPerms ==
    /\ pc = "chmod"
    /\ LET p == Canon(tree, E.path)
       IN  IF p = None THEN Fail
           ELSE /\ IF IsDir(tree, p)
                   THEN tree' = With(tree, p, Dir(Perms(E))) /\ UNCHANGED disk
                   ELSE /\ disk' = [disk EXCEPT ![tree[p].ino].perm = Perms(E)]
                        /\ UNCHANGED tree
                /\ Go("next") /\ UNCHANGED f

-----------------------------------------------------------------------------
(***************************************************************************)
(* Files                                                                   *)
(***************************************************************************)

NewFile == [maker |-> cur, data |-> None, perm |-> {"w"}, dated |-> FALSE]

\* open with create_new: a file of our own, or an error.
CreateNew ==
    /\ MayCreate(tree, E.path)
    /\ disk' = Append(disk, NewFile)
    /\ f' = Len(disk) + 1
    /\ Make(E.path, File(Len(disk) + 1))
    /\ Go("copy")

\* Mutant: what is there is removed whatever set_overwrite says.
OpenOver ==
    /\ pc = "open"
    /\ \/ CreateNew
       \/ /\ ~MayCreate(tree, E.path)
          /\ Go(IF Exists(tree, E.path) THEN "remove" ELSE "failed")
          /\ UNCHANGED <<tree, disk, f>>

Open ==
    /\ pc = "open"
    /\ \/ CreateNew
       \/ /\ ~MayCreate(tree, E.path)
          /\ Go(IF Exists(tree, E.path) /\ set.overwrite THEN "remove" ELSE "failed")
          /\ UNCHANGED <<tree, disk, f>>

\* Mutant: directories are removed too.
RemoveAny ==
    /\ pc = "remove"
    /\ IF Exists(tree, E.path)
       THEN tree' = Without(tree, Place(tree, E.path)) /\ Go("reopen")
       ELSE UNCHANGED tree /\ Go("reopen")
    /\ UNCHANGED <<disk, f>>

\* remove_file may find that another process has removed it.
Remove ==
    /\ pc = "remove"
    /\ IF MayRemove(tree, E.path)
       THEN tree' = Without(tree, Place(tree, E.path)) /\ Go("reopen")
       ELSE UNCHANGED tree /\ Go(IF Exists(tree, E.path) THEN "failed" ELSE "reopen")
    /\ UNCHANGED <<disk, f>>

\* Mutant: the file is not opened again once the old one is gone.
ReopenNot == pc = "reopen" /\ Go("next") /\ UNCHANGED <<tree, disk, f>>

Reopen ==
    /\ pc = "reopen"
    /\ \/ CreateNew
       \/ ~MayCreate(tree, E.path) /\ Fail

AfterFile == IF set.mtime THEN "utimes" ELSE "fchmod"

Copy ==
    /\ pc = "copy"
    /\ disk' = [disk EXCEPT ![f].data = cur]
    /\ Go(AfterFile) /\ UNCHANGED <<tree, f>>

\* set_file_times by path: whatever is there now, links followed.
SetTimes ==
    /\ pc = "utimes"
    /\ LET p == Canon(tree, E.path)
       IN  IF p = None THEN Fail
           ELSE /\ disk' = IF tree[p].kind = "file"
                           THEN [disk EXCEPT ![tree[p].ino].dated = TRUE] ELSE disk
                /\ Go("fchmod") /\ UNCHANGED <<tree, f>>

\* Mutant: the bits are set by name.
SetFilePermsByName ==
    /\ pc = "fchmod"
    /\ LET p == Canon(tree, E.path)
       IN  disk' = IF E.mode = None \/ p = None \/ tree[p].kind # "file" THEN disk
                   ELSE [disk EXCEPT ![tree[p].ino].perm = Perms(E)]
    /\ f' = 0
    /\ Go("next") /\ UNCHANGED tree

\* set_permissions on the open file, whatever has become of its name.
SetFilePerms ==
    /\ pc = "fchmod"
    /\ disk' = IF E.mode = None THEN disk ELSE [disk EXCEPT ![f].perm = Perms(E)]
    /\ f' = 0
    /\ Go("next") /\ UNCHANGED tree

-----------------------------------------------------------------------------
(***************************************************************************)
(* Links                                                                   *)
(***************************************************************************)

\* validate_inside_dst asks for what the link denotes, hard_link for the
\* node of that name, which may be a symbolic link but no directory.
HardLink ==
    /\ pc = "hardlink"
    /\ IF /\ E.link \notin {None, <<>>}
          /\ Canon(tree, E.link) # None
          /\ tree[Place(tree, E.link)].kind # "dir"
          /\ MayCreate(tree, E.path)
       THEN Make(E.path, tree[Place(tree, E.link)]) /\ Go("next") /\ UNCHANGED <<disk, f>>
       ELSE Fail

AfterLink == IF set.mtime THEN "lutimes" ELSE "next"

SymLink ==
    /\ pc = "symlink"
    /\ IF E.link \in {None, <<>>} THEN Fail
       ELSE IF MayCreate(tree, E.path)
       THEN Make(E.path, Symlink(E.link)) /\ Go(AfterLink) /\ UNCHANGED <<disk, f>>
       ELSE /\ Go(IF Exists(tree, E.path) /\ set.overwrite THEN "unlink" ELSE "failed")
            /\ UNCHANGED <<tree, disk, f>>

\* Here it is an error if another process has removed it.
Unlink ==
    /\ pc = "unlink"
    /\ IF MayRemove(tree, E.path)
       THEN tree' = Without(tree, Place(tree, E.path)) /\ Go("relink")
       ELSE UNCHANGED tree /\ Go("failed")
    /\ UNCHANGED <<disk, f>>

Relink ==
    /\ pc = "relink"
    /\ IF MayCreate(tree, E.path)
       THEN Make(E.path, Symlink(E.link)) /\ Go(AfterLink) /\ UNCHANGED <<disk, f>>
       ELSE Fail

SetLinkTimes ==
    /\ pc = "lutimes"
    /\ Go(IF Exists(tree, E.path) THEN "next" ELSE "failed")
    /\ UNCHANGED <<tree, disk, f>>

-----------------------------------------------------------------------------
(***************************************************************************)
(* Faults, retries, and another process                                    *)
(***************************************************************************)

Running == pc \notin {"ok", "failed", "cut"}

\* The archive or the disk gives an error, or the future is dropped: once, of
\* all attempts.
CutShort ==
    /\ Running /\ cuts = 0
    /\ pc' = "cut" /\ cuts' = 1
    /\ UNCHANGED <<fixed, tree, disk, k, cur, directories, f, meddles, attempts>>

\* The archive is opened and unpacked anew, over what is there.
Again ==
    /\ ~Running /\ attempts < MaxAttempts
    /\ attempts' = attempts + 1
    /\ pc' = "next" /\ k' = 0 /\ cur' = 0 /\ directories' = <<>> /\ f' = 0
    /\ UNCHANGED <<fixed, tree, disk, meddles, cuts>>

Others == [maker |-> 0, data |-> 0, perm |-> {}, dated |-> FALSE]

Meddle ==
    /\ Running /\ meddles < MaxMeddles
    /\ meddles' = meddles + 1
    /\ \E p \in Meddling :
        \/ /\ MayCreate(tree, p)
           /\ Make(p, File(Len(disk) + 1))
           /\ disk' = Append(disk, Others)
        \/ /\ MayRemove(tree, p)
           /\ tree' = Without(tree, Place(tree, p))
           /\ UNCHANGED disk
    /\ UNCHANGED <<fixed, pc, k, cur, directories, f, attempts, cuts>>

EntryStep ==
    \/ MakeParent \/ Validate \/ MakeDir \/ SetDirPerms
    \/ Open \/ Remove \/ Reopen \/ Copy \/ SetTimes \/ SetFilePerms
    \/ HardLink \/ SymLink \/ Unlink \/ Relink \/ SetLinkTimes

UnpackNext ==
    \/ PutOff \/ NextEntry \/ NextDirectory \/ Unpacked
    \/ EntryStep
    \/ CutShort \/ Again \/ Meddle

=============================================================================
