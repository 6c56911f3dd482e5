--------------------------- MODULE TreeTripProofs ---------------------------
(***************************************************************************)
(* Proofs about TreeTrip, for all archives, trees, settings and meddling:  *)
(* unpack keeps its hands off what is not its own (OnlyOwnFiles and Kept), *)
(* and its types, above all that the destination stays a tree of nodes     *)
(* whose files exist.                                                      *)
(***************************************************************************)
EXTENDS TreeTrip, FileTreeProofs, FiniteSetTheorems

-----------------------------------------------------------------------------
(***************************************************************************)
(* OnlyOwnFiles and Kept                                                   *)
(***************************************************************************)

\* r is a record of the shape of InodeType, whatever its values.
IsInode(r) == r = [maker |-> r.maker, data |-> r.data, perm |-> r.perm, dated |-> r.dated]

\* The disk is a sequence of inodes.
DiskOK == /\ \E S : disk \in Seq(S)
          /\ \A i \in DOMAIN disk : IsInode(disk[i])

\* Entries are counted.
Counted == k \in Nat /\ cur \in Nat /\ directories \in Seq(Nat \ {0})

\* While an entry is unpacked its number is known.
Numbered == pc \in {"parents", "open", "remove", "reopen"} => cur # 0

\* The file that is open is one that unpack has made.
OwnOpen == pc \in {"copy", "utimes", "fchmod"} => f \in DOMAIN disk /\ disk[f].maker # 0

\* Nothing is removed unless it may be overwritten.
Asked == pc \in {"remove", "unlink"} => set.overwrite

\* The inductive invariant for OnlyOwnFiles and Kept.
Inv == DiskOK /\ Counted /\ Numbered /\ OwnOpen /\ Asked

-----------------------------------------------------------------------------
\* A new file leaves the files there are what they are.
LEMMA AppendKeeps ==
    ASSUME NEW S, NEW s \in Seq(S), NEW x
    PROVE  /\ Append(s, x) \in Seq(S \cup {x})
           /\ DOMAIN Append(s, x) = DOMAIN s \cup {Len(s) + 1}
           /\ \A i \in DOMAIN s : Append(s, x)[i] = s[i]
           /\ Append(s, x)[Len(s) + 1] = x
           /\ Len(s) + 1 \notin DOMAIN s
<1> s \in Seq(S \cup {x}) OBVIOUS
<1> QED OBVIOUS

\* Changing a field of an inode leaves it an inode, and its other fields.
LEMMA InodeFields ==
    ASSUME NEW r, IsInode(r), NEW v
    PROVE  /\ IsInode([r EXCEPT !.data = v]) /\ [r EXCEPT !.data = v].maker = r.maker
           /\ IsInode([r EXCEPT !.perm = v]) /\ [r EXCEPT !.perm = v].maker = r.maker
           /\ [r EXCEPT !.perm = v].data = r.data
           /\ IsInode([r EXCEPT !.dated = v]) /\ [r EXCEPT !.dated = v].maker = r.maker
           /\ [r EXCEPT !.dated = v].data = r.data /\ [r EXCEPT !.dated = v].perm = r.perm
<1> DEFINE R == [maker |-> r.maker, data |-> r.data, perm |-> r.perm, dated |-> r.dated]
<1>1. r = R BY DEF IsInode
<1>2. [R EXCEPT !.data = v] = [maker |-> r.maker, data |-> v, perm |-> r.perm, dated |-> r.dated]
  OBVIOUS
<1>3. [R EXCEPT !.perm = v] = [maker |-> r.maker, data |-> r.data, perm |-> v, dated |-> r.dated]
  OBVIOUS
<1>4. [R EXCEPT !.dated = v] = [maker |-> r.maker, data |-> r.data, perm |-> r.perm, dated |-> v]
  OBVIOUS
<1> QED BY <1>1, <1>2, <1>3, <1>4 DEF IsInode

\* The disk stays one when a single inode changes in a field.
LEMMA SetField ==
    ASSUME DiskOK, NEW j, NEW r,
           j \in DOMAIN disk => IsInode(r)
    PROVE  /\ \E S : [disk EXCEPT ![j] = r] \in Seq(S)
           /\ DOMAIN [disk EXCEPT ![j] = r] = DOMAIN disk
           /\ \A i \in DOMAIN disk : IsInode([disk EXCEPT ![j] = r][i])
           /\ \A i \in DOMAIN disk : i # j => [disk EXCEPT ![j] = r][i] = disk[i]
           /\ j \in DOMAIN disk => [disk EXCEPT ![j] = r][j] = r
<1>1. PICK S : disk \in Seq(S) BY DEF DiskOK
<1>2. CASE j \in DOMAIN disk
  <2> DEFINE T == S \cup {r}
             n == Len(disk)
  <2>1. disk \in [1 .. n -> T] /\ n \in Nat /\ DOMAIN disk = 1 .. n BY <1>1
  <2>2. [disk EXCEPT ![j] = r] \in [1 .. n -> T] BY <1>2, <2>1
  <2>3. [disk EXCEPT ![j] = r] \in Seq(T) BY <2>1, <2>2
  <2>4. \A i \in DOMAIN disk : i # j => [disk EXCEPT ![j] = r][i] = disk[i] BY <2>1
  <2>5. [disk EXCEPT ![j] = r][j] = r BY <1>2
  <2> QED BY <1>2, <2>1, <2>2, <2>3, <2>4, <2>5 DEF DiskOK
<1>3. CASE j \notin DOMAIN disk
  <2>1. disk = [i \in DOMAIN disk |-> disk[i]] BY <1>1
  <2>2. [disk EXCEPT ![j] = r] = disk BY <1>3, <2>1
  <2> QED BY <1>1, <1>3, <2>2 DEF DiskOK
<1> QED BY <1>2, <1>3

\* A system call that neither opens a file nor changes one.
LEMMA QuietCall ==
    ASSUME Inv, NEW next, Go(next), UNCHANGED disk,
           next \in {"parents", "open", "remove", "reopen"} =>
                pc \in {"parents", "open", "remove", "reopen"},
           next \in {"copy", "utimes", "fchmod"} => pc \in {"copy", "utimes", "fchmod"} /\ f' = f,
           next \in {"remove", "unlink"} => set.overwrite
    PROVE  Inv'
<1>1. pc' = next /\ k' = k /\ cur' = cur /\ directories' = directories /\ set' = set
  BY DEF Go, fixed
<1>2. DiskOK' BY DEF Inv, DiskOK
<1>3. Counted' /\ Numbered' /\ Asked' BY <1>1 DEF Inv, Counted, Numbered, Asked
<1>4. OwnOpen' BY <1>1 DEF Inv, OwnOpen
<1> QED BY <1>2, <1>3, <1>4 DEF Inv

\* A step that changes neither the disk nor the open file, and may go on
\* with another entry.
LEMMA NextCall ==
    ASSUME Inv, UNCHANGED <<disk, f, set>>, Counted',
           pc' \in {"parents", "open", "remove", "reopen"} => cur' # 0,
           pc' \in {"parents", "next", "ok", "failed", "cut", "waits"}
    PROVE  Inv'
<1>1. DiskOK' BY DEF Inv, DiskOK
<1>2. Numbered' /\ Asked' /\ OwnOpen' BY DEF Inv, Numbered, Asked, OwnOpen
<1> QED BY <1>1, <1>2 DEF Inv

\* Inv holds at first.
LEMMA InvInit == TripInit => Inv
<1> SUFFICES ASSUME TripInit PROVE Inv OBVIOUS
<1>1. InitUnpack BY DEF TripInit
<1>2. PICK d \in Disks : disk = d.disk BY <1>1 DEF InitUnpack
<1>3. disk \in Seq(InodeType) BY <1>2, UnpackAssumption
<1>4. DiskOK
  <2>1. \A i \in DOMAIN disk : disk[i] \in InodeType BY <1>3
  <2>2. \A r \in InodeType : IsInode(r) BY DEF InodeType, IsInode
  <2> QED BY <1>3, <2>1, <2>2 DEF DiskOK
<1>5. Counted BY <1>1 DEF InitUnpack, Counted
<1>6. pc \in {"next", "waits"} BY DEF TripInit
<1> QED BY <1>4, <1>5, <1>6 DEF Inv, Numbered, OwnOpen, Asked

\* The steps of Archive::unpack itself.
LEMMA ArchiveStep ==
    ASSUME Inv, PutOff \/ NextEntry \/ NextDirectory \/ Unpacked
    PROVE  Inv'
<1>1. CASE PutOff
  <2>1. Counted' BY <1>1 DEF Inv, Counted, PutOff
  <2> QED BY <1>1, <2>1, NextCall DEF PutOff, fixed
<1>2. CASE NextEntry
  <2>1. k' = k + 1 /\ cur' = k + 1 /\ UNCHANGED <<directories, disk, f, set>>
        /\ pc' \in {"next", "parents"}
    BY <1>2 DEF NextEntry, Start, fixed
  <2>2. Counted' /\ cur' # 0 BY <2>1 DEF Inv, Counted
  <2> QED BY <2>1, <2>2, NextCall
<1>3. CASE NextDirectory
  <2>1. k' = k /\ cur' = Head(directories) /\ directories' = Tail(directories)
        /\ directories # <<>> /\ UNCHANGED <<disk, f, set>> /\ pc' \in {"next", "parents"}
    BY <1>3 DEF NextDirectory, Start, fixed
  <2>2. Head(directories) \in Nat \ {0} /\ Tail(directories) \in Seq(Nat \ {0})
    BY <2>1 DEF Inv, Counted
  <2>3. Counted' /\ cur' # 0 BY <2>1, <2>2 DEF Inv, Counted
  <2> QED BY <2>1, <2>3, NextCall
<1>4. CASE Unpacked
  <2>1. UNCHANGED <<k, cur, directories, disk, f, set>> /\ pc' = "ok"
    BY <1>4 DEF Unpacked, Go, fixed
  <2>2. Counted' BY <2>1 DEF Inv, Counted
  <2> QED BY <2>1, <2>2, NextCall
<1> QED BY <1>1, <1>2, <1>3, <1>4

\* A file is opened.
LEMMA CreateNewStep ==
    ASSUME Inv, CreateNew, cur # 0
    PROVE  Inv'
<1>1. PICK S : disk \in Seq(S) BY DEF Inv, DiskOK
<1>2. disk' = Append(disk, NewFile) /\ f' = Len(disk) + 1 /\ pc' = "copy"
      /\ UNCHANGED <<k, cur, directories, set>>
  BY DEF CreateNew, Go, fixed
<1>3. /\ disk' \in Seq(S \cup {NewFile})
      /\ DOMAIN disk' = DOMAIN disk \cup {Len(disk) + 1}
      /\ \A i \in DOMAIN disk : disk'[i] = disk[i]
      /\ disk'[Len(disk) + 1] = NewFile
  BY <1>1, <1>2, AppendKeeps
<1>4. IsInode(NewFile) /\ NewFile.maker # 0 BY DEF IsInode, NewFile
<1>5. DiskOK' BY <1>3, <1>4 DEF Inv, DiskOK
<1>6. OwnOpen' BY <1>2, <1>3, <1>4 DEF OwnOpen
<1>7. Counted' BY <1>2 DEF Inv, Counted
<1>8. Numbered' /\ Asked' BY <1>2 DEF Numbered, Asked
<1> QED BY <1>5, <1>6, <1>7, <1>8 DEF Inv

\* A field of an inode is set that is not the open file's maker.
LEMMA FieldStep ==
    ASSUME Inv, NEW j, NEW r, disk' = [disk EXCEPT ![j] = r],
           j \in DOMAIN disk => IsInode(r) /\ r.maker = disk[j].maker,
           NEW next, Go(next), next \in {"utimes", "fchmod", "next"},
           next # "next" => f' = f /\ pc \in {"copy", "utimes", "fchmod"}
    PROVE  Inv'
<1>1. pc' = next /\ k' = k /\ cur' = cur /\ directories' = directories /\ set' = set
  BY DEF Go, fixed
<1>2. DiskOK BY DEF Inv
<1>3. /\ \E S : disk' \in Seq(S)
      /\ DOMAIN disk' = DOMAIN disk
      /\ \A i \in DOMAIN disk : IsInode(disk'[i])
      /\ \A i \in DOMAIN disk : i # j => disk'[i] = disk[i]
      /\ j \in DOMAIN disk => disk'[j] = r
  BY <1>2, SetField
<1>4. DiskOK' BY <1>3 DEF DiskOK
<1>5. OwnOpen' BY <1>1, <1>3 DEF Inv, OwnOpen
<1>6. Counted' BY <1>1 DEF Inv, Counted
<1>7. Numbered' /\ Asked' BY <1>1 DEF Numbered, Asked
<1> QED BY <1>4, <1>5, <1>6, <1>7 DEF Inv

\* A step of an entry keeps Inv.
LEMMA EntryInv ==
    ASSUME Inv, EntryStep
    PROVE  Inv'
<1> USE QuietCall
<1>1. CASE MakeParent
  <2>1. UNCHANGED disk /\ pc = "parents" /\ (Go("parents") \/ Go("failed"))
    BY <1>1 DEF MakeParent, Fail
  <2> QED BY <2>1
<1>2. CASE Validate
  <2>1. UNCHANGED <<disk, f>> /\ pc = "parents"
        /\ Go(IF Canon(tree, Parent(E.path)) = None THEN "failed" ELSE FirstCall(E.kind))
    BY <1>2 DEF Validate
  <2>2. FirstCall(E.kind) \in {"mkdir", "symlink", "hardlink", "next", "open"}
    BY DEF FirstCall
  <2>3. \E next \in {"failed", "mkdir", "symlink", "hardlink", "next", "open"} : Go(next)
    BY <2>1, <2>2
  <2> QED BY <2>1, <2>3
<1>3. CASE MakeDir
  <2>1. UNCHANGED <<disk, f>> /\ \E next \in {"next", "chmod", "failed"} : Go(next)
    BY <1>3 DEF MakeDir, AfterDir
  <2> QED BY <2>1
<1>4. CASE SetDirPerms
  <2> DEFINE p == Canon(tree, E.path)
             j == tree[p].ino
  <2>1. CASE UNCHANGED disk /\ (Go("failed") \/ Go("next"))
    BY <2>1
  <2>2. CASE Go("next") /\ disk' = [disk EXCEPT ![j] = [disk[j] EXCEPT !.perm = Perms(E)]]
    <3>1. j \in DOMAIN disk => IsInode(disk[j]) BY DEF Inv, DiskOK
    <3>2. j \in DOMAIN disk => /\ IsInode([disk[j] EXCEPT !.perm = Perms(E)])
                               /\ [disk[j] EXCEPT !.perm = Perms(E)].maker = disk[j].maker
      BY <3>1, InodeFields
    <3> QED BY <2>2, <3>2, FieldStep
  <2>3. \/ UNCHANGED disk /\ (Go("failed") \/ Go("next"))
        \/ Go("next") /\ disk' = [disk EXCEPT ![j] = [disk[j] EXCEPT !.perm = Perms(E)]]
    BY <1>4 DEF SetDirPerms, Fail
  <2> QED BY <2>1, <2>2, <2>3
<1>5. CASE Open
  <2>1. CASE CreateNew
    <3>1. cur # 0 BY <1>5 DEF Open, Inv, Numbered
    <3> QED BY <2>1, <3>1, CreateNewStep
  <2>2. CASE ~CreateNew
    <3>1. UNCHANGED <<disk, f>> /\ pc = "open"
          /\ Go(IF Exists(tree, E.path) /\ set.overwrite THEN "remove" ELSE "failed")
      BY <1>5, <2>2 DEF Open
    <3>2. (Go("remove") /\ set.overwrite) \/ Go("failed") BY <3>1
    <3> QED BY <3>1, <3>2
  <2> QED BY <2>1, <2>2
<1>6. CASE Remove
  <2>1. UNCHANGED <<disk, f>> /\ pc = "remove" /\ (Go("reopen") \/ Go("failed"))
    BY <1>6 DEF Remove
  <2> QED BY <2>1
<1>7. CASE Reopen
  <2>1. CASE CreateNew
    <3>1. cur # 0 BY <1>7 DEF Reopen, Inv, Numbered
    <3> QED BY <2>1, <3>1, CreateNewStep
  <2>2. CASE ~CreateNew
    <3>1. UNCHANGED disk /\ Go("failed") BY <1>7, <2>2 DEF Reopen, Fail
    <3> QED BY <3>1
  <2> QED BY <2>1, <2>2
<1>8. CASE Copy
  <2>1. /\ pc = "copy" /\ f' = f /\ disk' = [disk EXCEPT ![f] = [disk[f] EXCEPT !.data = cur]]
        /\ (Go("utimes") \/ Go("fchmod"))
    BY <1>8 DEF Copy, AfterFile
  <2>2. f \in DOMAIN disk => IsInode(disk[f]) BY DEF Inv, DiskOK
  <2>3. f \in DOMAIN disk => /\ IsInode([disk[f] EXCEPT !.data = cur])
                             /\ [disk[f] EXCEPT !.data = cur].maker = disk[f].maker
    BY <2>2, InodeFields
  <2> QED BY <2>1, <2>3, FieldStep
<1>9. CASE SetTimes
  <2> DEFINE p == Canon(tree, E.path)
             j == tree[p].ino
  <2>1. CASE UNCHANGED disk /\ f' = f /\ (Go("failed") \/ Go("fchmod"))
    <3>1. pc = "utimes" BY <1>9 DEF SetTimes
    <3> QED BY <2>1, <3>1
  <2>2. CASE /\ f' = f /\ Go("fchmod")
             /\ disk' = [disk EXCEPT ![j] = [disk[j] EXCEPT !.dated = TRUE]]
    <3>1. pc = "utimes" BY <1>9 DEF SetTimes
    <3>2. j \in DOMAIN disk => IsInode(disk[j]) BY DEF Inv, DiskOK
    <3>3. j \in DOMAIN disk => /\ IsInode([disk[j] EXCEPT !.dated = TRUE])
                               /\ [disk[j] EXCEPT !.dated = TRUE].maker = disk[j].maker
      BY <3>2, InodeFields
    <3> QED BY <2>2, <3>1, <3>3, FieldStep
  <2>3. \/ UNCHANGED disk /\ f' = f /\ (Go("failed") \/ Go("fchmod"))
        \/ /\ f' = f /\ Go("fchmod")
           /\ disk' = [disk EXCEPT ![j] = [disk[j] EXCEPT !.dated = TRUE]]
    BY <1>9 DEF SetTimes, Fail
  <2> QED BY <2>1, <2>2, <2>3
<1>10. CASE SetFilePerms
  <2>1. CASE UNCHANGED disk
    <3>1. Go("next") BY <1>10 DEF SetFilePerms
    <3> QED BY <2>1, <3>1
  <2>2. CASE disk' = [disk EXCEPT ![f] = [disk[f] EXCEPT !.perm = Perms(E)]]
    <3>1. Go("next") BY <1>10 DEF SetFilePerms
    <3>2. f \in DOMAIN disk => IsInode(disk[f]) BY DEF Inv, DiskOK
    <3>3. f \in DOMAIN disk => /\ IsInode([disk[f] EXCEPT !.perm = Perms(E)])
                               /\ [disk[f] EXCEPT !.perm = Perms(E)].maker = disk[f].maker
      BY <3>2, InodeFields
    <3> QED BY <2>2, <3>1, <3>3, FieldStep
  <2> QED BY <1>10, <2>1, <2>2 DEF SetFilePerms
<1>11. CASE HardLink
  <2>1. UNCHANGED disk /\ (Go("next") \/ Go("failed")) BY <1>11 DEF HardLink, Fail
  <2> QED BY <2>1
<1>12. CASE SymLink
  <2>1. CASE Go("unlink") /\ set.overwrite /\ UNCHANGED disk
    BY <2>1
  <2>2. CASE UNCHANGED disk /\ \E next \in {"failed", "next", "lutimes"} : Go(next)
    BY <2>2
  <2>3. \/ Go("unlink") /\ set.overwrite /\ UNCHANGED disk
        \/ UNCHANGED disk /\ \E next \in {"failed", "next", "lutimes"} : Go(next)
    BY <1>12 DEF SymLink, Fail, AfterLink
  <2> QED BY <2>1, <2>2, <2>3
<1>13. CASE Unlink
  <2>1. UNCHANGED disk /\ (Go("relink") \/ Go("failed")) BY <1>13 DEF Unlink
  <2> QED BY <2>1
<1>14. CASE Relink
  <2>1. UNCHANGED disk /\ \E next \in {"failed", "next", "lutimes"} : Go(next)
    BY <1>14 DEF Relink, Fail, AfterLink
  <2> QED BY <2>1
<1>15. CASE SetLinkTimes
  <2>1. UNCHANGED disk /\ (Go("next") \/ Go("failed")) BY <1>15 DEF SetLinkTimes
  <2> QED BY <2>1
<1> QED BY <1>1, <1>2, <1>3, <1>4, <1>5, <1>6, <1>7, <1>8, <1>9, <1>10, <1>11, <1>12,
           <1>13, <1>14, <1>15 DEF EntryStep

\* Every step keeps Inv.
LEMMA InvStep ==
    ASSUME Inv, [TripNext]_tripVars
    PROVE  Inv'
<1>1. CASE UNCHANGED tripVars
  BY <1>1 DEF tripVars, vars, fixed, counts, Inv, DiskOK, Counted, Numbered, OwnOpen, Asked
<1>2. CASE WalkStep
  <2>1. UNCHANGED <<set, disk, k, cur, directories, f>> /\ pc' \in {"next", pc}
    BY <1>2 DEF WalkStep, counts
  <2>2. DiskOK' /\ Counted' /\ Numbered' /\ OwnOpen' /\ Asked'
    BY <2>1 DEF Inv, DiskOK, Counted, Numbered, OwnOpen, Asked
  <2> QED BY <2>2 DEF Inv
<1>3. CASE UnpackStep
  <2>1. CASE PutOff \/ NextEntry \/ NextDirectory \/ Unpacked
    BY <2>1, ArchiveStep
  <2>2. CASE EntryStep
    BY <2>2, EntryInv
  <2>3. CASE CutShort
    <3>1. UNCHANGED <<set, disk, k, cur, directories, f>> /\ pc' = "cut"
      BY <2>3 DEF CutShort, fixed
    <3>2. Counted' BY <3>1 DEF Inv, Counted
    <3> QED BY <3>1, <3>2, NextCall
  <2>4. CASE Again
    <3>1. /\ UNCHANGED <<set, disk>> /\ pc' = "next"
          /\ k' = 0 /\ cur' = 0 /\ directories' = <<>>
      BY <2>4 DEF Again, fixed
    <3>2. DiskOK' /\ Counted' /\ Numbered' /\ OwnOpen' /\ Asked'
      BY <3>1 DEF Inv, DiskOK, Counted, Numbered, OwnOpen, Asked
    <3> QED BY <3>2 DEF Inv
  <2>5. CASE Meddle
    <3>1. UNCHANGED <<set, pc, k, cur, directories, f>> BY <2>5 DEF Meddle, fixed
    <3>2. CASE UNCHANGED disk
      BY <3>1, <3>2 DEF Inv, DiskOK, Counted, Numbered, OwnOpen, Asked
    <3>3. CASE disk' = Append(disk, Others)
      <4>1. PICK S : disk \in Seq(S) BY DEF Inv, DiskOK
      <4>2. /\ disk' \in Seq(S \cup {Others})
            /\ DOMAIN disk' = DOMAIN disk \cup {Len(disk) + 1}
            /\ \A i \in DOMAIN disk : disk'[i] = disk[i]
            /\ disk'[Len(disk) + 1] = Others
        BY <3>3, <4>1, AppendKeeps
      <4>3. IsInode(Others) BY DEF IsInode, Others
      <4>4. DiskOK' BY <4>2, <4>3 DEF Inv, DiskOK
      <4>5. OwnOpen' BY <3>1, <4>2 DEF Inv, OwnOpen
      <4>6. Counted' /\ Numbered' /\ Asked' BY <3>1 DEF Inv, Counted, Numbered, Asked
      <4> QED BY <4>4, <4>5, <4>6 DEF Inv
    <3> QED BY <2>5, <3>2, <3>3 DEF Meddle
  <2> QED BY <1>3, <2>1, <2>2, <2>3, <2>4, <2>5 DEF UnpackStep, UnpackNext
<1> QED BY <1>1, <1>2, <1>3 DEF TripNext

\* Inv always holds.
LEMMA InvAlways == TripSpec => []Inv
<1>1. Inv /\ [TripNext]_tripVars => Inv' BY InvStep
<1> QED BY InvInit, <1>1, PTL DEF TripSpec

-----------------------------------------------------------------------------
(***************************************************************************)
(* Files of others                                                         *)
(***************************************************************************)

\* What a step does to the disk.
LEMMA DiskMoves ==
    ASSUME TripNext
    PROVE  \/ UNCHANGED disk
           \/ \E x : disk' = Append(disk, x)
           \/ pc \in {"copy", "fchmod"} /\ \E r : disk' = [disk EXCEPT ![f] = r]
           \/ \E j : disk' = [disk EXCEPT ![j] = [disk[j] EXCEPT !.dated = TRUE]]
           \/ LET p == Canon(tree, E.path)
                  j == tree[p].ino
              IN  /\ pc = "chmod" /\ p # None /\ ~IsDir(tree, p)
                  /\ disk' = [disk EXCEPT ![j] = [disk[j] EXCEPT !.perm = Perms(E)]]
<1>1. CASE WalkStep BY <1>1 DEF WalkStep
<1>2. CASE PutOff \/ NextEntry \/ NextDirectory \/ Unpacked \/ CutShort \/ Again
  BY <1>2 DEF PutOff, NextEntry, NextDirectory, Start, Unpacked, CutShort, Again
<1>3. CASE MakeParent \/ Validate \/ MakeDir \/ Remove
  BY <1>3 DEF MakeParent, Fail, Validate, MakeDir, Remove
<1>4. CASE HardLink \/ SymLink \/ Unlink \/ Relink \/ SetLinkTimes
  BY <1>4 DEF HardLink, Fail, SymLink, Unlink, Relink, SetLinkTimes
<1>5. CASE Open \/ Reopen
  BY <1>5 DEF Open, Reopen, CreateNew, Fail
<1>6. CASE Copy BY <1>6 DEF Copy
<1>7. CASE SetTimes
  <2>1. \/ UNCHANGED disk
        \/ disk' = [disk EXCEPT ![tree[Canon(tree, E.path)].ino] =
                        [disk[tree[Canon(tree, E.path)].ino] EXCEPT !.dated = TRUE]]
    BY <1>7 DEF SetTimes, Fail
  <2> QED BY <2>1
<1>8. CASE SetFilePerms
  <2>1. pc = "fchmod" /\ (UNCHANGED disk \/ disk' = [disk EXCEPT ![f] = [disk[f] EXCEPT !.perm = Perms(E)]])
    BY <1>8 DEF SetFilePerms
  <2> QED BY <2>1
<1>9. CASE Meddle BY <1>9 DEF Meddle
<1>10. CASE SetDirPerms
  <2> DEFINE p == Canon(tree, E.path)
             j == tree[p].ino
  <2>1. \/ UNCHANGED disk
        \/ /\ pc = "chmod" /\ p # None /\ ~IsDir(tree, p)
           /\ disk' = [disk EXCEPT ![j] = [disk[j] EXCEPT !.perm = Perms(E)]]
    BY <1>10 DEF SetDirPerms, Fail
  <2> QED BY <2>1
<1> QED BY <1>1, <1>2, <1>3, <1>4, <1>5, <1>6, <1>7, <1>8, <1>9, <1>10
        DEF TripNext, UnpackStep, UnpackNext, EntryStep

-----------------------------------------------------------------------------
(***************************************************************************)
(* Files and directories that were there                                   *)
(***************************************************************************)

\* Only Meddle counts up meddles.
LEMMA MeddleCounts ==
    /\ TripInit => meddles \in Nat
    /\ meddles \in Nat /\ TripNext =>
            (meddles' = meddles /\ ~Meddle) \/ (meddles' = meddles + 1 /\ Meddle)
<1>1. TripInit => meddles \in Nat BY DEF TripInit, InitUnpack
<1>2. ASSUME meddles \in Nat, TripNext
      PROVE  (meddles' = meddles /\ ~Meddle) \/ (meddles' = meddles + 1 /\ Meddle)
  <2>1. Meddle => meddles' = meddles + 1 BY DEF Meddle
  <2>2. WalkStep => meddles' = meddles BY DEF WalkStep, counts
  <2>3. PutOff \/ NextEntry \/ NextDirectory \/ Unpacked \/ CutShort \/ Again => meddles' = meddles
    BY DEF PutOff, NextEntry, NextDirectory, Start, Unpacked, Go, CutShort, Again, counts
  <2>4. MakeParent \/ Validate \/ MakeDir \/ SetDirPerms \/ Remove => meddles' = meddles
    BY DEF MakeParent, Fail, Validate, MakeDir, SetDirPerms, Remove, Go, counts
  <2>5. HardLink \/ SymLink \/ Unlink \/ Relink \/ SetLinkTimes => meddles' = meddles
    BY DEF HardLink, Fail, SymLink, Unlink, Relink, SetLinkTimes, Go, counts
  <2>6. Open \/ Reopen \/ Copy \/ SetTimes \/ SetFilePerms => meddles' = meddles
    BY DEF Open, Reopen, CreateNew, Copy, SetTimes, SetFilePerms, Fail, Go, counts
  <2> QED BY <1>2, <2>1, <2>2, <2>3, <2>4, <2>5, <2>6
          DEF TripNext, UnpackStep, UnpackNext, EntryStep
<1> QED BY <1>1, <1>2

\* What a step of unpack does to the tree: it makes something where nothing
\* is, removes a file or a link it may overwrite, or sets a directory's bits.
LEMMA TreeMoves ==
    ASSUME Inv, TripNext, ~Meddle
    PROVE  \/ UNCHANGED tree
           \/ \E p, node : p \notin DOMAIN tree /\ tree' = With(tree, p, node)
           \/ \E p : tree[p].kind # "dir" /\ set.overwrite /\ tree' = Without(tree, p)
           \/ \E p, bits : tree[p].kind = "dir" /\ tree' = With(tree, p, Dir(bits))
<1> DEFINE Added == \E p, node : p \notin DOMAIN tree /\ tree' = With(tree, p, node)
           Gone == \E p : tree[p].kind # "dir" /\ set.overwrite /\ tree' = Without(tree, p)
           Chmod == \E p, bits : tree[p].kind = "dir" /\ tree' = With(tree, p, Dir(bits))
<1>0. ASSUME NEW p, NEW node, MayCreate(tree, p), Make(p, node)
      PROVE  Added
  <2>1. Place(tree, p) \notin DOMAIN tree /\ tree' = With(tree, Place(tree, p), node)
    BY <1>0 DEF MayCreate, Make
  <2> QED BY <2>1
<1>1. CASE WalkStep BY <1>1 DEF WalkStep
<1>2. CASE PutOff \/ NextEntry \/ NextDirectory \/ Unpacked \/ CutShort \/ Again
  BY <1>2 DEF PutOff, NextEntry, NextDirectory, Start, Unpacked, CutShort, Again
<1>3. CASE MakeParent \/ MakeDir
  <2>1. UNCHANGED tree \/ \E p, node : MayCreate(tree, p) /\ Make(p, node)
    BY <1>3 DEF MakeParent, MakeDir, Fail
  <2> QED BY <1>0, <2>1
<1>4. CASE Validate \/ Copy \/ SetTimes \/ SetFilePerms \/ SetLinkTimes
  BY <1>4 DEF Validate, Copy, SetTimes, SetFilePerms, SetLinkTimes, Fail
<1>5. CASE SetDirPerms
  <2>1. \/ UNCHANGED tree
        \/ /\ IsDir(tree, Canon(tree, E.path))
           /\ tree' = With(tree, Canon(tree, E.path), Dir(Perms(E)))
    BY <1>5 DEF SetDirPerms, Fail
  <2>2. IsDir(tree, Canon(tree, E.path)) => tree[Canon(tree, E.path)].kind = "dir"
    BY DEF IsDir
  <2> QED BY <2>1, <2>2
<1>6. CASE Remove \/ Unlink
  <2>1. /\ set.overwrite
        /\ \/ UNCHANGED tree
           \/ MayRemove(tree, E.path) /\ tree' = Without(tree, Place(tree, E.path))
    BY <1>6 DEF Remove, Unlink, Inv, Asked
  <2>2. MayRemove(tree, E.path) => tree[Place(tree, E.path)].kind # "dir"
    BY DEF MayRemove
  <2> QED BY <2>1, <2>2
<1>7. CASE Open \/ Reopen
  <2>1. UNCHANGED tree \/ \E node : MayCreate(tree, E.path) /\ Make(E.path, node)
    BY <1>7 DEF Open, Reopen, CreateNew, Fail
  <2> QED BY <1>0, <2>1
<1>8. CASE HardLink \/ SymLink \/ Relink
  <2>1. UNCHANGED tree \/ \E node : MayCreate(tree, E.path) /\ Make(E.path, node)
    BY <1>8 DEF HardLink, SymLink, Relink, Fail
  <2> QED BY <1>0, <2>1
<1> QED BY <1>1, <1>2, <1>3, <1>4, <1>5, <1>6, <1>7, <1>8
        DEF TripNext, UnpackStep, UnpackNext, EntryStep

\* Unless set_overwrite is on nothing that is there makes way for an entry,
\* and no directory ever does.
THEOREM KeptCorrect == TripSpec => Kept
<1> DEFINE Stays(p) ==
              /\ tree[p].kind = "dir" \/ ~set.overwrite => p \in DOMAIN tree'
              /\ tree[p].kind = "dir" => tree'[p].kind = "dir"
              /\ tree[p].kind # "dir" /\ ~set.overwrite => tree'[p] = tree[p]
<1>1. TripSpec => [](meddles \in Nat)
  <2>1. meddles \in Nat /\ [TripNext]_tripVars => (meddles \in Nat)'
    <3>1. ASSUME meddles \in Nat, TripNext PROVE (meddles \in Nat)'
      BY <3>1, MeddleCounts
    <3> QED BY <3>1 DEF tripVars, vars, counts
  <2> QED BY <2>1, MeddleCounts, PTL DEF TripSpec
<1>2. Inv /\ meddles \in Nat /\ [TripNext]_tripVars =>
        [meddles' = meddles => \A p \in DOMAIN tree : Stays(p)]_tripVars
  <2> SUFFICES ASSUME Inv, meddles \in Nat, TripNext, meddles' = meddles,
                      NEW p \in DOMAIN tree
               PROVE  Stays(p)
    OBVIOUS
  <2>1. ~Meddle
    <3>1. (meddles' = meddles /\ ~Meddle) \/ (meddles' = meddles + 1 /\ Meddle)
      BY MeddleCounts
    <3> QED BY <3>1
  <2>2. CASE UNCHANGED tree BY <2>2
  <2>3. CASE \E q, node : q \notin DOMAIN tree /\ tree' = With(tree, q, node)
    <3>1. p \in DOMAIN tree' /\ tree'[p] = tree[p] BY <2>3 DEF With
    <3> QED BY <3>1
  <2>4. CASE \E q : tree[q].kind # "dir" /\ set.overwrite /\ tree' = Without(tree, q)
    <3>1. tree[p].kind = "dir" => p \in DOMAIN tree' /\ tree'[p] = tree[p] BY <2>4 DEF Without
    <3> QED BY <2>4, <3>1
  <2>5. CASE \E q, bits : tree[q].kind = "dir" /\ tree' = With(tree, q, Dir(bits))
    <3>1. PICK q, bits : tree[q].kind = "dir" /\ tree' = With(tree, q, Dir(bits)) BY <2>5
    <3>2. p \in DOMAIN tree' BY <3>1 DEF With
    <3>3. tree'[p] = IF p = q THEN Dir(bits) ELSE tree[p] BY <3>1 DEF With
    <3>4. Dir(bits).kind = "dir" BY DEF Dir
    <3> QED BY <3>1, <3>2, <3>3, <3>4
  <2> QED BY <2>1, <2>2, <2>3, <2>4, <2>5, TreeMoves
<1> QED BY <1>1, <1>2, InvAlways, PTL DEF TripSpec, Kept

-----------------------------------------------------------------------------
(***************************************************************************)
(* Types                                                                   *)
(***************************************************************************)

\* What is put off, and what is being unpacked, are entries of the archive.
EntryStages == {"parents", "mkdir", "chmod", "open", "remove", "reopen", "copy", "utimes",
                "fchmod", "hardlink", "symlink", "unlink", "relink", "lutimes"}

\* What the stage says of the entry being unpacked.
Staged ==
    /\ directories \in Seq(1 .. Len(archive))
    /\ pc \in EntryStages => cur # 0 /\ E.path \notin {None, <<>>}
    /\ pc = "chmod" => E.mode # None
    /\ pc \in {"unlink", "relink"} => E.link \notin {None, <<>>}

\* What a directory walk has on its stack: paths of the source, and a link is
\* marked as one.
Items == [src : Path, dir : BOOLEAN, link : BOOLEAN]

\* During a walk nothing is unpacked, and what is on the stack is in the source.
Walking ==
    walk \in {"walk", "failed"} =>
        /\ source \in Sources /\ base \in Path
        /\ pc = "waits" /\ k = 0 /\ cur = 0 /\ directories = <<>> /\ f = 0
        /\ stack \in Seq(Items)
        /\ \A i \in DOMAIN stack :
                stack[i].link /\ Place(source.tree, stack[i].src) # None =>
                    source.tree[Place(source.tree, stack[i].src)].kind = "symlink"

\* The inductive invariant for TypeOK.
TypeInv == TypeOK /\ Staged /\ Walking

\* The tree and the disk fit each other.
Fits == Sound(tree, Len(disk)) /\ disk \in Seq(InodeType)

-----------------------------------------------------------------------------
\* The types say that tree and disk fit.
LEMMA FitsTypes == TypeInv => Fits
BY DEF TypeInv, TypeOK, Fits, Sound

\* The entry being unpacked is an entry with a path.
LEMMA EntryType1 ==
    ASSUME TypeInv, pc \in EntryStages
    PROVE  /\ E \in EntryType /\ E.path \in Path /\ E.path # <<>>
           /\ E.link \in Path \cup {None} /\ E.mode \in Perm \cup {None}
           /\ cur \in 1 .. Len(archive)
<1>1. cur \in 1 .. Len(archive) BY DEF TypeInv, TypeOK, Staged
<1>2. E \in EntryType BY <1>1 DEF TypeInv, TypeOK, E
<1> QED BY <1>1, <1>2 DEF TypeInv, Staged, EntryType

\* A step of one entry keeps the types if it leaves tree and disk in order.
LEMMA Goes ==
    ASSUME TypeInv, pc \in EntryStages, walk \in {"idle", "done"}, UNCHANGED walkOnly,
           NEW next, Go(next), Fits',
           Len(disk') >= Len(disk),
           f' \in 0 .. Len(disk'),
           next \in {"copy", "utimes", "fchmod"} => f' # 0,
           next = "chmod" => E.mode # None,
           next \in {"unlink", "relink"} => E.link \notin {None, <<>>}
    PROVE  TypeInv'
<1>1. pc' = next /\ UNCHANGED <<fixed, k, cur, directories, counts>> BY DEF Go
<1>2. E' = E BY <1>1 DEF E, fixed
<1>3. TypeOK' BY <1>1 DEF TypeInv, TypeOK, Fits, Sound, fixed
<1>4. Staged' BY <1>1, <1>2 DEF TypeInv, Staged, fixed
<1>5. Walking' BY DEF walkOnly, Walking
<1> QED BY <1>3, <1>4, <1>5 DEF TypeInv

\* In particular if it leaves them alone.
LEMMA GoesQuiet ==
    ASSUME TypeInv, pc \in EntryStages, walk \in {"idle", "done"}, UNCHANGED walkOnly,
           NEW next, Go(next), UNCHANGED <<tree, disk, f>>,
           next \in {"copy", "utimes", "fchmod"} => pc \in {"copy", "utimes", "fchmod"},
           next = "chmod" => E.mode # None,
           next \in {"unlink", "relink"} => E.link \notin {None, <<>>}
    PROVE  TypeInv'
<1>1. Fits' BY FitsTypes DEF Fits
<1>2. Len(disk) \in Nat /\ f \in 0 .. Len(disk) /\ (pc \in {"copy", "utimes", "fchmod"} => f # 0)
  BY DEF TypeInv, TypeOK
<1> QED BY <1>1, <1>2, Goes

\* If it makes something, without a new file.
LEMMA GoesMaking ==
    ASSUME TypeInv, pc \in EntryStages, walk \in {"idle", "done"}, UNCHANGED walkOnly,
           NEW next, Go(next), UNCHANGED <<disk, f>>,
           NEW p \in Path, MayCreate(tree, p),
           NEW node \in NodeType(Len(disk)), Make(p, node),
           next \notin {"copy", "utimes", "fchmod", "unlink", "relink"},
           next = "chmod" => E.mode # None
    PROVE  TypeInv'
<1>1. Fits BY FitsTypes
<1>2. Sound(tree', Len(disk)) BY <1>1, MakeSound DEF Fits, Make
<1>3. Fits' BY <1>1, <1>2 DEF Fits
<1>4. Len(disk) \in Nat /\ f \in 0 .. Len(disk) BY DEF TypeInv, TypeOK
<1> QED BY <1>3, <1>4, Goes

\* If it removes something.
LEMMA GoesRemoving ==
    ASSUME TypeInv, pc \in EntryStages, walk \in {"idle", "done"}, UNCHANGED walkOnly,
           NEW next, Go(next), UNCHANGED <<disk, f>>,
           MayRemove(tree, E.path), tree' = Without(tree, Place(tree, E.path)),
           next \in {"reopen", "relink"},
           next = "relink" => E.link \notin {None, <<>>}
    PROVE  TypeInv'
<1>1. Fits BY FitsTypes
<1>2. E.path \in Path BY EntryType1
<1>3. Sound(tree', Len(disk)) BY <1>1, <1>2, RemoveSound DEF Fits
<1>4. Fits' BY <1>1, <1>3 DEF Fits
<1>5. Len(disk) \in Nat /\ f \in 0 .. Len(disk) BY DEF TypeInv, TypeOK
<1> QED BY <1>4, <1>5, Goes

\* If it changes an inode.
LEMMA GoesSetting ==
    ASSUME TypeInv, pc \in EntryStages, walk \in {"idle", "done"}, UNCHANGED walkOnly,
           NEW next, Go(next), UNCHANGED tree,
           NEW j \in 1 .. Len(disk), NEW r \in InodeType, disk' = [disk EXCEPT ![j] = r],
           f' \in {0, f}, next \in {"utimes", "fchmod"} => f' # 0,
           next \in {"next", "utimes", "fchmod"}
    PROVE  TypeInv'
<1>1. Fits BY FitsTypes
<1>2. disk' \in Seq(InodeType) /\ Len(disk') = Len(disk) BY <1>1 DEF Fits
<1>3. Fits' BY <1>1, <1>2 DEF Fits
<1>4. Len(disk) \in Nat /\ f \in 0 .. Len(disk) BY DEF TypeInv, TypeOK
<1> QED BY <1>2, <1>3, <1>4, Goes

\* A changed inode is an inode.
LEMMA InodeSet ==
    ASSUME NEW r \in InodeType
    PROVE  /\ \A d \in Nat : [r EXCEPT !.data = d] \in InodeType
           /\ \A p \in Perm : [r EXCEPT !.perm = p] \in InodeType
           /\ [r EXCEPT !.dated = TRUE] \in InodeType
BY DEF InodeType

\* The permissions an entry is given are permissions.
LEMMA PermsPerm ==
    ASSUME TypeInv, pc \in EntryStages, E.mode # None
    PROVE  Perms(E) \in Perm
<1>1. E.mode \in Perm BY EntryType1
<1> QED BY <1>1 DEF Perms, Perm

\* A file is opened.
LEMMA GoesCreating ==
    ASSUME TypeInv, pc \in EntryStages, walk \in {"idle", "done"}, UNCHANGED walkOnly,
           CreateNew
    PROVE  TypeInv'
<1> DEFINE n == Len(disk)
<1>1. Fits BY FitsTypes
<1>2. n \in Nat BY <1>1 DEF Fits
<1>3. E.path \in Path /\ cur \in Nat BY EntryType1
<1>4. NewFile \in InodeType BY <1>3 DEF NewFile, InodeType, Perm
<1>5. disk' \in Seq(InodeType) /\ Len(disk') = n + 1 BY <1>1, <1>4 DEF CreateNew, Fits
<1>6. File(n + 1) \in NodeType(n + 1) BY <1>2, NodesMade
<1>7. Sound(tree, n + 1) BY <1>1, <1>2, SoundGrows DEF Fits
<1>8. Sound(tree', n + 1) BY <1>3, <1>6, <1>7, MakeSound DEF CreateNew, Make
<1>9. Fits' BY <1>5, <1>8 DEF Fits
<1>10. Go("copy") /\ f' = n + 1 BY DEF CreateNew
<1> QED BY <1>2, <1>5, <1>9, <1>10, Goes

\* A step of an entry keeps the types.
LEMMA EntryTypes ==
    ASSUME TypeInv, walk \in {"idle", "done"}, UNCHANGED walkOnly, EntryStep
    PROVE  TypeInv'
<1> DEFINE quiet == UNCHANGED <<tree, disk, f>>
<1>0. ASSUME pc \in EntryStages
      PROVE  /\ Fits /\ Linked(tree) /\ <<>> \in DOMAIN tree /\ DOMAIN tree \subseteq Path
             /\ Len(disk) \in Nat /\ f \in 0 .. Len(disk)
             /\ E.path \in Path /\ E.path # <<>>
             /\ NewDir \in NodeType(Len(disk))
  <2>1. Fits BY FitsTypes
  <2>2. NewDir \in NodeType(Len(disk)) BY NodesMade DEF NewDir, Perm
  <2> QED BY <1>0, <2>1, <2>2, EntryType1, SoundLinked DEF Fits, TypeInv, TypeOK
<1>1. CASE MakeParent
  <2>1. pc \in EntryStages /\ pc = "parents" BY <1>1 DEF MakeParent, EntryStages
  <2>2. CASE Go("failed") /\ quiet BY <2>1, <2>2, GoesQuiet
  <2>3. ASSUME NEW n \in 1 .. Len(E.path) - 1, MayCreate(tree, SubSeq(E.path, 1, n)),
               Make(SubSeq(E.path, 1, n), NewDir), Go("parents"), UNCHANGED <<disk, f>>
        PROVE  TypeInv'
    <3>1. SubSeq(E.path, 1, n) \in Path BY <1>0, <2>1 DEF Path
    <3> QED BY <1>0, <2>1, <2>3, <3>1, GoesMaking
  <2> DEFINE M == Missing(E.path)
             n == CHOOSE n \in M : \A m \in M : n <= m
  <2>4. M # {} /\ M \subseteq 1 .. Len(E.path) - 1 BY <1>1 DEF MakeParent, Missing
  <2>5. n \in 1 .. Len(E.path) - 1
    <3>1. Len(E.path) \in Nat BY <1>0, <2>1 DEF Path
    <3>2. M \in SUBSET Nat BY <2>4, <3>1
    <3> HIDE DEF M
    <3>3. \E i \in M : \A m \in M : i <= m BY <2>4, <3>2, LeastNumber
    <3>4. n \in M BY <3>3
    <3> QED BY <2>4, <3>4
  <2>6. \/ Go("failed") /\ quiet
        \/ /\ MayCreate(tree, SubSeq(E.path, 1, n)) /\ Make(SubSeq(E.path, 1, n), NewDir)
           /\ Go("parents") /\ UNCHANGED <<disk, f>>
    BY <1>1 DEF MakeParent, Fail
  <2> HIDE DEF n
  <2> QED BY <2>2, <2>3, <2>5, <2>6
<1>2. CASE Validate
  <2>1. pc \in EntryStages /\ pc = "parents" BY <1>2 DEF Validate, EntryStages
  <2>2. FirstCall(E.kind) \in {"mkdir", "symlink", "hardlink", "next", "open"}
    BY DEF FirstCall
  <2>3. quiet /\ \E next \in {"failed", "mkdir", "symlink", "hardlink", "next", "open"} : Go(next)
    BY <1>2, <2>2 DEF Validate
  <2> QED BY <2>1, <2>3, GoesQuiet
<1>3. CASE MakeDir
  <2>1. pc \in EntryStages BY <1>3 DEF MakeDir, EntryStages
  <2>2. AfterDir \in {"next", "chmod"} /\ (AfterDir = "chmod" => E.mode # None) BY DEF AfterDir
  <2>3. CASE MayCreate(tree, E.path)
    <3>1. Make(E.path, NewDir) /\ Go(AfterDir) /\ UNCHANGED <<disk, f>> BY <1>3, <2>3 DEF MakeDir
    <3> QED BY <1>0, <2>1, <2>2, <2>3, <3>1, GoesMaking
  <2>4. CASE ~MayCreate(tree, E.path)
    <3>1. quiet /\ (Go(AfterDir) \/ Go("failed")) BY <1>3, <2>4 DEF MakeDir
    <3> QED BY <2>1, <2>2, <3>1, GoesQuiet
  <2> QED BY <2>3, <2>4
<1>4. CASE SetDirPerms
  <2>1. pc \in EntryStages /\ pc = "chmod" BY <1>4 DEF SetDirPerms, EntryStages
  <2>2. Perms(E) \in Perm BY <2>1, PermsPerm DEF TypeInv, Staged
  <2> DEFINE p == Canon(tree, E.path)
  <2>3. CASE p # None /\ IsDir(tree, p)
    <3>1. /\ tree' = With(tree, Canon(tree, E.path), Dir(Perms(E)))
          /\ Go("next") /\ UNCHANGED <<disk, f>>
      BY <1>4, <2>3 DEF SetDirPerms
    <3>2. Sound(tree', Len(disk)) BY <1>0, <2>1, <2>2, <2>3, <3>1, ChmodSound DEF Fits
    <3>3. Fits' BY <1>0, <2>1, <3>1, <3>2 DEF Fits
    <3> QED BY <1>0, <2>1, <3>1, <3>3, Goes
  <2>4. CASE p = None
    <3>1. quiet /\ Go("failed") BY <1>4, <2>4 DEF SetDirPerms, Fail
    <3> QED BY <2>1, <3>1, GoesQuiet
  <2>5. CASE p # None /\ ~IsDir(tree, p)
    <3>1. p \in DOMAIN tree /\ (p = <<>> \/ tree[p].kind # "symlink") /\ tree[p].kind # "dir"
      BY <1>0, <2>1, <2>5, CanonThere DEF IsDir
    <3>2. IsDir(tree, <<>>)
      <4> DEFINE q == Place(tree, E.path)
      <4>1. MaySearch(tree, Canon(tree, Parent(E.path))) /\ q \in DOMAIN tree
        BY <1>0, <2>1, <2>5, CanonStep
      <4>2. q \in Path /\ q # <<>> BY <1>0, <2>1, <4>1, PlaceIn
      <4>3. IsRooted(tree) /\ Below(q, <<>>) /\ <<>> \in Path
        BY <1>0, <2>1, <4>2, BelowParent DEF Fits, Sound
      <4> HIDE DEF q
      <4> QED BY <4>1, <4>3, AboveDir
    <3>3. tree[p] \in NodeType(Len(disk)) BY <1>0, <2>1, <3>1 DEF Fits, Sound
    <3>4. tree[p].kind = "file" BY <3>1, <3>2, <3>3, NodeKinds DEF IsDir
    <3> DEFINE j == tree[p].ino
               r == [disk[j] EXCEPT !.perm = Perms(E)]
    <3>5. j \in 1 .. Len(disk) BY <3>3, <3>4, NodeKinds
    <3>6. disk[j] \in InodeType BY <1>0, <2>1, <3>5 DEF Fits
    <3>7. r \in InodeType BY <2>2, <3>6, InodeSet
    <3>8. disk' = [disk EXCEPT ![j] = r] /\ Go("next") /\ UNCHANGED <<tree, f>>
      BY <1>4, <2>5 DEF SetDirPerms
    <3> HIDE DEF r, j
    <3> QED BY <2>1, <3>5, <3>7, <3>8, GoesSetting
  <2> QED BY <2>3, <2>4, <2>5
<1>5. CASE Open \/ Reopen
  <2>1. pc \in EntryStages BY <1>5 DEF Open, Reopen, EntryStages
  <2>2. CreateNew \/ (quiet /\ \E next \in {"remove", "failed"} : Go(next))
    BY <1>5 DEF Open, Reopen, Fail
  <2> QED BY <2>1, <2>2, GoesCreating, GoesQuiet
<1>6. CASE Remove
  <2>1. pc \in EntryStages BY <1>6 DEF Remove, EntryStages
  <2>2. \/ /\ MayRemove(tree, E.path) /\ tree' = Without(tree, Place(tree, E.path))
           /\ Go("reopen") /\ UNCHANGED <<disk, f>>
        \/ quiet /\ \E next \in {"failed", "reopen"} : Go(next)
    BY <1>6 DEF Remove
  <2> QED BY <2>1, <2>2, GoesRemoving, GoesQuiet
<1>7. CASE Copy
  <2>1. pc \in EntryStages /\ pc = "copy" BY <1>7 DEF Copy, EntryStages
  <2>2. f \in 1 .. Len(disk) /\ disk[f] \in InodeType /\ cur \in Nat /\ f # 0
    BY <1>0, <2>1, EntryType1 DEF Fits, TypeInv, TypeOK
  <2> DEFINE r == [disk[f] EXCEPT !.data = cur]
  <2>3. r \in InodeType BY <2>2, InodeSet
  <2>4. disk' = [disk EXCEPT ![f] = r] BY <1>7 DEF Copy
  <2>5. AfterFile \in {"utimes", "fchmod"} BY DEF AfterFile
  <2>6. Go(AfterFile) /\ UNCHANGED <<tree, f>> BY <1>7 DEF Copy
  <2> HIDE DEF r
  <2> QED BY <2>1, <2>2, <2>3, <2>4, <2>5, <2>6, GoesSetting
<1>8. CASE SetTimes
  <2>1. pc \in EntryStages /\ pc = "utimes" BY <1>8 DEF SetTimes, EntryStages
  <2> DEFINE p == Canon(tree, E.path)
  <2>2. f # 0 BY <2>1 DEF TypeInv, TypeOK
  <2>3. CASE p = None
    <3>1. Go("failed") /\ quiet BY <1>8, <2>3 DEF SetTimes, Fail
    <3> QED BY <2>1, <3>1, GoesQuiet
  <2>4. CASE p # None /\ tree[p].kind # "file"
    <3>1. Go("fchmod") /\ quiet BY <1>8, <2>4 DEF SetTimes
    <3> QED BY <2>1, <3>1, GoesQuiet
  <2>5. CASE p # None /\ tree[p].kind = "file"
    <3>1. p \in DOMAIN tree BY <1>0, <2>1, <2>5, CanonThere
    <3> DEFINE j == tree[p].ino
               r == [disk[j] EXCEPT !.dated = TRUE]
    <3>2. j \in 1 .. Len(disk) BY <1>0, <2>1, <2>5, <3>1, NodeKinds DEF Fits, Sound
    <3>3. disk[j] \in InodeType BY <1>0, <2>1, <3>2 DEF Fits
    <3>4. r \in InodeType BY <3>3, InodeSet
    <3>5. disk' = [disk EXCEPT ![j] = r] /\ Go("fchmod") /\ UNCHANGED <<tree, f>>
      BY <1>8, <2>5 DEF SetTimes
    <3> HIDE DEF r, j
    <3> QED BY <2>1, <2>2, <3>2, <3>4, <3>5, GoesSetting
  <2> QED BY <2>3, <2>4, <2>5
<1>9. CASE SetFilePerms
  <2>1. pc \in EntryStages /\ pc = "fchmod" BY <1>9 DEF SetFilePerms, EntryStages
  <2>2. Go("next") /\ UNCHANGED tree /\ f' = 0 BY <1>9 DEF SetFilePerms
  <2>3. CASE E.mode = None
    <3>1. UNCHANGED disk BY <1>9, <2>3 DEF SetFilePerms
    <3>2. Fits' BY <1>0, <2>1, <2>2, <3>1 DEF Fits
    <3> QED BY <1>0, <2>1, <2>2, <3>1, <3>2, Goes
  <2>4. CASE E.mode # None
    <3>1. f \in 1 .. Len(disk) /\ disk[f] \in InodeType
      BY <1>0, <2>1 DEF Fits, TypeInv, TypeOK
    <3> DEFINE r == [disk[f] EXCEPT !.perm = Perms(E)]
    <3>2. Perms(E) \in Perm BY <2>1, <2>4, PermsPerm
    <3>3. r \in InodeType BY <3>1, <3>2, InodeSet
    <3>4. disk' = [disk EXCEPT ![f] = r] BY <1>9, <2>4 DEF SetFilePerms
    <3> HIDE DEF r
    <3> QED BY <2>1, <2>2, <3>1, <3>3, <3>4, GoesSetting
  <2> QED BY <2>3, <2>4
<1>10. CASE HardLink
  <2>1. pc \in EntryStages BY <1>10 DEF HardLink, EntryStages
  <2> DEFINE q == Place(tree, E.link)
  <2>2. CASE Fail BY <2>1, <2>2, GoesQuiet DEF Fail
  <2>3. CASE ~Fail
    <3>1. /\ E.link \notin {None, <<>>} /\ Canon(tree, E.link) # None
          /\ MayCreate(tree, E.path)
          /\ Make(E.path, tree[q]) /\ Go("next") /\ UNCHANGED <<disk, f>>
      BY <1>10, <2>3 DEF HardLink
    <3>2. E.link \in Path BY <2>1, <3>1, EntryType1
    <3>3. q \in DOMAIN tree BY <1>0, <2>1, <3>1, <3>2, CanonStep
    <3>4. tree[q] \in NodeType(Len(disk)) BY <1>0, <2>1, <3>3 DEF Fits, Sound
    <3> QED BY <1>0, <2>1, <3>1, <3>4, GoesMaking
  <2> QED BY <2>2, <2>3
<1>11. CASE SymLink \/ Relink
  <2>1. pc \in EntryStages BY <1>11 DEF SymLink, Relink, EntryStages
  <2>2. E.link \notin {None, <<>>} \/ (SymLink /\ Fail) BY <1>11 DEF SymLink, Relink, TypeInv, Staged
  <2>3. AfterLink \in {"lutimes", "next"} BY DEF AfterLink
  <2>4. \/ quiet /\ Go("failed")
        \/ quiet /\ Go("unlink") /\ E.link \notin {None, <<>>}
        \/ /\ E.link \notin {None, <<>>} /\ MayCreate(tree, E.path)
           /\ Make(E.path, Symlink(E.link)) /\ Go(AfterLink) /\ UNCHANGED <<disk, f>>
    BY <1>11, <2>2 DEF SymLink, Relink, Fail
  <2>5. CASE quiet /\ Go("failed") BY <2>1, <2>5, GoesQuiet
  <2>6. CASE quiet /\ Go("unlink") /\ E.link \notin {None, <<>>} BY <2>1, <2>6, GoesQuiet
  <2>7. CASE /\ E.link \notin {None, <<>>} /\ MayCreate(tree, E.path)
             /\ Make(E.path, Symlink(E.link)) /\ Go(AfterLink) /\ UNCHANGED <<disk, f>>
    <3>1. Symlink(E.link) \in NodeType(Len(disk)) BY <2>1, <2>7, EntryType1, NodesMade
    <3> QED BY <1>0, <2>1, <2>3, <2>7, <3>1, GoesMaking
  <2> QED BY <2>4, <2>5, <2>6, <2>7
<1>12. CASE Unlink
  <2>1. pc \in EntryStages /\ pc = "unlink" BY <1>12 DEF Unlink, EntryStages
  <2>2. E.link \notin {None, <<>>} BY <2>1 DEF TypeInv, Staged
  <2>3. \/ /\ MayRemove(tree, E.path) /\ tree' = Without(tree, Place(tree, E.path))
           /\ Go("relink") /\ UNCHANGED <<disk, f>>
        \/ quiet /\ Go("failed")
    BY <1>12 DEF Unlink
  <2> QED BY <2>1, <2>2, <2>3, GoesRemoving, GoesQuiet
<1>13. CASE SetLinkTimes
  <2>1. pc \in EntryStages BY <1>13 DEF SetLinkTimes, EntryStages
  <2>2. quiet /\ \E next \in {"next", "failed"} : Go(next) BY <1>13 DEF SetLinkTimes
  <2> QED BY <2>1, <2>2, GoesQuiet
<1> QED BY <1>1, <1>2, <1>3, <1>4, <1>5, <1>6, <1>7, <1>8, <1>9, <1>10, <1>11, <1>12, <1>13
        DEF EntryStep

-----------------------------------------------------------------------------
\* A step from entry to entry keeps the types.
LEMMA ArchiveTypes ==
    ASSUME TypeInv, walk \in {"idle", "done"}, UNCHANGED walkOnly,
           PutOff \/ NextEntry \/ NextDirectory \/ Unpacked \/ CutShort \/ Again
    PROVE  TypeInv'
<1> DEFINE n == Len(archive)
<1>1. /\ n \in Nat /\ k \in 0 .. n /\ cur \in 0 .. n /\ f \in 0 .. Len(disk) /\ Len(disk) \in Nat
      /\ directories \in Seq(1 .. n) /\ archive \in Seq(EntryType)
  BY DEF TypeInv, TypeOK, Staged
<1>2. UNCHANGED <<fixed, tree, disk>> /\ f' \in {0, f}
  BY DEF PutOff, NextEntry, NextDirectory, Start, Unpacked, Go, CutShort, Again
<1>3. UNCHANGED <<set, archive, tree, disk>> BY <1>2 DEF fixed
<1>4. Walking' BY DEF Walking, walkOnly
<1>5. ASSUME k' \in 0 .. n, cur' \in 0 .. n, directories' \in Seq(1 .. n),
             pc' \notin EntryStages \/ (pc' = "parents" /\ cur' # 0 /\ archive[cur'].path \notin {None, <<>>})
      PROVE  TypeInv'
  <2>1. pc' \notin {"copy", "utimes", "fchmod", "chmod", "unlink", "relink"}
    BY <1>5 DEF EntryStages
  <2>2. TypeOK' BY <1>1, <1>2, <1>3, <1>5, <2>1 DEF TypeInv, TypeOK
  <2>3. E' = archive[cur'] BY <1>3 DEF E
  <2>4. Staged' BY <1>3, <1>5, <2>1, <2>3 DEF Staged
  <2> QED BY <1>4, <2>2, <2>4 DEF TypeInv
<1>6. ASSUME NEW m \in 1 .. n, Start(m) 
      PROVE  /\ cur' = m
             /\ \/ pc' = "next"
                \/ (pc' = "parents" /\ cur' # 0 /\ archive[cur'].path \notin {None, <<>>})
  BY <1>6 DEF Start
<1>7. {"next", "ok", "cut"} \cap EntryStages = {} BY DEF EntryStages
<1>8. CASE PutOff
  <2>1. k' = k + 1 /\ k < n /\ directories' = Append(directories, k + 1) /\ UNCHANGED <<pc, cur>>
        /\ pc = "next"
    BY <1>8 DEF PutOff
  <2> QED BY <1>1, <1>5, <1>7, <2>1
<1>9. CASE NextEntry
  <2>1. k' = k + 1 /\ k < n /\ UNCHANGED directories /\ Start(k + 1) BY <1>9 DEF NextEntry
  <2>2. k + 1 \in 1 .. n BY <1>1, <2>1
  <2> QED BY <1>1, <1>5, <1>6, <1>7, <2>1, <2>2
<1>10. CASE NextDirectory
  <2>1. k' = k /\ directories # <<>> /\ directories' = Tail(directories) /\ Start(Head(directories))
    BY <1>10 DEF NextDirectory
  <2>2. Head(directories) \in 1 .. n /\ Tail(directories) \in Seq(1 .. n) BY <1>1, <2>1
  <2> QED BY <1>1, <1>5, <1>6, <1>7, <2>1, <2>2
<1>11. CASE Unpacked \/ CutShort
  <2>1. UNCHANGED <<k, cur, directories>> /\ pc' \in {"ok", "cut"}
    BY <1>11 DEF Unpacked, Go, CutShort
  <2> QED BY <1>1, <1>5, <1>7, <2>1
<1>12. CASE Again
  <2>1. k' = 0 /\ cur' = 0 /\ directories' = <<>> /\ pc' = "next" BY <1>12 DEF Again
  <2>2. <<>> \in Seq(1 .. n) OBVIOUS
  <2> QED BY <1>1, <1>5, <1>7, <2>1, <2>2
<1> QED BY <1>8, <1>9, <1>10, <1>11, <1>12

\* What another program may do keeps the types.
LEMMA MeddleTypes ==
    ASSUME TypeInv, walk \in {"idle", "done"}, UNCHANGED walkOnly, Meddle
    PROVE  TypeInv'
<1>1. UNCHANGED <<fixed, pc, k, cur, directories, f>> BY DEF Meddle
<1>2. Fits /\ Len(disk) \in Nat /\ Linked(tree) BY FitsTypes, SoundLinked DEF Fits
<1>3. Fits' /\ Len(disk') >= Len(disk)
  <2>1. PICK p \in Meddling :
            \/ /\ MayCreate(tree, p) /\ Make(p, File(Len(disk) + 1))
               /\ disk' = Append(disk, Others)
            \/ /\ MayRemove(tree, p) /\ tree' = Without(tree, Place(tree, p)) /\ UNCHANGED disk
    BY DEF Meddle
  <2>2. p \in Path BY UnpackAssumption
  <2>3. CASE MayCreate(tree, p) /\ Make(p, File(Len(disk) + 1)) /\ disk' = Append(disk, Others)
    <3>1. Others \in InodeType BY DEF Others, InodeType, Perm
    <3>2. disk' \in Seq(InodeType) /\ Len(disk') = Len(disk) + 1 BY <1>2, <2>3, <3>1 DEF Fits
    <3>3. File(Len(disk) + 1) \in NodeType(Len(disk) + 1) BY <1>2, NodesMade
    <3>4. Sound(tree, Len(disk) + 1) BY <1>2, SoundGrows DEF Fits
    <3>5. Sound(tree', Len(disk) + 1) BY <2>2, <2>3, <3>3, <3>4, MakeSound DEF Make
    <3> QED BY <1>2, <3>2, <3>5 DEF Fits
  <2>4. CASE MayRemove(tree, p) /\ tree' = Without(tree, Place(tree, p)) /\ UNCHANGED disk
    <3>1. Sound(tree', Len(disk)) BY <1>2, <2>2, <2>4, RemoveSound DEF Fits
    <3> QED BY <1>2, <2>4, <3>1 DEF Fits
  <2> QED BY <2>1, <2>3, <2>4
<1>4. E' = E BY <1>1 DEF E, fixed
<1>5. Len(disk') \in Nat BY <1>3 DEF Fits
<1>6. TypeOK' BY <1>1, <1>2, <1>3, <1>5 DEF TypeInv, TypeOK, Fits, Sound, fixed
<1>7. Staged' BY <1>1, <1>4 DEF TypeInv, Staged, fixed
<1>8. Walking' BY DEF Walking, walkOnly
<1> QED BY <1>6, <1>7, <1>8 DEF TypeInv

-----------------------------------------------------------------------------
\* What the sources have for lookups.
LEMMA SourceSound ==
    ASSUME NEW s \in Sources
    PROVE  /\ DOMAIN s.tree \subseteq Path /\ <<>> \in DOMAIN s.tree /\ Linked(s.tree)
           /\ IsFiniteSet(DOMAIN s.tree) /\ s.disk \in Seq(InodeType)
           /\ \A p \in DOMAIN s.tree :
                /\ s.tree[p].kind \in {"dir", "file", "symlink", "fifo", "socket"}
                /\ s.tree[p].kind = "dir" => s.tree[p].perm \in Perm
                /\ s.tree[p].kind = "file" => s.tree[p].ino \in 1 .. Len(s.disk)
                /\ s.tree[p].kind = "symlink" => s.tree[p].target \in Path
<1>1. IsRooted(s.tree) /\ IsFiniteSet(DOMAIN s.tree) /\ s.disk \in Seq(InodeType)
      /\ \A p \in DOMAIN s.tree : s.tree[p] \in NodeType(Len(s.disk)) \cup SpecialType
  BY TripAssumption
<1>2. ASSUME NEW p \in DOMAIN s.tree
      PROVE  /\ s.tree[p].kind \in {"dir", "file", "symlink", "fifo", "socket"}
             /\ s.tree[p].kind = "dir" => s.tree[p].perm \in Perm
             /\ s.tree[p].kind = "file" => s.tree[p].ino \in 1 .. Len(s.disk)
             /\ s.tree[p].kind = "symlink" => s.tree[p].target \in Path
  <2>1. CASE s.tree[p] \in NodeType(Len(s.disk)) BY <2>1, NodeKinds
  <2>2. CASE s.tree[p] \in SpecialType BY <2>2 DEF SpecialType
  <2> QED BY <1>1, <2>1, <2>2
<1> QED BY <1>1, <1>2 DEF IsRooted, Linked

\* What append_dir_all makes of a node is an entry.
LEMMA WalkEntry ==
    ASSUME TypeInv, walk = "walk", NEW p \in DOMAIN source.tree,
           source.tree[p].kind # "socket", NEW dest \in Path
    PROVE  W!Entry(source.tree[p], dest) \in EntryType
<1> DEFINE node == source.tree[p]
<1>0. source \in Sources BY DEF TypeInv, Walking
<1>1. /\ node.kind \in {"dir", "file", "symlink", "fifo"}
      /\ node.kind = "dir" => node.perm \in Perm
      /\ node.kind = "file" => node.ino \in 1 .. Len(source.disk)
      /\ node.kind = "symlink" => node.target \in Path
      /\ source.disk \in Seq(InodeType)
  BY <1>0, SourceSound
<1> HIDE DEF node
<1>2. node.kind = "file" => source.disk[node.ino].perm \in Perm
  <2>1. \A r \in InodeType : r.perm \in Perm BY DEF InodeType
  <2> QED BY <1>1, <2>1
<1>3. {"w"} \in Perm /\ {"w", "x"} \in Perm BY DEF Perm
<1>4. W!ModeOf(node) \in Perm BY <1>1, <1>2, <1>3 DEF W!ModeOf
<1>5. W!Entry(node, dest) \in EntryType BY <1>1, <1>4 DEF W!Entry, EntryType
<1> QED BY <1>5 DEF node

\* DirWalk looks up paths as Unpack does.
LEMMA WalkLooks ==
    ASSUME NEW t, NEW p
    PROVE  /\ W!Canon(t, p) = Canon(t, p) /\ W!Place(t, p) = Place(t, p)
           /\ W!Exists(t, p) = Exists(t, p) /\ W!IsDir(t, p) = IsDir(t, p)
           /\ W!Parent(p) = Parent(p)
<1>1. W!Lookup(t) = Lookup(t)
  BY DEF W!Lookup, Lookup, W!Parent, Parent, W!Name, Name, W!MaySearch, MaySearch,
         W!IsDir, IsDir, W!Path, Path
<1>2. \A q : W!Canon(t, q) = Canon(t, q) BY <1>1 DEF W!Canon, Canon
<1>3. W!Place(t, p) = Place(t, p)
  BY <1>2 DEF W!Place, Place, W!Parent, Parent, W!Name, Name, W!MaySearch, MaySearch,
              W!IsDir, IsDir
<1> QED BY <1>2, <1>3 DEF W!Exists, Exists, W!IsDir, IsDir, W!Parent, Parent

\* What the walk pushes is an item.
LEMMA ItemTypes ==
    ASSUME NEW x \in Path, NEW v
    PROVE  LET i == W!Item(x, v = "dir", v = "symlink")
           IN  i \in Items /\ i.src = x /\ (i.link <=> v = "symlink")
<1> DEFINE i == W!Item(x, v = "dir", v = "symlink")
<1>1. v = "dir" => i = [src |-> x, dir |-> TRUE, link |-> FALSE] BY DEF W!Item
<1>2. v = "symlink" => i = [src |-> x, dir |-> FALSE, link |-> TRUE] BY DEF W!Item
<1>3. v \notin {"dir", "symlink"} => i = [src |-> x, dir |-> FALSE, link |-> FALSE]
  BY DEF W!Item
<1> HIDE DEF i
<1>4. \A d, l \in BOOLEAN : [src |-> x, dir |-> d, link |-> l] \in Items BY DEF Items
<1>5. i \in Items BY <1>1, <1>2, <1>3, <1>4
<1>6. i.src = x BY <1>1, <1>2, <1>3
<1>7. v = "symlink" => i.link = TRUE BY <1>2
<1>8. v # "symlink" => i.link = FALSE BY <1>1, <1>3
<1> QED BY <1>5, <1>6, <1>7, <1>8 DEF i

\* A step of the walk keeps the types.
LEMMA WalkTypes ==
    ASSUME TypeInv, WalkStep
    PROVE  TypeInv'
<1> DEFINE src == W!Top.src
<1>1. walk = "walk" /\ UNCHANGED <<set, first, tree, disk, k, cur, directories, f, counts>>
      /\ UNCHANGED <<source, base, follow, mode>>
      /\ pc' = IF walk' = "done" THEN "next" ELSE pc
  BY DEF WalkStep, W!WalkNext, W!WalkDir, W!WalkLink, W!WalkFile, W!WalkDone, W!GiveUp, W!Keep
<1>2. /\ source \in Sources /\ base \in Path
      /\ pc = "waits" /\ k = 0 /\ cur = 0 /\ directories = <<>> /\ f = 0
      /\ stack \in Seq(Items)
      /\ \A i \in DOMAIN stack :
                stack[i].link /\ Place(source.tree, stack[i].src) # None =>
                    source.tree[Place(source.tree, stack[i].src)].kind = "symlink"
  BY <1>1 DEF TypeInv, Walking
<1> DEFINE Marked(i) == i.link /\ Place(source.tree, i.src) # None =>
                            source.tree[Place(source.tree, i.src)].kind = "symlink"
<1>3. ASSUME archive' = archive \/ \E e \in EntryType : archive' = Append(archive, e),
             walk' = "done" \/
                (stack' \in Seq(Items) /\ \A i \in DOMAIN stack' : Marked(stack'[i]))
      PROVE  TypeInv'
  <2>1. archive' \in Seq(EntryType) BY <1>3 DEF TypeInv, TypeOK
  <2>2. pc' \in {"waits", "next"} /\ (pc' = "waits" <=> walk' # "done") BY <1>1, <1>2
  <2>3. Len(archive') \in Nat /\ Len(disk) \in Nat BY <2>1 DEF TypeInv, TypeOK
  <2>4. TypeOK' BY <1>1, <1>2, <2>1, <2>2, <2>3 DEF TypeInv, TypeOK
  <2>5. Staged' BY <1>1, <1>2, <2>2 DEF Staged, EntryStages
  <2>6. Walking' BY <1>1, <1>2, <1>3, <2>2 DEF Walking
  <2> QED BY <2>4, <2>5, <2>6 DEF TypeInv
<1>4. CASE W!WalkDone
  BY <1>3, <1>4 DEF W!WalkDone
<1>5. CASE ~W!WalkDone
  <2>1. stack # <<>>
    BY <1>5 DEF WalkStep, W!WalkNext, W!WalkDir, W!WalkLink, W!WalkFile
  <2> DEFINE front == W!Front(stack)
  <2>2. /\ front \in Seq(Items) /\ \A i \in DOMAIN front : i \in DOMAIN stack /\ front[i] = stack[i]
        /\ W!Top \in Items /\ Marked(W!Top)
    <3>1. Len(stack) \in Nat /\ Len(stack) # 0 BY <1>2, <2>1
    <3>2. W!Top = stack[Len(stack)] BY DEF W!Top, W!Last
    <3>3. Len(stack) \in DOMAIN stack /\ stack[Len(stack)] \in Items BY <1>2, <3>1
    <3>4. front = SubSeq(stack, 1, Len(stack) - 1) BY DEF W!Front
    <3> QED BY <1>2, <3>1, <3>2, <3>3, <3>4
  <2>3. src \in Path /\ W!Dest \in Path
    <3>1. src \in Path BY <2>2 DEF Items
    <3> QED BY <1>2, <3>1 DEF W!Dest, Path
  <2>4. /\ DOMAIN source.tree \subseteq Path /\ <<>> \in DOMAIN source.tree /\ Linked(source.tree)
        /\ IsFiniteSet(DOMAIN source.tree)
    BY <1>2, SourceSound
  <2> HIDE DEF front
  <2>5. CASE W!GiveUp
    BY <1>2, <1>3, <2>5 DEF W!GiveUp
  <2>6. CASE W!WalkLink /\ ~W!GiveUp
    <3> DEFINE q == Place(source.tree, src)
    <3>1. /\ Exists(source.tree, src) /\ W!Top.link /\ stack' = front
          /\ archive' = Append(archive, W!Entry(source.tree[q], W!Dest))
      BY <2>6, WalkLooks DEF W!WalkLink, W!There, front
    <3>2. q \in DOMAIN source.tree /\ q # None BY <3>1 DEF Exists
    <3>3. source.tree[q].kind = "symlink" BY <2>2, <3>1, <3>2
    <3>4. W!Entry(source.tree[q], W!Dest) \in EntryType BY <1>1, <2>3, <3>2, <3>3, WalkEntry
    <3> QED BY <1>2, <1>3, <2>2, <3>1, <3>4
  <2>7. CASE W!WalkFile /\ ~W!GiveUp
    <3> DEFINE q == Canon(source.tree, src)
    <3>1. /\ q # None /\ source.tree[q].kind # "socket" /\ stack' = front
          /\ archive' = Append(archive, W!Entry(source.tree[q], W!Dest))
      BY <2>7, WalkLooks DEF W!WalkFile, W!There, W!Target, front
    <3>2. q \in DOMAIN source.tree BY <2>3, <2>4, <3>1, CanonThere
    <3>3. W!Entry(source.tree[q], W!Dest) \in EntryType BY <1>1, <2>3, <3>1, <3>2, WalkEntry
    <3> QED BY <1>2, <1>3, <2>2, <3>1, <3>3
  <2>8. CASE W!WalkDir /\ ~W!GiveUp
    <3> DEFINE q == Canon(source.tree, src)
    <3>1. PICK children \in W!Children(q, src) :
            /\ IsDir(source.tree, q) /\ stack' = front \o children
            /\ archive' = IF W!Dest = <<>> THEN archive
                          ELSE Append(archive, W!Entry(source.tree[q], W!Dest))
      BY <2>8, WalkLooks DEF W!WalkDir, W!There, W!Target, front
    <3>2. q \in DOMAIN source.tree /\ source.tree[q].kind = "dir" BY <3>1 DEF IsDir
    <3>3. W!Entry(source.tree[q], W!Dest) \in EntryType BY <1>1, <2>3, <3>2, WalkEntry
    <3>4. children \in Seq(Items) /\ \A i \in DOMAIN children : Marked(children[i])
      <4> DEFINE names == {p[Len(p)] : p \in {r \in DOMAIN source.tree : r # <<>> /\ Parent(r) = q}}
                 kind(n) == source.tree[Append(q, n)].kind
                 item(n) == W!Item(Append(src, n), kind(n) = "dir", kind(n) = "symlink")
      <4>1. PICK s \in W!SetToSeqs(names) : children = [i \in DOMAIN s |-> item(s[i])]
        BY <3>1 DEF W!Children, W!There, W!Parent, Parent
      <4>2. IsFiniteSet(names) /\ names \subseteq Names
        <5> DEFINE T == {r \in DOMAIN source.tree : r # <<>> /\ Parent(r) = q}
                   g == [p \in T |-> p[Len(p)]]
        <5>1. IsFiniteSet(T)
          <6>1. T \in SUBSET DOMAIN source.tree OBVIOUS
          <6> QED BY <2>4, <6>1, FS_Subset
        <5>2. g \in Surjection(T, names) BY DEF Surjection
        <5>3. IsFiniteSet(names)
          <6> HIDE DEF T, g, names
          <6> QED BY <5>1, <5>2, FS_Surjection
        <5>4. ASSUME NEW p \in T PROVE p[Len(p)] \in Names
          <6>1. p \in Path /\ p # <<>> BY <2>4
          <6> QED BY <6>1, ParentPath DEF Name
        <5> QED BY <5>3, <5>4
      <4> DEFINE m == Cardinality(names)
      <4>3. m \in Nat BY <4>2, FS_CardinalityType
      <4>4. s \in [1 .. m -> names]
        <5>1. W!Cardinality(names) = m
          <6> HIDE DEF names
          <6> QED BY DEF W!Cardinality, Cardinality, W!IsFiniteSet, IsFiniteSet
        <5> HIDE DEF names, m
        <5> QED BY <4>1, <5>1 DEF W!SetToSeqs
      <4> HIDE DEF names, m
      <4>5. DOMAIN children = 1 .. m /\ \A i \in 1 .. m : s[i] \in Names /\ children[i] = item(s[i])
        BY <4>1, <4>2, <4>4
      <4>6. ASSUME NEW n \in Names PROVE item(n) \in Items /\ Marked(item(n))
        <5>1. Append(src, n) \in Path /\ Append(src, n) # <<>> /\ Parent(Append(src, n)) = src
              /\ Name(Append(src, n)) = n
          BY <2>3, ChildPath
        <5>2. item(n) \in Items /\ item(n).src = Append(src, n) /\ (item(n).link <=> kind(n) = "symlink")
          <6> DEFINE v == kind(n)
          <6>1. item(n) = W!Item(Append(src, n), v = "dir", v = "symlink") OBVIOUS
          <6> HIDE DEF item, v
          <6>2. item(n) \in Items /\ item(n).src = Append(src, n) /\ (item(n).link <=> v = "symlink")
            <7> DEFINE y == Append(src, n)
            <7>1. y \in Path BY <5>1
            <7> HIDE DEF y
            <7>2. LET i == W!Item(y, v = "dir", v = "symlink")
                  IN  i \in Items /\ i.src = y /\ (i.link <=> v = "symlink")
              BY <7>1, ItemTypes
            <7> QED BY <6>1, <7>2, Zenon DEF y
          <6> QED BY <6>2 DEF v
        <5>3. Place(source.tree, Append(src, n)) # None =>
                  Place(source.tree, Append(src, n)) = Append(q, n)
          BY <5>1 DEF Place
        <5> HIDE DEF item
        <5> QED BY <5>2, <5>3
      <4>7. children \in Seq(Items)
        <5>1. children = [i \in 1 .. m |-> item(s[i])] BY <4>1, <4>4
        <5> HIDE DEF item
        <5>2. \A i \in 1 .. m : item(s[i]) \in Items BY <4>5, <4>6
        <5> QED BY <4>3, <5>1, <5>2
      <4>8. ASSUME NEW i \in DOMAIN children PROVE Marked(children[i])
        <5>1. s[i] \in Names /\ children[i] = item(s[i]) BY <4>5
        <5> HIDE DEF item, Marked
        <5> QED BY <4>6, <5>1
      <4> QED BY <4>7, <4>8
    <3>5. stack' \in Seq(Items) BY <2>2, <3>1, <3>4
    <3>6. \A i \in DOMAIN stack' : Marked(stack'[i])
      <4> SUFFICES ASSUME NEW i \in DOMAIN stack' PROVE Marked(stack'[i]) OBVIOUS
      <4>1. stack' = front \o children /\ Len(front) \in Nat /\ Len(children) \in Nat
        BY <2>2, <3>1, <3>4
      <4>2. CASE i \in DOMAIN front
        <5>1. stack'[i] = front[i] /\ front[i] = stack[i] /\ i \in DOMAIN stack
          BY <2>2, <3>4, <4>1, <4>2
        <5> QED BY <1>2, <5>1
      <4>3. CASE i \notin DOMAIN front
        <5>1. i - Len(front) \in DOMAIN children /\ stack'[i] = children[i - Len(front)]
          BY <2>2, <3>4, <4>1, <4>3
        <5> QED BY <3>4, <5>1
      <4> QED BY <4>2, <4>3
    <3> QED BY <1>3, <3>1, <3>3, <3>5, <3>6
  <2> QED BY <1>5, <2>5, <2>6, <2>7, <2>8 DEF WalkStep, W!WalkNext
<1> QED BY <1>4, <1>5

\* The types hold at first.
LEMMA TypeInit == TripInit => TypeInv
<1> SUFFICES ASSUME TripInit PROVE TypeInv OBVIOUS
<1>1. InitUnpack BY DEF TripInit
<1>2. PICK d \in Disks : tree = d.tree /\ disk = d.disk BY <1>1 DEF InitUnpack
<1>3. disk \in Seq(InodeType) /\ Len(disk) \in Nat /\ IsRooted(tree)
      /\ \A p \in DOMAIN tree : tree[p] \in NodeType(Len(disk))
  BY <1>2, UnpackAssumption
<1>4. set \in Settings /\ k = 0 /\ cur = 0 /\ directories = <<>> /\ f = 0
  BY <1>1 DEF InitUnpack
<1>5. CASE archive \in Archives /\ pc = "next" /\ walk = "idle"
  <2>1. archive \in Seq(EntryType) /\ Len(archive) \in Nat BY <1>5, TripAssumption
  <2>2. TypeOK BY <1>3, <1>4, <1>5, <2>1 DEF TypeOK
  <2>3. Staged BY <1>4, <1>5 DEF Staged, EntryStages
  <2> QED BY <1>5, <2>2, <2>3 DEF TypeInv, Walking
<1>6. CASE source \in Sources /\ base \in Bases /\ W!StartWalk /\ pc = "waits"
  <2> DEFINE i == W!Item(<<>>, TRUE, FALSE)
  <2>1. archive = <<>> /\ walk = "walk" /\ stack = <<i>> BY <1>6 DEF W!StartWalk
  <2>2. TypeOK BY <1>3, <1>4, <1>6, <2>1 DEF TypeOK
  <2>3. Staged BY <1>4, <1>6 DEF Staged, EntryStages
  <2>4. i \in Items /\ i.link = FALSE
    <3>1. <<>> \in Path BY DEF Path
    <3> QED BY <3>1 DEF W!Item, Items
  <2>5. base \in Path BY <1>6, TripAssumption
  <2>6. stack \in Seq(Items) /\ \A j \in DOMAIN stack : stack[j] = i
    <3> HIDE DEF i
    <3> QED BY <2>1, <2>4
  <2>7. Walking BY <1>4, <1>6, <2>1, <2>4, <2>5, <2>6 DEF Walking
  <2> QED BY <2>2, <2>3, <2>7 DEF TypeInv
<1> QED BY <1>5, <1>6 DEF TripInit

\* Every step keeps the types.
LEMMA TypeStep ==
    ASSUME TypeInv, [TripNext]_tripVars
    PROVE  TypeInv'
<1>1. CASE UNCHANGED tripVars
  <2>1. UNCHANGED <<archive, set, tree, disk, pc, k, cur, directories, f, source, base, stack, walk>>
    BY <1>1 DEF tripVars, vars, fixed, walkOnly
  <2>2. TypeOK' BY <2>1 DEF TypeInv, TypeOK
  <2>3. E' = E BY <2>1 DEF E
  <2>4. Staged' BY <2>1, <2>3 DEF TypeInv, Staged
  <2>5. Walking' BY <2>1 DEF TypeInv, Walking
  <2> QED BY <2>2, <2>4, <2>5 DEF TypeInv
<1>2. CASE WalkStep BY <1>2, WalkTypes
<1>3. CASE UnpackStep
  BY <1>3, EntryTypes, ArchiveTypes, MeddleTypes DEF UnpackStep, UnpackNext
<1> QED BY <1>1, <1>2, <1>3 DEF TripNext

\* The types always hold.
LEMMA TypesAlways == TripSpec => []TypeInv
<1>1. TypeInv /\ [TripNext]_tripVars => TypeInv' BY TypeStep
<1> QED BY TypeInit, <1>1, PTL DEF TripSpec

\* In every state the tree is a tree whose files are on the disk, the archive
\* and the open file are what they should be.
THEOREM TypeCorrect == TripSpec => []TypeOK
<1>1. TypeInv => TypeOK BY DEF TypeInv
<1> QED BY <1>1, TypesAlways, PTL

-----------------------------------------------------------------------------
(***************************************************************************)
(* OnlyOwnFiles                                                            *)
(***************************************************************************)

\* When a directory is to get its bits, its path does not denote a file that
\* was there at first.
Chmods ==
    /\ FirstFiles \subseteq 1 .. Len(disk)
    /\ pc \in {"mkdir", "chmod"} => E.kind \in {"dir", "bsd"}
    /\ pc = "chmod" =>
        LET c == Canon(tree, E.path)
        IN  c = None \/ IsDir(tree, c) \/ tree[c].ino \notin FirstFiles

\* Where a step goes on with a directory.
LEMMA ChmodMoves ==
    ASSUME TripNext, TypeInv
    PROVE  /\ UNCHANGED first
           /\ pc' = "mkdir" => \/ UNCHANGED <<archive, pc, cur>>
                               \/ UNCHANGED <<archive, cur>> /\ E.kind \in {"dir", "bsd"}
           /\ pc' = "chmod" => (Meddle \/ MakeDir) /\ UNCHANGED <<archive, cur>>
<1>1. CASE WalkStep
  <2>1. pc' \in {"waits", "next"} /\ UNCHANGED first
    BY <1>1 DEF WalkStep, W!WalkNext, W!WalkDir, W!WalkLink, W!WalkFile, W!WalkDone, W!GiveUp,
                TypeInv, Walking
  <2> QED BY <2>1
<1>2. CASE PutOff \/ NextEntry \/ NextDirectory \/ Unpacked \/ CutShort \/ Again
  <2>1. pc' \in {"next", "parents", "ok", "cut"} /\ UNCHANGED first
    BY <1>2 DEF PutOff, NextEntry, NextDirectory, Start, Unpacked, CutShort, Again, Go, fixed
  <2> QED BY <2>1
<1>3. CASE Meddle BY <1>3 DEF Meddle, fixed
<1>4. CASE MakeDir
  <2>1. UNCHANGED <<archive, cur, first>> /\ pc' \in {"next", "chmod", "failed"}
    BY <1>4 DEF MakeDir, AfterDir, Go, fixed
  <2> QED BY <1>4, <2>1
<1>5. CASE Validate
  <2>1. UNCHANGED <<archive, cur, first>> /\ pc' \in {"failed", FirstCall(E.kind)}
    BY <1>5 DEF Validate, Go, fixed
  <2>2. /\ FirstCall(E.kind) \in {"mkdir", "symlink", "hardlink", "next", "open"}
        /\ FirstCall(E.kind) = "mkdir" => E.kind \in {"dir", "bsd"}
    BY Zenon DEF FirstCall
  <2> QED BY <2>1, <2>2
<1>6. CASE MakeParent \/ SetDirPerms \/ Remove \/ Copy \/ SetTimes \/ SetFilePerms
  <2>1. UNCHANGED first /\ pc' \in {"parents", "next", "failed", "reopen", "utimes", "fchmod"}
    BY <1>6 DEF MakeParent, SetDirPerms, Remove, Copy, SetTimes, SetFilePerms, AfterFile,
                Fail, Go, fixed
  <2> QED BY <2>1
<1>7. CASE Open \/ Reopen
  <2>1. UNCHANGED first /\ pc' \in {"copy", "remove", "failed"}
    BY <1>7 DEF Open, Reopen, CreateNew, Fail, Go, fixed
  <2> QED BY <2>1
<1>8. CASE HardLink \/ SymLink \/ Unlink \/ Relink \/ SetLinkTimes
  <2>1. UNCHANGED first /\ pc' \in {"next", "unlink", "relink", "lutimes", "failed"}
    BY <1>8 DEF HardLink, SymLink, Unlink, Relink, SetLinkTimes, AfterLink, Fail, Go, fixed
  <2> QED BY <2>1
<1> QED BY <1>1, <1>2, <1>3, <1>4, <1>5, <1>6, <1>7, <1>8
        DEF TripNext, UnpackStep, UnpackNext, EntryStep

\* Something new makes a path denote what it did, or the new node.
LEMMA CanonGrows ==
    ASSUME NEW n, Sound(tree, n), NEW p \in Path, MayCreate(tree, p),
           NEW node, node.kind # "symlink", tree' = With(tree, Place(tree, p), node),
           NEW q \in Path
    PROVE  \/ Canon(tree', q) = Canon(tree, q)
           \/ Canon(tree, q) = None /\ Canon(tree', q) = Place(tree, p)
<1> DEFINE new == Place(tree, p)
           v == Lookup(tree)[<<MaxLinks, q>>]
           w == Lookup(With(tree, new, node))[<<MaxLinks, q>>]
<1>1. Linked(tree) /\ <<>> \in DOMAIN tree /\ DOMAIN tree \subseteq Path BY SoundLinked
<1>2. new \notin DOMAIN tree /\ new # None BY DEF MayCreate
<1>3. new \in Path
  <2>1. p # <<>> BY <1>1, <1>2 DEF Place
  <2> QED BY <1>1, <1>2, <2>1, PlaceIn
<1>4. ASSUME NEW x \in Names, Append(new, x) \in DOMAIN tree PROVE FALSE
  <2>1. Append(new, x) # <<>> /\ Parent(Append(new, x)) = new BY <1>3, ChildPath
  <2> QED BY <1>2, <1>4, <2>1 DEF Sound, IsRooted
<1>5. MaxLinks \in 0 .. MaxLinks BY TreeAssumption
<1> HIDE DEF new
<1>6. w = v \/ (v = Nothing /\ w.at = new) BY <1>1, <1>2, <1>3, <1>4, <1>5, LookupGrows
<1>7. Canon(tree, q) = v.at /\ Canon(tree', q) = w.at BY DEF Canon, new
<1> QED BY <1>6, <1>7 DEF Nothing, new

\* A removal makes a path denote what it did, or nothing.
LEMMA CanonShrinks ==
    ASSUME Linked(tree), NEW gone, tree[gone].kind # "dir", tree' = Without(tree, gone),
           NEW q \in Path
    PROVE  Canon(tree', q) \in {None, Canon(tree, q)}
<1>1. MaxLinks \in 0 .. MaxLinks BY TreeAssumption
<1>2. Lookup(tree')[<<MaxLinks, q>>] \in {Nothing, Lookup(tree)[<<MaxLinks, q>>]}
  BY <1>1, LookupShrinks
<1> QED BY <1>2 DEF Canon, Nothing

\* Chmods holds at first.
LEMMA ChmodsInit == TripInit => Chmods
<1> SUFFICES ASSUME TripInit PROVE Chmods OBVIOUS
<1>1. InitUnpack /\ pc \in {"next", "waits"} BY DEF TripInit
<1>2. PICK d \in Disks : disk = d.disk /\ first = d.tree BY <1>1 DEF InitUnpack
<1>3. \A p \in DOMAIN first : first[p] \in NodeType(Len(disk)) BY <1>2, UnpackAssumption
<1>4. \A p \in DOMAIN first : first[p].kind = "file" => first[p].ino \in 1 .. Len(disk)
  BY <1>3, NodeKinds
<1> QED BY <1>1, <1>4 DEF Chmods, FirstFiles

\* Every step keeps Chmods.
LEMMA ChmodsStep ==
    ASSUME TypeInv, TypeInv', Inv, Chmods, [TripNext]_tripVars
    PROVE  Chmods'
<1>1. CASE UNCHANGED tripVars
  BY <1>1 DEF tripVars, vars, fixed, Chmods, FirstFiles, E
<1>2. CASE TripNext
  <2>1. FirstFiles' = FirstFiles BY <1>2, ChmodMoves DEF FirstFiles
  <2>2. Len(disk) \in Nat /\ Len(disk') \in Nat /\ Len(disk') >= Len(disk)
    <3>1. disk \in Seq(InodeType) /\ disk' \in Seq(InodeType) BY DEF TypeInv, TypeOK
    <3> QED BY <1>2, <3>1, DiskMoves
  <2>3. FirstFiles' \subseteq 1 .. Len(disk') BY <2>1, <2>2 DEF Chmods
  <2>4. (pc \in {"mkdir", "chmod"} => E.kind \in {"dir", "bsd"})'
    <3>1. CASE pc' = "mkdir"
      BY <1>2, <3>1, ChmodMoves DEF Chmods, E
    <3>2. CASE pc' = "chmod" /\ Meddle
      BY <3>2 DEF Meddle, fixed, Chmods, E
    <3>3. CASE pc' = "chmod" /\ MakeDir
      BY <3>3, <1>2, ChmodMoves DEF MakeDir, Chmods, E
    <3> QED BY <1>2, <3>1, <3>2, <3>3, ChmodMoves
  <2>5. ASSUME pc' = "chmod"
        PROVE  LET c == Canon(tree', E.path)
               IN  c = None \/ IsDir(tree', c) \/ tree'[c].ino \notin FirstFiles
    <3> DEFINE b == Canon(tree, E.path)
               c == Canon(tree', E.path)
    <3>1. Fits /\ Fits' /\ Linked(tree) /\ Linked(tree') /\ <<>> \in DOMAIN tree'
      <4>1. Fits /\ Fits' BY DEF TypeInv, TypeOK, Fits, Sound
      <4>2. Sound(tree, Len(disk)) /\ Sound(tree', Len(disk')) BY <4>1 DEF Fits
      <4> QED BY <4>1, <4>2, SoundLinked
    <3>2. pc \in {"mkdir", "chmod"} /\ E.path \in Path /\ E.path # <<>>
      <4>1. pc \in {"mkdir", "chmod"}
        BY <1>2, <2>5, ChmodMoves DEF Meddle, MakeDir
      <4>2. pc \in EntryStages BY <4>1 DEF EntryStages
      <4> QED BY <4>1, <4>2, EntryType1
    <3>3. CASE MakeDir
      <4>1. CASE MayCreate(tree, E.path)
        <5>1. tree' = With(tree, Place(tree, E.path), NewDir)
          BY <3>3, <4>1 DEF MakeDir, Make
        <5>2. b = None
          BY <3>1, <3>2, <4>1, CanonStep DEF MayCreate
        <5>3. NewDir.kind = "dir" BY DEF NewDir, Dir
        <5>4. c \in {b, Place(tree, E.path)}
          BY <3>1, <3>2, <4>1, <5>1, <5>3, CanonGrows DEF Fits
        <5>5. c = Place(tree, E.path) => c \in DOMAIN tree' /\ tree'[c] = NewDir BY <5>1 DEF With
        <5> QED BY <5>2, <5>3, <5>4, <5>5 DEF IsDir
      <4>2. CASE ~MayCreate(tree, E.path)
        <5>1. UNCHANGED tree /\ DenotesDir(tree, E.path)
          BY <2>5, <3>3, <4>2 DEF MakeDir, Go
        <5> QED BY <5>1 DEF DenotesDir, IsDir
      <4> QED BY <4>1, <4>2
    <3>4. CASE Meddle
      <4>1. pc = "chmod" BY <2>5, <3>4 DEF Meddle
      <4>2. b = None \/ IsDir(tree, b) \/ tree[b].ino \notin FirstFiles
        BY <4>1 DEF Chmods
      <4>3. PICK p \in Meddling :
                \/ MayCreate(tree, p) /\ Make(p, File(Len(disk) + 1))
                \/ MayRemove(tree, p) /\ tree' = Without(tree, Place(tree, p))
        BY <3>4 DEF Meddle
      <4>4. p \in Path BY UnpackAssumption
      <4>5. CASE MayCreate(tree, p) /\ Make(p, File(Len(disk) + 1))
        <5> DEFINE new == Place(tree, p)
                   node == File(Len(disk) + 1)
        <5>1. tree' = With(tree, new, node) BY <4>5 DEF Make
        <5>2. node.kind = "file" /\ node.ino = Len(disk) + 1 BY DEF File
        <5>3. c = b \/ (b = None /\ c = new)
          BY <3>1, <3>2, <4>4, <4>5, <5>1, <5>2, CanonGrows DEF Fits
        <5>4. CASE c = new
          <6>1. tree'[c] = node BY <5>1, <5>4 DEF With
          <6>2. Len(disk) + 1 \notin FirstFiles BY <2>2 DEF Chmods
          <6> QED BY <5>2, <6>1, <6>2
        <5>5. CASE c = b /\ c # new /\ c # None
          <6>1. c \in DOMAIN tree' BY <3>1, <3>2, <5>5, CanonThere
          <6>2. tree'[c] = tree[c] BY <5>1, <5>5, <6>1 DEF With
          <6> QED BY <4>2, <5>5, <6>1, <6>2 DEF IsDir
        <5> QED BY <5>3, <5>4, <5>5
      <4>6. CASE MayRemove(tree, p) /\ tree' = Without(tree, Place(tree, p))
        <5>1. tree[Place(tree, p)].kind # "dir" BY <4>6 DEF MayRemove
        <5>2. c \in {None, b} BY <3>1, <3>2, <4>6, <5>1, CanonShrinks
        <5>3. CASE c = b /\ c # None
          <6>1. c \in DOMAIN tree' BY <3>1, <3>2, <5>3, CanonThere
          <6>2. tree'[c] = tree[c] BY <4>6, <6>1 DEF Without
          <6> QED BY <4>2, <5>3, <6>1, <6>2 DEF IsDir
        <5> QED BY <5>2, <5>3
      <4> QED BY <4>3, <4>5, <4>6
    <3> QED BY <1>2, <2>5, <3>3, <3>4, ChmodMoves
  <2>6. pc' = "chmod" => E' = E BY <1>2, ChmodMoves DEF E
  <2> HIDE DEF Chmods
  <2>7. (pc = "chmod" =>
            LET c == Canon(tree, E.path)
            IN  c = None \/ IsDir(tree, c) \/ tree[c].ino \notin FirstFiles)'
    BY <2>1, <2>5, <2>6
  <2> QED BY <2>3, <2>4, <2>7 DEF Chmods
<1> QED BY <1>1, <1>2

\* Chmods always holds.
LEMMA ChmodsAlways == TripSpec => []Chmods
<1>1. TypeInv /\ TypeInv' /\ Inv /\ Chmods /\ [TripNext]_tripVars => Chmods' BY ChmodsStep
<1> QED BY ChmodsInit, <1>1, TypesAlways, InvAlways, PTL DEF TripSpec

\* unpack never writes to a file it has not made, whatever is there before and
\* whatever another process does meanwhile; and it changes the bits of such a
\* file only where that process has put it in the place of a directory.
THEOREM OwnFilesCorrect == TripSpec => OnlyOwnFiles
<1> DEFINE Spared(i) ==
              disk[i].maker = 0 =>
                  /\ disk'[i].maker = 0
                  /\ disk'[i].data = disk[i].data
                  /\ disk'[i].perm # disk[i].perm =>
                        /\ pc = "chmod" /\ E.kind \in {"dir", "bsd"}
                        /\ i \notin FirstFiles
<1>1. Inv /\ Chmods /\ [TripNext]_tripVars => [\A i \in DOMAIN disk : Spared(i)]_tripVars
  <2> SUFFICES ASSUME Inv, Chmods, TripNext, NEW i \in DOMAIN disk PROVE Spared(i)
    OBVIOUS
  <2>1. PICK S : disk \in Seq(S) BY DEF Inv, DiskOK
  <2>2. IsInode(disk[i]) BY DEF Inv, DiskOK
  <2>3. CASE UNCHANGED disk BY <2>3
  <2>4. CASE \E x : disk' = Append(disk, x)
    <3>1. disk'[i] = disk[i] BY <2>1, <2>4
    <3> QED BY <3>1
  <2>5. CASE pc \in {"copy", "fchmod"} /\ \E r : disk' = [disk EXCEPT ![f] = r]
    <3>1. disk[i].maker = 0 => i # f BY <2>5 DEF Inv, OwnOpen
    <3>2. i # f => disk'[i] = disk[i] BY <2>5
    <3> QED BY <3>1, <3>2
  <2>6. CASE \E j : disk' = [disk EXCEPT ![j] = [disk[j] EXCEPT !.dated = TRUE]]
    <3>1. PICK j : disk' = [disk EXCEPT ![j] = [disk[j] EXCEPT !.dated = TRUE]] BY <2>6
    <3>2. CASE i = j
      <4>1. disk'[i] = [disk[i] EXCEPT !.dated = TRUE] BY <3>1, <3>2
      <4> QED BY <2>2, <4>1, InodeFields
    <3>3. CASE i # j
      <4>1. disk'[i] = disk[i] BY <3>1, <3>3
      <4> QED BY <4>1
    <3> QED BY <3>2, <3>3
  <2> DEFINE p == Canon(tree, E.path)
             j == tree[p].ino
  <2>7. CASE /\ pc = "chmod" /\ p # None /\ ~IsDir(tree, p)
             /\ disk' = [disk EXCEPT ![j] = [disk[j] EXCEPT !.perm = Perms(E)]]
    <3>1. CASE i # j
      <4>1. disk'[i] = disk[i] BY <2>7, <3>1
      <4> QED BY <4>1
    <3>2. CASE i = j
      <4>1. disk'[i] = [disk[i] EXCEPT !.perm = Perms(E)] BY <2>7, <3>2
      <4>2. disk'[i].maker = disk[i].maker /\ disk'[i].data = disk[i].data
        BY <2>2, <4>1, InodeFields
      <4>3. pc = "chmod" /\ E.kind \in {"dir", "bsd"} BY <2>7 DEF Chmods
      <4>4. i \notin FirstFiles BY <2>7, <3>2 DEF Chmods
      <4> QED BY <4>2, <4>3, <4>4
    <3> QED BY <3>1, <3>2
  <2> QED BY <2>3, <2>4, <2>5, <2>6, <2>7, DiskMoves
<1> QED BY <1>1, InvAlways, ChmodsAlways, PTL DEF TripSpec, OnlyOwnFiles

=============================================================================
