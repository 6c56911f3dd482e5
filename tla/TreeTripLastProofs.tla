------------------------- MODULE TreeTripLastProofs -------------------------
(***************************************************************************)
(* What unpacking leaves behind: nothing is lost that was there before,    *)
(* but what is being replaced when a call is cut short; after a call that  *)
(* succeeds every name is what the last entry of that name says; and a     *)
(* tree that was archived is copied.                                       *)
(***************************************************************************)
EXTENDS TreeTripProofs

-----------------------------------------------------------------------------
(***************************************************************************)
(* NothingLost                                                             *)
(***************************************************************************)

\* What was there before and is not any more.
Lost == DOMAIN first \ DOMAIN tree

\* The steps of an entry belong to its kind.
Kinds ==
    /\ pc \in {"open", "remove", "reopen", "copy", "utimes", "fchmod"} => E.kind = "file"
    /\ pc \in {"symlink", "unlink", "relink", "lutimes"} => E.kind = "symlink"
    /\ pc = "hardlink" => E.kind = "hardlink"
    /\ pc \in {"mkdir", "chmod"} => E.kind \in DirKinds

\* Until unpacking begins nothing has changed.
Counting ==
    /\ IsRooted(first) /\ cuts \in {0, 1} /\ meddles \in Nat /\ attempts \in Nat \ {0}
    /\ walk \in {"walk", "failed"} => tree = first /\ cuts = 0
    /\ \A p \in DOMAIN first : first[p].kind = "symlink" => first[p].target \in Path

\* Every link is one of the archive or one that was there.
LinksKnown == Direct => \A p \in DOMAIN tree : tree[p].kind = "symlink" => p \in LinkNames

\* What is to be removed is there, and what was removed can be made again.
Ready ==
    meddles = 0 /\ Direct =>
        /\ pc = "remove" => Exists(tree, E.path)
        /\ pc \in {"reopen", "relink"} => MayCreate(tree, E.path)

\* What has been removed and is about to be made again.
Pending == IF pc \in {"reopen", "relink"} THEN {E.path} ELSE {}

\* Besides that, a call that was cut short may have lost one name.
LostFew ==
    meddles = 0 /\ Direct =>
        \/ Lost \subseteq Pending
        \/ cuts = 1 /\ \E x \in Lost : Lost \subseteq Pending \cup {x}

\* Before something is made of the entry.
Early == {"parents", "open", "remove", "reopen", "symlink", "unlink", "relink"}

\* The turn of entry n is still to come, or will be when unpacking is called again.
Due(n) == n > k \/ (n = cur /\ pc \in Early) \/ pc \in {"failed", "cut"}

\* A file or a link of the archive will be made of what is lost.
ToCome ==
    meddles = 0 /\ Direct =>
        \A p \in Lost : \E n \in DOMAIN archive :
            archive[n].path = p /\ archive[n].kind \in {"file", "symlink"} /\ Due(n)

\* In the first call what is lost is what is about to be made again.
Once ==
    meddles = 0 /\ attempts = 1 =>
        /\ pc \notin {"reopen", "relink", "failed", "cut"} => Lost = {}
        /\ pc \in {"reopen", "relink"} => \A p \in Lost : Place(tree, E.path) \in {None, p}

\* A call that succeeds has been through the archive.
Finished == pc = "ok" => k = Len(archive) /\ directories = <<>>

\* The inductive invariant for NothingLost.
LostInv == Finished /\ Kinds /\ Counting /\ LinksKnown /\ Ready /\ LostFew /\ ToCome /\ Once

-----------------------------------------------------------------------------
\* What a step of an entry changes besides tree and disk is where it goes.
LEMMA EntryKeeps ==
    ASSUME EntryStep
    PROVE  /\ UNCHANGED <<fixed, k, cur, directories, counts>>
           /\ UNCHANGED <<archive, set, first, meddles, attempts, cuts>>
           /\ E' = E /\ pc \in EntryStages
<1>1. CASE MakeParent \/ Validate \/ MakeDir \/ SetDirPerms
  BY <1>1 DEF MakeParent, Validate, MakeDir, SetDirPerms, Fail, Go, EntryStages, fixed, counts, E
<1>2. CASE Open \/ Remove \/ Reopen
  BY <1>2 DEF Open, Remove, Reopen, CreateNew, Fail, Go, EntryStages, fixed, counts, E
<1>3. CASE Copy \/ SetTimes \/ SetFilePerms
  BY <1>3 DEF Copy, SetTimes, SetFilePerms, Fail, Go, EntryStages, fixed, counts, E
<1>4. CASE HardLink \/ SymLink \/ Unlink \/ Relink \/ SetLinkTimes
  BY <1>4 DEF HardLink, SymLink, Unlink, Relink, SetLinkTimes, Fail, Go, EntryStages, fixed, counts, E
<1> QED BY <1>1, <1>2, <1>3, <1>4 DEF EntryStep

\* Where a step of an entry goes.
LEMMA EntryGoes ==
    ASSUME EntryStep
    PROVE  \/ pc' = "failed"
           \/ pc = "parents" /\ pc' \in {"parents", FirstCall(E.kind)}
           \/ pc = "mkdir" /\ pc' \in {"next", "chmod"}
           \/ pc = "chmod" /\ pc' = "next"
           \/ pc = "open" /\ pc' \in {"copy", "remove"}
           \/ pc = "remove" /\ pc' = "reopen"
           \/ pc = "reopen" /\ pc' = "copy"
           \/ pc = "copy" /\ pc' \in {"utimes", "fchmod"}
           \/ pc = "utimes" /\ pc' = "fchmod"
           \/ pc = "fchmod" /\ pc' = "next"
           \/ pc = "hardlink" /\ pc' = "next"
           \/ pc = "symlink" /\ pc' \in {"next", "lutimes", "unlink"}
           \/ pc = "unlink" /\ pc' = "relink"
           \/ pc = "relink" /\ pc' \in {"next", "lutimes"}
           \/ pc = "lutimes" /\ pc' = "next"
<1>1. CASE MakeParent \/ Validate
  BY <1>1 DEF MakeParent, Validate, Fail, Go
<1>2. CASE MakeDir \/ SetDirPerms
  BY <1>2 DEF MakeDir, SetDirPerms, AfterDir, Fail, Go
<1>3. CASE Open \/ Remove \/ Reopen
  BY <1>3 DEF Open, Remove, Reopen, CreateNew, Fail, Go
<1>4. CASE Copy \/ SetTimes \/ SetFilePerms
  BY <1>4 DEF Copy, SetTimes, SetFilePerms, AfterFile, Fail, Go
<1>5. CASE HardLink \/ SymLink
  BY <1>5 DEF HardLink, SymLink, AfterLink, Fail, Go
<1>6. CASE Unlink \/ Relink \/ SetLinkTimes
  BY <1>6 DEF Unlink, Relink, SetLinkTimes, AfterLink, Fail, Go
<1> QED BY <1>1, <1>2, <1>3, <1>4, <1>5, <1>6 DEF EntryStep

\* With what call the unpacking of an entry begins, by its kind.
LEMMA FirstCalls ==
    ASSUME NEW e \in EntryType
    PROVE  /\ FirstCall(e.kind) \in {"mkdir", "symlink", "hardlink", "next", "open"}
           /\ FirstCall(e.kind) = "mkdir" <=> e.kind \in DirKinds
           /\ FirstCall(e.kind) = "symlink" <=> e.kind = "symlink"
           /\ FirstCall(e.kind) = "hardlink" <=> e.kind = "hardlink"
           /\ FirstCall(e.kind) = "next" <=> e.kind = "meta"
           /\ FirstCall(e.kind) = "open" <=> e.kind = "file"
BY DEF FirstCall, EntryType, DirKinds

\* What a step of an entry does to the tree.
LEMMA EntryMoves ==
    ASSUME EntryStep
    PROVE  \/ UNCHANGED tree /\ pc \in {"parents", "mkdir", "copy", "utimes", "fchmod", "lutimes"}
           \/ UNCHANGED tree /\ pc = "chmod" /\ pc' = "next" /\ ~IsDir(tree, Canon(tree, E.path))
           \/ UNCHANGED tree /\ pc \in {"open", "symlink"} /\ pc' \in {"remove", "unlink"}
           \/ UNCHANGED tree /\ pc' = "failed" /\ pc \notin {"reopen", "relink"}
           \/ UNCHANGED tree /\ pc' = "failed" /\ pc \in {"reopen", "relink"} /\ ~MayCreate(tree, E.path)
           \/ UNCHANGED tree /\ pc = "remove" /\ pc' = "reopen" /\ ~Exists(tree, E.path)
           \/ /\ pc \in {"remove", "unlink"} /\ pc' \in {"reopen", "relink"}
              /\ MayRemove(tree, E.path) /\ tree' = Without(tree, Place(tree, E.path))
           \/ /\ pc = "parents" /\ pc' = "parents"
              /\ \E n \in Missing(E.path) : /\ MayCreate(tree, SubSeq(E.path, 1, n))
                                            /\ Make(SubSeq(E.path, 1, n), NewDir)
           \/ /\ pc = "chmod" /\ pc' = "next" /\ IsDir(tree, Canon(tree, E.path))
              /\ tree' = With(tree, Canon(tree, E.path), Dir(Perms(E)))
           \/ /\ pc = "mkdir" /\ pc' \in {"next", "chmod"}
              /\ MayCreate(tree, E.path) /\ Make(E.path, NewDir)
           \/ /\ pc \in {"open", "reopen"} /\ pc' = "copy"
              /\ MayCreate(tree, E.path) /\ Make(E.path, File(Len(disk) + 1))
           \/ /\ pc \in {"symlink", "relink"} /\ pc' \in {"next", "lutimes"}
              /\ MayCreate(tree, E.path) /\ Make(E.path, Symlink(E.link))
           \/ /\ pc = "hardlink" /\ pc' = "next"
              /\ E.link \notin {None, <<>>} /\ Canon(tree, E.link) # None
              /\ MayCreate(tree, E.path) /\ Make(E.path, tree[Place(tree, E.link)])
<1>1. CASE MakeParent
  <2> DEFINE M == Missing(E.path)
             n == CHOOSE n \in M : \A m \in M : n <= m
  <2>1. CASE Fail BY <1>1, <2>1 DEF Fail, Go, MakeParent
  <2>2. CASE ~Fail
    <3>1. /\ M # {} /\ pc = "parents" /\ MayCreate(tree, SubSeq(E.path, 1, n))
          /\ Make(SubSeq(E.path, 1, n), NewDir) /\ pc' = "parents"
      BY <1>1, <2>2 DEF MakeParent, Go
    <3>2. n \in M
      <4>1. M \in SUBSET Nat BY DEF Missing
      <4> HIDE DEF M
      <4>2. \E i \in M : \A m \in M : i <= m BY <3>1, <4>1, LeastNumber
      <4> QED BY <4>2
    <3> HIDE DEF n, M
    <3> QED BY <3>1, <3>2 DEF M
  <2> QED BY <2>1, <2>2
<1>2. CASE Validate BY <1>2 DEF Validate
<1>3. CASE MakeDir BY <1>3 DEF MakeDir, AfterDir, Go
<1>4. CASE SetDirPerms BY <1>4 DEF SetDirPerms, Fail, Go
<1>5. CASE Open \/ Reopen BY <1>5 DEF Open, Reopen, CreateNew, Fail, Go
<1>6. CASE Remove BY <1>6 DEF Remove, Go
<1>7. CASE Copy \/ SetTimes \/ SetFilePerms BY <1>7 DEF Copy, SetTimes, SetFilePerms, Fail, Go
<1>8. CASE HardLink BY <1>8 DEF HardLink, Fail, Go
<1>9. CASE SymLink \/ Relink BY <1>9 DEF SymLink, Relink, AfterLink, Fail, Go
<1>10. CASE Unlink \/ SetLinkTimes BY <1>10 DEF Unlink, SetLinkTimes, Go
<1> QED BY <1>1, <1>2, <1>3, <1>4, <1>5, <1>6, <1>7, <1>8, <1>9, <1>10 DEF EntryStep

-----------------------------------------------------------------------------
\* Every step keeps Kinds.
LEMMA KindsStep ==
    ASSUME TypeInv, Kinds, TripNext
    PROVE  Kinds'
<1>1. CASE WalkStep
  <2>1. walk = "walk" BY <1>1 DEF WalkStep, W!WalkNext, W!WalkDir, W!WalkLink, W!WalkFile, W!WalkDone
  <2>2. pc = "waits" BY <2>1 DEF TypeInv, Walking
  <2>3. pc' \in {"waits", "next"} BY <1>1, <2>2 DEF WalkStep
  <2> QED BY <2>3 DEF Kinds
<1>2. CASE PutOff \/ NextEntry \/ NextDirectory \/ Unpacked \/ CutShort \/ Again
  <2>1. pc' \in {"next", "parents", "ok", "cut"}
    BY <1>2 DEF PutOff, NextEntry, NextDirectory, Start, Unpacked, Go, CutShort, Again
  <2> QED BY <2>1 DEF Kinds
<1>3. CASE Meddle
  <2>1. pc' = pc /\ E' = E BY <1>3 DEF Meddle, E, fixed
  <2> QED BY <2>1 DEF Kinds
<1>4. CASE EntryStep
  <2>1. E' = E /\ E \in EntryType BY <1>4, EntryKeeps, EntryType1
  <2> QED BY <1>4, <2>1, EntryGoes, FirstCalls DEF Kinds
<1> QED BY <1>1, <1>2, <1>3, <1>4 DEF TripNext, UnpackStep, UnpackNext

\* Every step keeps Counting.
LEMMA CountingStep ==
    ASSUME TypeInv, Counting, TripNext
    PROVE  Counting' /\ first' = first
<1>1. CASE WalkStep
  <2>1. UNCHANGED <<first, tree, cuts, meddles, attempts>> /\ walk = "walk"
    BY <1>1 DEF WalkStep, counts, W!WalkNext, W!WalkDir, W!WalkLink, W!WalkFile, W!WalkDone
  <2> QED BY <2>1 DEF Counting
<1>2. CASE UnpackStep
  <2>1. walk' \in {"idle", "done"} BY <1>2 DEF UnpackStep, walkOnly
  <2>2. CASE EntryStep
    <3>1. UNCHANGED <<first, meddles, attempts, cuts>> BY <2>2, EntryKeeps
    <3> QED BY <2>1, <3>1 DEF Counting
  <2>3. CASE PutOff \/ NextEntry \/ NextDirectory \/ Unpacked
    <3>1. UNCHANGED <<first, meddles, attempts, cuts>>
      BY <2>3 DEF PutOff, NextEntry, NextDirectory, Start, Unpacked, Go, fixed, counts
    <3> QED BY <2>1, <3>1 DEF Counting
  <2>4. CASE CutShort \/ Again \/ Meddle
    <3>1. /\ first' = first /\ cuts' \in {0, 1}
          /\ meddles' \in {meddles, meddles + 1} /\ attempts' \in {attempts, attempts + 1}
      BY <2>4 DEF CutShort, Again, Meddle, fixed, Counting
    <3> QED BY <2>1, <3>1 DEF Counting
  <2> QED BY <1>2, <2>2, <2>3, <2>4 DEF UnpackStep, UnpackNext
<1> QED BY <1>1, <1>2 DEF TripNext

\* Without links on the way the place of an entry is its path.
LEMMA DirectFree ==
    ASSUME TypeInv, LinksKnown, Direct, NEW n \in DOMAIN archive, archive[n].path \notin {None, <<>>}
    PROVE  /\ archive[n].path \in Path
           /\ Free(tree, Parent(archive[n].path))
<1> DEFINE p == archive[n].path
<1>1. archive[n] \in EntryType BY DEF TypeInv, TypeOK
<1>2. p \in Path /\ p # <<>> BY <1>1 DEF EntryType
<1>3. \A q \in LinkNames : ~Below(p, q)
  <2>1. p # None OBVIOUS
  <2> QED BY <2>1 DEF Direct
<1> HIDE DEF p
<1>4. ASSUME NEW q \in DOMAIN tree, q = Parent(p) \/ Below(Parent(p), q)
      PROVE  tree[q].kind # "symlink"
  <2>1. q \in Path BY DEF TypeInv, TypeOK, IsRooted
  <2>2. Below(p, q) BY <1>2, <1>4, <2>1, BelowParent
  <2> QED BY <1>3, <2>2 DEF LinksKnown
<1> QED BY <1>2, <1>4 DEF Free, p

\* What the types say of the tree.
LEMMA TreeLinked ==
    ASSUME TypeInv
    PROVE  /\ Linked(tree) /\ <<>> \in DOMAIN tree /\ DOMAIN tree \subseteq Path
           /\ None \notin DOMAIN tree /\ Len(disk) \in Nat /\ Sound(tree, Len(disk))
BY FitsTypes, SoundLinked DEF Fits

\* If no link is on the way an entry is unpacked at its own path.
LEMMA DirectPlace ==
    ASSUME TypeInv, LinksKnown, Direct, pc \in EntryStages
    PROVE  /\ E.path \in Path /\ E.path # <<>> /\ Free(tree, Parent(E.path))
           /\ Place(tree, E.path) \in {None, E.path}
<1>1. E.path \in Path /\ E.path # <<>> /\ cur \in 1 .. Len(archive) BY EntryType1
<1>2. E.path # None BY <1>1, TreeAssumption DEF Path
<1>3. cur \in DOMAIN archive BY <1>1 DEF TypeInv, TypeOK
<1>4. Free(tree, Parent(E.path)) BY <1>1, <1>2, <1>3, DirectFree DEF E
<1> QED BY <1>1, <1>4, TreeLinked, PlaceFree

\* The same for what a hard link links to.
LEMMA DirectLink ==
    ASSUME TypeInv, LinksKnown, Direct, pc = "hardlink", Kinds,
           E.link \notin {None, <<>>}, Canon(tree, E.link) # None
    PROVE  /\ E.link \in Path /\ E.link \in DOMAIN tree
           /\ Place(tree, E.link) = E.link /\ Canon(tree, E.link) = E.link
           /\ tree[E.link].kind # "symlink"
<1>1. E.link \in Path \cup {None} /\ cur \in 1 .. Len(archive) BY EntryType1 DEF EntryStages
<1>2. E.link \in Path /\ E.kind = "hardlink" BY <1>1 DEF Kinds
<1>3. cur \in DOMAIN archive BY <1>1 DEF TypeInv, TypeOK
<1>4. ~Bends(E.link) BY <1>2, <1>3 DEF Direct, E
<1>5. Free(tree, E.link)
  <2>1. \A q \in LinkNames : q # E.link /\ ~Below(E.link, q) BY <1>4 DEF Bends
  <2> QED BY <2>1 DEF Free, LinksKnown
<1>6. Reached(tree, E.link) /\ Canon(tree, E.link) = E.link
  BY <1>2, <1>5, FreeCanon, TreeLinked
<1>7. E.link \in DOMAIN tree /\ tree[E.link].kind # "symlink" BY <1>5, <1>6 DEF Reached, Free
<1>8. Parent(E.link) \in Path /\ E.link = Append(Parent(E.link), Name(E.link))
      /\ \A q \in Path : Below(Parent(E.link), q) \/ q = Parent(E.link) => Below(E.link, q)
  BY <1>2, ParentPath, BelowParent
<1>9. Free(tree, Parent(E.link)) BY <1>5, <1>8, TreeLinked DEF Free
<1>10. Reached(tree, Parent(E.link)) /\ MaySearch(tree, Parent(E.link))
  <2>1. MaySearch(tree, Parent(E.link)) => Parent(E.link) \in DOMAIN tree BY DEF MaySearch, IsDir
  <2> QED BY <1>6, <1>8, <2>1 DEF Reached
<1>11. Place(tree, E.link) = E.link BY <1>2, <1>9, <1>10, PlaceFree, TreeLinked
<1> QED BY <1>2, <1>6, <1>7, <1>11

\* Every step keeps LinksKnown.
LEMMA LinksKnownStep ==
    ASSUME TypeInv, Kinds, Counting, LinksKnown, TripNext
    PROVE  LinksKnown'
<1>1. CASE WalkStep
  <2>1. UNCHANGED <<first, tree>> /\ walk = "walk"
    BY <1>1 DEF WalkStep, W!WalkNext, W!WalkDir, W!WalkLink, W!WalkFile, W!WalkDone
  <2>2. tree = first BY <2>1 DEF Counting
  <2> QED BY <2>1, <2>2 DEF LinksKnown, LinkNames
<1>2. ASSUME UNCHANGED <<archive, first>> PROVE Direct' = Direct /\ LinkNames' = LinkNames
  BY <1>2 DEF Direct, LinkNames, Bends
<1>3. CASE PutOff \/ NextEntry \/ NextDirectory \/ Unpacked \/ CutShort \/ Again
  <2>1. UNCHANGED <<archive, first, tree>>
    BY <1>3 DEF PutOff, NextEntry, NextDirectory, Start, Unpacked, Go, CutShort, Again, fixed
  <2> QED BY <1>2, <2>1 DEF LinksKnown
<1>4. CASE Meddle
  <2>1. UNCHANGED <<archive, first>> BY <1>4 DEF Meddle, fixed
  <2>2. \/ \E p : tree' = Without(tree, Place(tree, p))
        \/ \E p : tree' = With(tree, Place(tree, p), File(Len(disk) + 1))
    BY <1>4 DEF Meddle, Make
  <2>3. \A q \in DOMAIN tree' : tree'[q].kind = "symlink" => q \in DOMAIN tree /\ tree[q].kind = "symlink"
    <3>1. CASE \E p : tree' = Without(tree, Place(tree, p)) BY <3>1 DEF Without
    <3>2. CASE \E p : tree' = With(tree, Place(tree, p), File(Len(disk) + 1))
      <4>1. PICK r : tree' = With(tree, r, File(Len(disk) + 1)) BY <3>2
      <4>2. File(Len(disk) + 1).kind = "file" BY DEF File
      <4> QED BY <4>1, <4>2 DEF With
    <3> QED BY <2>2, <3>1, <3>2
  <2> QED BY <1>2, <2>1, <2>3 DEF LinksKnown
<1>5. CASE EntryStep
  <2>1. UNCHANGED <<archive, first>> /\ pc \in EntryStages BY <1>5, EntryKeeps
  <2>2. SUFFICES ASSUME Direct, NEW q \in DOMAIN tree', tree'[q].kind = "symlink",
                        ~(q \in DOMAIN tree /\ tree[q].kind = "symlink")
                 PROVE  q \in LinkNames
    BY <1>2, <2>1 DEF LinksKnown
  <2>3. ASSUME NEW node, q = Place(tree, E.path), tree'[q] = node, MayCreate(tree, E.path)
        PROVE  q = E.path /\ node.kind = "symlink"
    BY <2>1, <2>2, <2>3, DirectPlace DEF MayCreate
  <2>4. ASSUME NEW p, NEW node, Make(p, node)
        PROVE  q = Place(tree, p) /\ tree'[q] = node
    BY <2>2, <2>4 DEF Make, With
  <2>5. CASE UNCHANGED tree BY <2>2, <2>5
  <2>6. CASE tree' = Without(tree, Place(tree, E.path)) BY <2>2, <2>6 DEF Without
  <2>7. CASE \E p : Make(p, NewDir)
    <3>1. tree'[q] = NewDir BY <2>4, <2>7
    <3> QED BY <2>2, <3>1 DEF NewDir, Dir
  <2>8. CASE tree' = With(tree, Canon(tree, E.path), Dir(Perms(E)))
    BY <2>2, <2>8 DEF With, Dir
  <2>9. CASE Make(E.path, File(Len(disk) + 1))
    <3>1. tree'[q] = File(Len(disk) + 1) BY <2>4, <2>9
    <3> QED BY <2>2, <3>1 DEF File
  <2>10. CASE pc \in {"symlink", "relink"} /\ MayCreate(tree, E.path) /\ Make(E.path, Symlink(E.link))
    <3>1. q = E.path BY <2>3, <2>4, <2>10
    <3>2. E.kind = "symlink" BY <2>10 DEF Kinds
    <3>3. cur \in DOMAIN archive /\ E.path \notin {None, <<>>}
      BY <2>1, EntryType1 DEF TypeInv, TypeOK, Staged
    <3> QED BY <3>1, <3>2, <3>3 DEF LinkNames, E
  <2>11. CASE /\ pc = "hardlink" /\ E.link \notin {None, <<>>} /\ Canon(tree, E.link) # None
              /\ MayCreate(tree, E.path) /\ Make(E.path, tree[Place(tree, E.link)])
    <3>1. tree'[q] = tree[E.link] /\ tree[E.link].kind # "symlink"
      BY <2>2, <2>4, <2>11, DirectLink
    <3> QED BY <2>2, <3>1
  <2> QED BY <1>5, <2>5, <2>6, <2>7, <2>8, <2>9, <2>10, <2>11, EntryMoves
<1> QED BY <1>1, <1>3, <1>4, <1>5 DEF TripNext, UnpackStep, UnpackNext

\* The steps that leave the tree and the entry alone.
LEMMA Bookkeeping ==
    ASSUME PutOff \/ NextEntry \/ NextDirectory \/ Unpacked \/ Again
    PROVE  /\ UNCHANGED <<archive, set, first, tree, disk, meddles, cuts>>
           /\ pc' \in {"next", "parents", "ok"}
           /\ pc \in {"next", "ok", "failed", "cut"} \/ Again
<1>1. CASE PutOff \/ NextEntry \/ NextDirectory
  BY <1>1 DEF PutOff, NextEntry, NextDirectory, Start, fixed, counts
<1>2. CASE Unpacked \/ Again BY <1>2 DEF Unpacked, Go, Again, fixed, counts
<1> QED BY <1>1, <1>2

\* Direct and LinkNames depend on the archive and on what was there first.
LEMMA SameArchive ==
    ASSUME UNCHANGED <<archive, first>>
    PROVE  Direct' = Direct /\ LinkNames' = LinkNames
BY DEF Direct, LinkNames, Bends

\* Before unpacking begins nothing is lost.
LEMMA WalkLoses ==
    ASSUME TypeInv, Counting, WalkStep
    PROVE  Lost' = {} /\ pc' \in {"waits", "next"}
<1>1. UNCHANGED <<first, tree>> /\ walk = "walk"
  BY DEF WalkStep, W!WalkNext, W!WalkDir, W!WalkLink, W!WalkFile, W!WalkDone
<1>2. tree = first /\ pc = "waits" BY <1>1 DEF Counting, TypeInv, Walking
<1>3. pc' \in {"waits", "next"} BY <1>2 DEF WalkStep
<1> QED BY <1>1, <1>2, <1>3 DEF Lost

\* Every step of unpacking or of the walk keeps Ready.
LEMMA ReadyStep ==
    ASSUME TypeInv, Kinds, Counting, LinksKnown, Ready, TripNext, ~Meddle, UNCHANGED meddles
    PROVE  Ready'
<1>1. CASE WalkStep BY <1>1, WalkLoses DEF Ready
<1>2. CASE PutOff \/ NextEntry \/ NextDirectory \/ Unpacked \/ Again
  BY <1>2, Bookkeeping DEF Ready
<1>3. CASE CutShort BY <1>3 DEF Ready, CutShort
<1>4. CASE EntryStep
  <2>1. UNCHANGED <<archive, first>> /\ E' = E /\ pc \in EntryStages BY <1>4, EntryKeeps
  <2>2. SUFFICES ASSUME meddles = 0, Direct
                 PROVE  /\ pc' = "remove" => Exists(tree', E.path)
                        /\ pc' \in {"reopen", "relink"} => MayCreate(tree', E.path)
    BY <2>1, SameArchive DEF Ready
  <2>3. ASSUME pc' = "remove" PROVE Exists(tree', E.path)
    <3>1. pc = "open"
      BY <1>4, <2>1, <2>3, EntryGoes, FirstCalls, EntryType1
    <3>2. Open BY <1>4, <3>1 DEF EntryStep, MakeParent, Validate, MakeDir, SetDirPerms, Remove,
                    Reopen, Copy, SetTimes, SetFilePerms, HardLink, SymLink, Unlink, Relink, SetLinkTimes
    <3> QED BY <2>3, <3>2 DEF Open, CreateNew, Go
  <2>4. ASSUME pc' \in {"reopen", "relink"} PROVE MayCreate(tree', E.path)
    <3>1. pc \in {"remove", "unlink"}
      BY <1>4, <2>1, <2>4, EntryGoes, FirstCalls, EntryType1
    <3>2. MayRemove(tree, E.path) /\ tree' = Without(tree, Place(tree, E.path))
      <4>1. Remove \/ Unlink
        BY <1>4, <3>1 DEF EntryStep, MakeParent, Validate, MakeDir, SetDirPerms, Open,
               Reopen, Copy, SetTimes, SetFilePerms, HardLink, SymLink, Relink, SetLinkTimes
      <4>2. pc = "remove" => Exists(tree, E.path) BY <2>2 DEF Ready
      <4> QED BY <2>4, <4>1, <4>2 DEF Remove, Unlink, Go
    <3> QED BY <2>1, <2>2, <3>2, DirectPlace, TreeLinked, RemoveThenCreate
  <2> QED BY <2>3, <2>4
<1> QED BY <1>1, <1>2, <1>3, <1>4 DEF TripNext, UnpackStep, UnpackNext

\* What a step of an entry loses, or makes again.
LEMMA EntryLoses ==
    ASSUME TypeInv, Kinds, Counting, LinksKnown, Ready, EntryStep, meddles = 0, Direct
    PROVE  \/ /\ pc \notin {"reopen", "relink"} /\ pc' \notin {"reopen", "relink"}
              /\ Lost' \subseteq Lost
           \/ /\ pc \in {"reopen", "relink"} /\ pc' \notin {"reopen", "relink"}
              /\ Lost' \subseteq Lost \ {E.path}
           \/ /\ pc \in {"remove", "unlink"} /\ pc' \in {"reopen", "relink"}
              /\ Lost' \subseteq Lost \cup {E.path}
<1>1. first' = first /\ pc \in EntryStages BY EntryKeeps
<1>2. Place(tree, E.path) \in {None, E.path} BY <1>1, DirectPlace
<1>3. ASSUME NEW p, NEW node, Make(p, node) PROVE DOMAIN tree' = DOMAIN tree \cup {Place(tree, p)}
  BY <1>3 DEF Make, With
<1>4. CASE UNCHANGED tree /\ pc \notin {"remove", "reopen", "relink"}
  <2>1. pc' \in {"reopen", "relink"} => pc \in {"remove", "unlink"}
    BY EntryGoes, FirstCalls, EntryType1, <1>1
  <2> QED BY <1>1, <1>4, <2>1 DEF Lost
<1>5. CASE UNCHANGED tree /\ pc' = "failed" /\ pc \notin {"reopen", "relink"}
  BY <1>1, <1>5 DEF Lost
<1>6. CASE UNCHANGED tree /\ pc' = "failed" /\ pc \in {"reopen", "relink"} /\ ~MayCreate(tree, E.path)
  BY <1>6 DEF Ready
<1>7. CASE UNCHANGED tree /\ pc = "remove" /\ pc' = "reopen" /\ ~Exists(tree, E.path)
  BY <1>7 DEF Ready
<1>8. CASE /\ pc \in {"remove", "unlink"} /\ pc' \in {"reopen", "relink"}
           /\ MayRemove(tree, E.path) /\ tree' = Without(tree, Place(tree, E.path))
  <2>1. Place(tree, E.path) = E.path BY <1>2, <1>8 DEF MayRemove, Exists
  <2> QED BY <1>1, <1>8, <2>1 DEF Lost, Without
<1>9. CASE /\ pc = "parents" /\ pc' = "parents" /\ \E p : Make(p, NewDir)
  BY <1>1, <1>3, <1>9 DEF Lost
<1>10. CASE /\ pc = "chmod" /\ pc' = "next"
            /\ tree' = With(tree, Canon(tree, E.path), Dir(Perms(E)))
  BY <1>1, <1>10 DEF Lost, With
<1>11. CASE /\ pc \in {"mkdir", "open", "reopen", "symlink", "relink", "hardlink"}
            /\ pc' \in {"copy", "next", "chmod", "lutimes"}
            /\ MayCreate(tree, E.path) /\ \E node : Make(E.path, node)
  <2>1. Place(tree, E.path) = E.path BY <1>2, <1>11 DEF MayCreate
  <2> QED BY <1>1, <1>3, <1>11, <2>1 DEF Lost
<1> QED BY <1>4, <1>5, <1>6, <1>7, <1>8, <1>9, <1>10, <1>11, EntryMoves

\* Every step of unpacking or of the walk keeps LostFew.
LEMMA LostFewStep ==
    ASSUME TypeInv, Kinds, Counting, LinksKnown, Ready, LostFew, TripNext, ~Meddle, UNCHANGED meddles
    PROVE  LostFew'
<1>1. CASE WalkStep BY <1>1, WalkLoses DEF LostFew
<1>2. CASE PutOff \/ NextEntry \/ NextDirectory \/ Unpacked \/ Again
  <2>1. Direct' = Direct /\ Lost' = Lost /\ Pending = {} /\ Pending' = {} /\ cuts' = cuts
    <3>1. pc \notin {"reopen", "relink"} BY <1>2, Bookkeeping DEF Again, Running
    <3> QED BY <1>2, <3>1, Bookkeeping, SameArchive DEF Lost, Pending
  <2> QED BY <2>1 DEF LostFew
<1>3. CASE CutShort
  <2>1. /\ UNCHANGED <<archive, first, tree>> /\ cuts = 0 /\ cuts' = 1 /\ Pending' = {}
    BY <1>3 DEF CutShort, fixed, Pending
  <2>2. Direct' = Direct /\ Lost' = Lost BY <2>1, SameArchive DEF Lost
  <2>3. SUFFICES ASSUME meddles = 0, Direct
                 PROVE Lost \subseteq {} \/ \E x \in Lost : Lost \subseteq {x}
    BY <2>1, <2>2 DEF LostFew
  <2>4. Lost \subseteq Pending BY <2>1, <2>3 DEF LostFew
  <2> QED BY <2>4 DEF Pending
<1>4. CASE EntryStep
  <2>1. UNCHANGED <<archive, first, cuts>> /\ E' = E BY <1>4, EntryKeeps
  <2>2. Direct' = Direct BY <2>1, SameArchive
  <2>3. SUFFICES ASSUME meddles = 0, Direct
                 PROVE  \/ Lost' \subseteq Pending'
                        \/ cuts = 1 /\ \E x \in Lost' : Lost' \subseteq Pending' \cup {x}
    BY <2>1, <2>2 DEF LostFew
  <2>4. \/ Lost \subseteq Pending
        \/ cuts = 1 /\ \E x \in Lost : Lost \subseteq Pending \cup {x}
    BY <2>3 DEF LostFew
  <2>5. Lost' \subseteq (Lost \ Pending) \cup Pending'
    BY <1>4, <2>1, <2>3, EntryLoses DEF Pending
  <2>6. CASE Lost \subseteq Pending BY <2>5, <2>6
  <2>7. CASE cuts = 1 /\ \E x \in Lost : Lost \subseteq Pending \cup {x}
    <3>1. PICK x \in Lost : Lost \subseteq Pending \cup {x} BY <2>7
    <3>2. Lost' \subseteq Pending' \cup {x} BY <2>5, <3>1
    <3> QED BY <2>7, <3>2
  <2> QED BY <2>4, <2>6, <2>7
<1> QED BY <1>1, <1>2, <1>3, <1>4 DEF TripNext, UnpackStep, UnpackNext

\* Every step of unpacking or of the walk keeps ToCome.
LEMMA ToComeStep ==
    ASSUME TypeInv, Kinds, Counting, LinksKnown, Ready, ToCome, TripNext, ~Meddle, UNCHANGED meddles
    PROVE  ToCome'
<1> DEFINE Witness(n, p) == archive[n].path = p /\ archive[n].kind \in {"file", "symlink"}
<1>0. k \in Nat /\ k <= Len(archive) /\ DOMAIN archive = 1 .. Len(archive) /\ Len(archive) \in Nat
  BY DEF TypeInv, TypeOK
<1>1. CASE WalkStep BY <1>1, WalkLoses DEF ToCome
<1>2. ASSUME UnpackStep, archive' = archive, first' = first, Direct' = Direct,
             meddles = 0 /\ Direct =>
             \A p \in Lost' : \E n \in DOMAIN archive : Witness(n, p) /\ Due(n)'
      PROVE  ToCome'
  BY <1>2 DEF ToCome
<1>3. ASSUME meddles = 0, Direct, NEW p \in Lost
      PROVE  \E n \in DOMAIN archive : Witness(n, p) /\ Due(n)
  BY <1>3 DEF ToCome
<1>4. CASE UnpackStep /\ (PutOff \/ NextEntry \/ NextDirectory \/ Unpacked \/ Again)
  <2>1. Lost' = Lost /\ Direct' = Direct /\ archive' = archive /\ first' = first
    BY <1>4, Bookkeeping, SameArchive DEF Lost
  <2>2. SUFFICES ASSUME meddles = 0, Direct, NEW p \in Lost
                 PROVE  \E n \in DOMAIN archive : Witness(n, p) /\ Due(n)'
    BY <1>2, <1>4, <2>1
  <2>3. PICK n \in DOMAIN archive : Witness(n, p) /\ Due(n) BY <1>3, <2>2
  <2>4. p \in Path /\ p # <<>> /\ p # None
    BY <2>2, TreeLinked, TreeAssumption DEF Lost, Counting, IsRooted, Path
  <2>5. CASE Again
    <3>1. k' = 0 BY <2>5 DEF Again
    <3> QED BY <1>0, <2>3, <3>1 DEF Due
  <2>6. CASE PutOff
    <3>1. pc = "next" /\ k' = k + 1 /\ archive[k + 1].kind = "dir"
      BY <2>6 DEF PutOff, IsPutOff
    <3>2. n > k /\ n # k + 1 BY <2>3, <3>1 DEF Due, Early
    <3>3. n > k' BY <1>0, <3>1, <3>2
    <3> QED BY <2>3, <3>3 DEF Due
  <2>7. CASE NextEntry
    <3>1. /\ pc = "next" /\ k' = k + 1 /\ cur' = k + 1
          /\ pc' = IF archive[k + 1].path \in {None, <<>>} THEN "next" ELSE "parents"
      BY <2>7 DEF NextEntry, Start
    <3>2. n > k BY <2>3, <3>1 DEF Due, Early
    <3>3. CASE n = k + 1
      <4>1. pc' = "parents" BY <2>3, <2>4, <3>1, <3>3
      <4> QED BY <2>3, <3>1, <3>3, <4>1 DEF Due, Early
    <3>4. CASE n # k + 1
      <4>1. n > k' BY <1>0, <3>1, <3>2, <3>4
      <4> QED BY <2>3, <4>1 DEF Due
    <3> QED BY <3>3, <3>4
  <2>8. CASE NextDirectory \/ Unpacked
    <3>1. pc = "next" /\ k = Len(archive) BY <2>8 DEF NextDirectory, Unpacked
    <3>2. n > k BY <2>3, <3>1 DEF Due, Early
    <3> QED BY <1>0, <3>1, <3>2
  <2> QED BY <1>4, <2>5, <2>6, <2>7, <2>8
<1>5. CASE UnpackStep /\ CutShort
  <2>1. UNCHANGED <<archive, first, tree>> /\ pc' = "cut" BY <1>5 DEF CutShort, fixed
  <2>2. Lost' = Lost /\ Direct' = Direct BY <2>1, SameArchive DEF Lost
  <2>3. \A n : Due(n)' BY <2>1 DEF Due
  <2> QED BY <1>2, <1>3, <1>5, <2>1, <2>2, <2>3
<1>6. CASE UnpackStep /\ EntryStep
  <2>1. UNCHANGED <<archive, first, k, cur>> /\ E' = E /\ pc \in EntryStages BY <1>6, EntryKeeps
  <2>2. Direct' = Direct BY <2>1, SameArchive
  <2>3. SUFFICES ASSUME meddles = 0, Direct, NEW p \in Lost'
                 PROVE  \E n \in DOMAIN archive : Witness(n, p) /\ Due(n)'
    BY <1>2, <1>6, <2>1, <2>2
  <2>4. cur \in DOMAIN archive /\ E \in EntryType /\ pc \notin {"failed", "cut"}
    BY <1>0, <2>1, EntryType1 DEF EntryStages
  <2>5. CASE p \in Lost
    <3>1. PICK n \in DOMAIN archive : Witness(n, p) /\ Due(n) BY <1>3, <2>3, <2>5
    <3>2. CASE n > k BY <2>1, <3>1, <3>2 DEF Due
    <3>3. CASE n = cur /\ pc \in Early
      <4>1. E.path = p /\ E.kind \in {"file", "symlink"} BY <3>1, <3>3 DEF E
      <4>2. pc' \in Early \/ pc' = "failed"
        <5>1. CASE pc \in {"open", "reopen", "symlink", "relink"} /\ pc' \in {"copy", "next", "lutimes"}
          <6>1. /\ MayCreate(tree, E.path) /\ \E node : Make(E.path, node)
            BY <1>6, <5>1, EntryMoves, <2>4
          <6>2. Place(tree, E.path) = E.path BY <2>1, <2>3, <6>1, DirectPlace DEF MayCreate
          <6>3. E.path \in DOMAIN tree' BY <6>1, <6>2 DEF Make, With
          <6> QED BY <2>3, <4>1, <6>3 DEF Lost
        <5>2. CASE ~(pc \in {"open", "reopen", "symlink", "relink"} /\ pc' \in {"copy", "next", "lutimes"})
          <6>1. pc = "parents" => pc' \in {"parents", "open", "symlink", "failed"}
            BY <1>6, <2>4, <4>1, EntryGoes, FirstCalls
          <6> QED BY <1>6, <3>3, <5>2, <6>1, EntryGoes DEF Early
        <5> QED BY <5>1, <5>2
      <4> QED BY <2>1, <3>1, <3>3, <4>2 DEF Due
    <3> QED BY <2>4, <3>1, <3>2, <3>3 DEF Due
  <2>6. CASE p \notin Lost
    <3>1. pc \in {"remove", "unlink"} /\ pc' \in {"reopen", "relink"} /\ p = E.path
      BY <1>6, <2>3, <2>6, EntryLoses
    <3>2. Witness(cur, p) BY <3>1 DEF Kinds, E
    <3> QED BY <2>1, <2>4, <3>1, <3>2 DEF Due, Early
  <2> QED BY <2>5, <2>6
<1> QED BY <1>1, <1>4, <1>5, <1>6 DEF TripNext, UnpackStep, UnpackNext

\* Every step of unpacking or of the walk keeps Once.
LEMMA OnceStep ==
    ASSUME TypeInv, Counting, Once, TripNext, ~Meddle, UNCHANGED meddles
    PROVE  Once'
<1>1. CASE WalkStep BY <1>1, WalkLoses DEF Once
<1>2. CASE PutOff \/ NextEntry \/ NextDirectory \/ Unpacked
  <2>1. Lost' = Lost /\ pc' \in {"next", "parents", "ok"} BY <1>2, Bookkeeping DEF Lost
  <2>2. pc = "next" BY <1>2 DEF PutOff, NextEntry, NextDirectory, Unpacked
  <2>3. attempts' = attempts
    BY <1>2 DEF PutOff, NextEntry, NextDirectory, Start, Unpacked, Go, counts
  <2> QED BY <2>1, <2>2, <2>3 DEF Once
<1>3. CASE Again
  <2>1. attempts' = attempts + 1 BY <1>3 DEF Again
  <2> QED BY <2>1 DEF Once, Counting
<1>4. CASE CutShort BY <1>4 DEF CutShort, Once
<1>5. CASE EntryStep
  <2>1. UNCHANGED <<first, attempts>> /\ E' = E /\ pc \in EntryStages BY <1>5, EntryKeeps
  <2>2. SUFFICES ASSUME meddles = 0, attempts = 1
                 PROVE  /\ pc' \notin {"reopen", "relink", "failed", "cut"} => Lost' = {}
                        /\ pc' \in {"reopen", "relink"} =>
                                \A p \in Lost' : Place(tree', E.path) \in {None, p}
    BY <2>1 DEF Once
  <2>3. /\ pc \notin {"reopen", "relink"} => Lost = {}
        /\ pc \in {"reopen", "relink"} => \A p \in Lost : Place(tree, E.path) \in {None, p}
    BY <2>1, <2>2 DEF Once, EntryStages
  <2>4. CASE Lost' = {} \/ pc' = "failed" BY <2>4
  <2>5. CASE UNCHANGED tree /\ pc \notin {"reopen", "relink"}
    BY <2>1, <2>3, <2>5 DEF Lost
  <2>6. CASE MayRemove(tree, E.path) /\ tree' = Without(tree, Place(tree, E.path))
             /\ pc \notin {"reopen", "relink"} /\ pc' \in {"reopen", "relink"}
    <3>1. E.path \in Path BY <2>1, EntryType1
    <3>2. Place(tree', E.path) \in {None, Place(tree, E.path)}
      BY <2>6, <3>1, PlaceShrinks, TreeLinked DEF MayRemove
    <3>3. Lost' \subseteq {Place(tree, E.path)} BY <2>1, <2>3, <2>6 DEF Lost, Without
    <3> QED BY <2>6, <3>2, <3>3
  <2>7. ASSUME NEW p, NEW node, Make(p, node), pc \notin {"reopen", "relink"}
        PROVE  Lost' = {}
    BY <2>1, <2>3, <2>7 DEF Lost, Make, With
  <2>8. ASSUME NEW node, Make(E.path, node), MayCreate(tree, E.path) PROVE Lost' = {}
    <3>1. DOMAIN tree' = DOMAIN tree \cup {Place(tree, E.path)} BY <2>8 DEF Make, With
    <3>2. Lost \subseteq {Place(tree, E.path)} BY <2>3, <2>8 DEF MayCreate
    <3> QED BY <2>1, <3>1, <3>2 DEF Lost
  <2>9. CASE tree' = With(tree, Canon(tree, E.path), Dir(Perms(E))) /\ pc = "chmod"
    BY <2>1, <2>3, <2>9 DEF Lost, With
  <2> QED BY <1>5, <2>4, <2>5, <2>6, <2>7, <2>8, <2>9, EntryMoves
<1> QED BY <1>1, <1>2, <1>3, <1>4, <1>5 DEF TripNext, UnpackStep, UnpackNext

\* Every step keeps Finished.
LEMMA FinishedStep ==
    ASSUME TypeInv, Finished, TripNext
    PROVE  Finished'
<1>1. CASE WalkStep BY <1>1, WalkLoses DEF Finished, WalkStep, TypeInv, Walking, W!WalkNext,
                        W!WalkDir, W!WalkLink, W!WalkFile, W!WalkDone
<1>2. CASE PutOff \/ NextEntry \/ NextDirectory \/ CutShort \/ Again
  <2>1. pc' # "ok" BY <1>2 DEF PutOff, NextEntry, NextDirectory, Start, CutShort, Again
  <2> QED BY <2>1 DEF Finished
<1>3. CASE Unpacked BY <1>3 DEF Unpacked, Go, fixed, Finished
<1>4. CASE Meddle BY <1>4 DEF Meddle, fixed, Finished
<1>5. CASE EntryStep
  <2>1. pc' # "ok" BY <1>5, EntryKeeps, EntryGoes, EntryType1, FirstCalls
  <2> QED BY <2>1 DEF Finished
<1> QED BY <1>1, <1>2, <1>3, <1>4, <1>5 DEF TripNext, UnpackStep, UnpackNext

\* LostInv holds at first.
LEMMA LostInit == TripInit => LostInv
<1> SUFFICES ASSUME TripInit PROVE LostInv OBVIOUS
<1>1. InitUnpack /\ pc \in {"next", "waits"} BY DEF TripInit
<1>2. PICK d \in Disks : tree = d.tree /\ disk = d.disk /\ first = d.tree BY <1>1 DEF InitUnpack
<1>3. IsRooted(first) /\ \A p \in DOMAIN first : first[p] \in NodeType(Len(d.disk))
  BY <1>2, UnpackAssumption
<1>4. tree = first /\ Lost = {} /\ cuts = 0 /\ meddles = 0 /\ attempts = 1
  BY <1>1, <1>2 DEF InitUnpack, Lost
<1>5. Counting BY <1>3, <1>4, NodeKinds DEF Counting
<1>6. LinksKnown BY <1>4 DEF LinksKnown, LinkNames
<1> QED BY <1>1, <1>4, <1>5, <1>6 DEF LostInv, Finished, Kinds, Ready, LostFew, ToCome, Once

\* Every step keeps LostInv.
LEMMA LostStep ==
    ASSUME TypeInv, LostInv, [TripNext]_tripVars
    PROVE  LostInv'
<1>1. CASE UNCHANGED tripVars
  <2>1. UNCHANGED <<archive, set, first, tree, pc, k, cur, directories, meddles, attempts, cuts, walk>>
    BY <1>1 DEF tripVars, vars, fixed, counts, walkOnly
  <2>2. E' = E /\ Direct' = Direct /\ LinkNames' = LinkNames /\ Lost' = Lost /\ Pending' = Pending
    BY <2>1, SameArchive DEF E, Lost, Pending
  <2>3. Kinds' /\ Counting' /\ LinksKnown' /\ Finished'
    BY <2>1, <2>2 DEF LostInv, Kinds, Counting, LinksKnown, Finished
  <2>4. Ready' /\ LostFew' /\ Once' BY <2>1, <2>2 DEF LostInv, Ready, LostFew, Once
  <2>5. ToCome' BY <2>1, <2>2 DEF LostInv, ToCome, Due
  <2> QED BY <2>3, <2>4, <2>5 DEF LostInv
<1>2. CASE TripNext
  <2>1. Kinds' /\ Counting' /\ LinksKnown' /\ Finished'
    BY <1>2, KindsStep, CountingStep, LinksKnownStep, FinishedStep DEF LostInv
  <2>2. (meddles' = meddles /\ ~Meddle) \/ meddles' = meddles + 1
    BY <1>2, MeddleCounts DEF LostInv, Counting
  <2>3. CASE meddles' = meddles /\ ~Meddle
    BY <1>2, <2>1, <2>3, ReadyStep, LostFewStep, ToComeStep, OnceStep DEF LostInv
  <2>4. CASE meddles' = meddles + 1
    <3>1. meddles' # 0 BY <2>4 DEF LostInv, Counting
    <3> QED BY <2>1, <3>1 DEF LostInv, Ready, LostFew, ToCome, Once
  <2> QED BY <2>2, <2>3, <2>4
<1> QED BY <1>1, <1>2

\* LostInv always holds.
LEMMA LostAlways == TripSpec => [](TypeInv /\ LostInv)
<1>1. TypeInv /\ LostInv /\ [TripNext]_tripVars => LostInv' BY LostStep
<1> QED BY LostInit, TypesAlways, <1>1, PTL DEF TripSpec

\* While nobody meddles, a name that is there is missing only while unpack
\* replaces it: a call that is cut short loses one file at most, one that
\* succeeds none.
THEOREM NothingLostCorrect == TripSpec => []NothingLost
<1>1. ASSUME TypeInv, LostInv PROVE NothingLost
  <2> SUFFICES ASSUME meddles = 0
               PROVE  /\ Direct => Cardinality(Lost) <=
                                     cuts + (IF pc \in {"reopen", "relink"} THEN 1 ELSE 0)
                      /\ pc = "ok" /\ (Direct \/ attempts = 1) => Lost = {}
    BY DEF NothingLost, Lost
  <2>1. ASSUME Direct
        PROVE  Cardinality(Lost) <= cuts + (IF pc \in {"reopen", "relink"} THEN 1 ELSE 0)
    <3> DEFINE c == IF pc \in {"reopen", "relink"} THEN 1 ELSE 0
    <3>0. cuts \in Nat BY <1>1 DEF LostInv, Counting
    <3>1. IsFiniteSet(Pending) /\ Cardinality(Pending) = c
      <4>1. CASE pc \in {"reopen", "relink"} BY <4>1, FS_Singleton DEF Pending
      <4>2. CASE pc \notin {"reopen", "relink"} BY <4>2, FS_EmptySet DEF Pending
      <4> QED BY <4>1, <4>2
    <3>2. CASE Lost \subseteq Pending
      <4>1. Cardinality(Lost) <= Cardinality(Pending) /\ IsFiniteSet(Lost)
        BY <3>1, <3>2, FS_Subset
      <4>2. Cardinality(Lost) \in Nat BY <4>1, FS_CardinalityType
      <4> QED BY <3>0, <3>1, <4>1, <4>2
    <3>3. CASE cuts = 1 /\ \E x \in Lost : Lost \subseteq Pending \cup {x}
      <4>1. PICK x \in Lost : Lost \subseteq Pending \cup {x} BY <3>3
      <4>2. IsFiniteSet(Pending \cup {x}) /\ Cardinality(Pending \cup {x}) <= c + 1
        BY <3>1, FS_AddElement
      <4>3. Cardinality(Lost) <= Cardinality(Pending \cup {x}) /\ IsFiniteSet(Lost)
        BY <4>1, <4>2, FS_Subset
      <4>4. Cardinality(Lost) \in Nat /\ Cardinality(Pending \cup {x}) \in Nat
        BY <4>2, <4>3, FS_CardinalityType
      <4> QED BY <3>3, <4>2, <4>3, <4>4
    <3> QED BY <1>1, <2>1, <3>2, <3>3 DEF LostInv, LostFew
  <2>2. ASSUME pc = "ok", Direct PROVE Lost = {}
    <3>1. k = Len(archive) /\ DOMAIN archive = 1 .. Len(archive) /\ Len(archive) \in Nat
      BY <1>1, <2>2 DEF LostInv, Finished, TypeInv, TypeOK
    <3>2. \A n \in DOMAIN archive : ~Due(n) BY <2>2, <3>1 DEF Due, Early
    <3> QED BY <1>1, <2>2, <3>2 DEF LostInv, ToCome
  <2>3. ASSUME pc = "ok", attempts = 1 PROVE Lost = {}
    BY <1>1, <2>3 DEF LostInv, Once
  <2> QED BY <2>1, <2>2, <2>3
<1> QED BY <1>1, LostAlways, PTL

-----------------------------------------------------------------------------
(***************************************************************************)
(* LastWins                                                                *)
(***************************************************************************)

\* Directories are unpacked after all others.
IsLate(n) == n # 0 /\ archive[n].kind = "dir"

\* Those put off are waiting in order.
Queue ==
    /\ cur <= k
    /\ IsLate(cur) => k = Len(archive)
    /\ pc \in EntryStages /\ ~IsLate(cur) => cur = k
    /\ \A i \in DOMAIN directories : IsLate(directories[i]) /\ directories[i] <= k
    /\ \A i, j \in DOMAIN directories : i < j => directories[i] < directories[j]
    /\ \A d \in 1 .. k : IsLate(d) =>
        ((\E i \in DOMAIN directories : directories[i] = d) <=> ~(IsLate(cur) /\ d <= cur))

\* Unpacking of n has begun, or is complete.
Touched(n) == n <= k /\ (IsLate(n) => IsLate(cur) /\ n <= cur)
Completed(n) == Touched(n) /\ ~(n = cur /\ pc \in EntryStages)

\* The file that is open is new, under its own name, and as far as it should
\* be; and what gets the bits of a directory is one.
Stages ==
    Undisturbed =>
        /\ pc \in {"copy", "utimes", "fchmod"} =>
            /\ E.path \in DOMAIN tree /\ tree[E.path] = File(f)
            /\ \A p \in DOMAIN tree : tree[p].kind = "file" /\ tree[p].ino = f => p = E.path
            /\ disk[f].maker = cur
            /\ pc \in {"utimes", "fchmod"} => disk[f].data = cur
            /\ disk[f].dated = IF pc = "fchmod" THEN set.mtime ELSE FALSE
            /\ pc = "utimes" => set.mtime = TRUE
        /\ pc = "lutimes" => E.path \in DOMAIN tree /\ tree[E.path] = Symlink(E.link)
        /\ pc = "chmod" => LET c == Canon(tree, E.path) IN c = None \/ IsDir(tree, c)

\* A later entry of the same path has had its turn.
Overtaken(n) == \E m \in Made : archive[m].path = archive[n].path /\ Before(n, m) /\ Touched(m)

\* What an entry has made stays until a later one of its name has its turn.
Leaves ==
    Undisturbed /\ pc \notin {"failed", "cut"} =>
        \A n \in Made : Completed(n) /\ ~Overtaken(n) => Left(n)

\* The inductive invariant for LastWins, on top of LostInv.
WinsInv == Queue /\ Stages /\ Leaves

-----------------------------------------------------------------------------
\* What the types say of the numbers of entries.
LEMMA Numbers ==
    ASSUME TypeInv
    PROVE  /\ Len(archive) \in Nat /\ DOMAIN archive = 1 .. Len(archive)
           /\ k \in 0 .. Len(archive) /\ cur \in 0 .. Len(archive)
           /\ directories \in Seq(1 .. Len(archive))
           /\ \A n \in DOMAIN archive : archive[n] \in EntryType
           /\ \A n \in Made : n \in 1 .. Len(archive) /\ n # 0
BY DEF TypeInv, TypeOK, Staged, Made

\* Every step keeps Queue.
LEMMA QueueStep ==
    ASSUME TypeInv, Queue, TripNext
    PROVE  Queue'
<1> DEFINE n == Len(archive)
<1>0. /\ n \in Nat /\ k \in 0 .. n /\ cur \in 0 .. n /\ directories \in Seq(1 .. n)
  BY Numbers
<1>1. CASE WalkStep
  <2>1. walk = "walk" BY <1>1 DEF WalkStep, W!WalkNext, W!WalkDir, W!WalkLink, W!WalkFile, W!WalkDone
  <2>2. k' = 0 /\ cur' = 0 /\ directories' = <<>> /\ pc' \in {"waits", "next"}
    BY <1>1, <2>1 DEF TypeInv, Walking, WalkStep
  <2> QED BY <2>2 DEF Queue, IsLate, EntryStages
<1>2. ASSUME UNCHANGED archive PROVE \A i : IsLate(i)' <=> (i # 0 /\ archive[i].kind = "dir")
  BY <1>2 DEF IsLate
<1>3. CASE PutOff
  <2>1. /\ k' = k + 1 /\ k < n /\ directories' = Append(directories, k + 1)
        /\ UNCHANGED <<archive, cur, pc>> /\ pc = "next" /\ IsLate(k + 1)
    BY <1>0, <1>3 DEF PutOff, fixed, IsLate, IsPutOff
  <2> DEFINE l == Len(directories)
  <2>2. /\ l \in Nat /\ DOMAIN directories' = 1 .. l + 1 /\ DOMAIN directories = 1 .. l
        /\ directories'[l + 1] = k + 1 /\ \A i \in 1 .. l : directories'[i] = directories[i]
        /\ \A i \in 1 .. l : directories[i] \in 1 .. n
    BY <1>0, <2>1
  <2> HIDE DEF l
  <2>3. ~IsLate(cur) BY <1>0, <2>1 DEF Queue
  <2>4. \A i : IsLate(i)' <=> IsLate(i) BY <2>1 DEF IsLate
  <2>5. ~IsLate(cur') BY <2>1, <2>3
  <2>6. cur' <= k' /\ pc' \notin EntryStages BY <1>0, <2>1 DEF Queue, EntryStages
  <2>7. \A i \in 1 .. l + 1 : i \in 1 .. l \/ i = l + 1 BY <2>2
  <2>8. \A i \in DOMAIN directories' : IsLate(directories'[i]) /\ directories'[i] <= k'
    BY <1>0, <2>1, <2>2, <2>7 DEF Queue
  <2>9. \A i, j \in DOMAIN directories' : i < j => directories'[i] < directories'[j]
    BY <1>0, <2>1, <2>2, <2>7 DEF Queue
  <2>10. \A d \in 1 .. k' : IsLate(d) => \E i \in DOMAIN directories' : directories'[i] = d
    <3> SUFFICES ASSUME NEW d \in 1 .. k', IsLate(d)
                 PROVE  \E i \in DOMAIN directories' : directories'[i] = d
      OBVIOUS
    <3>1. CASE d = k + 1
      <4>1. l + 1 \in DOMAIN directories' /\ directories'[l + 1] = d BY <2>2, <3>1
      <4> QED BY <4>1
    <3>2. CASE d # k + 1
      <4>1. d \in 1 .. k BY <1>0, <2>1, <3>2
      <4>2. PICK i \in DOMAIN directories : directories[i] = d BY <2>3, <4>1 DEF Queue
      <4>3. i \in DOMAIN directories' /\ directories'[i] = d BY <2>2, <4>2
      <4> QED BY <4>3
    <3> QED BY <3>1, <3>2
  <2> QED BY <2>1, <2>3, <2>4, <2>5, <2>6, <2>8, <2>9, <2>10 DEF Queue
<1>4. CASE NextEntry
  <2>1. /\ k' = k + 1 /\ k < n /\ directories' = directories /\ cur' = k + 1
        /\ archive' = archive /\ ~IsLate(k + 1)
    BY <1>4 DEF NextEntry, Start, fixed, IsLate, IsPutOff
  <2>2. \A i : IsLate(i)' <=> IsLate(i) BY <2>1 DEF IsLate
  <2>3. ~IsLate(cur) BY <1>0, <2>1 DEF Queue
  <2>4. ~IsLate(cur') BY <2>1
  <2>5. \A i \in DOMAIN directories : directories[i] \in 1 .. n BY <1>0
  <2>6. \A d \in 1 .. k' : IsLate(d) => d \in 1 .. k BY <1>0, <2>1
  <2>7. \A d \in 1 .. k' : IsLate(d) => \E i \in DOMAIN directories : directories[i] = d
    BY <2>3, <2>6 DEF Queue
  <2>8. \A i \in DOMAIN directories : directories[i] <= k' BY <1>0, <2>1, <2>5 DEF Queue
  <2>9. cur' <= k' /\ cur' = k' BY <1>0, <2>1
  <2> QED BY <2>1, <2>2, <2>4, <2>7, <2>8, <2>9 DEF Queue
<1>5. CASE NextDirectory
  <2>1. /\ k' = k /\ k = n /\ directories # <<>> /\ directories' = Tail(directories)
        /\ cur' = Head(directories) /\ archive' = archive
    BY <1>5 DEF NextDirectory, Start, fixed
  <2> DEFINE l == Len(directories)
             h == Head(directories)
  <2>2. /\ l \in Nat /\ l # 0 /\ DOMAIN directories = 1 .. l /\ DOMAIN directories' = 1 .. l - 1
        /\ h = directories[1] /\ h \in 1 .. n
        /\ \A i \in 1 .. l - 1 : directories'[i] = directories[i + 1]
        /\ \A i \in 1 .. l : directories[i] \in 1 .. n
    BY <1>0, <2>1
  <2> HIDE DEF l, h
  <2>3. \A i : IsLate(i)' <=> IsLate(i) BY <2>1 DEF IsLate
  <2>4. 1 \in 1 .. l /\ cur' = h /\ IsLate(h) /\ h <= k BY <2>1, <2>2 DEF Queue, h
  <2>5. \A i \in 1 .. l - 1 : i + 1 \in 1 .. l BY <2>2
  <2>6. \A i \in DOMAIN directories' : IsLate(directories'[i]) /\ directories'[i] <= k'
    BY <2>1, <2>2, <2>5 DEF Queue
  <2>7. \A i, j \in DOMAIN directories' : i < j => directories'[i] < directories'[j]
    <3> SUFFICES ASSUME NEW i \in 1 .. l - 1, NEW j \in 1 .. l - 1, i < j
                 PROVE  directories'[i] < directories'[j]
      BY <2>2
    <3>1. i + 1 < j + 1 BY <2>2
    <3> QED BY <2>2, <2>5, <3>1 DEF Queue
  <2>8. ASSUME NEW d \in 1 .. k, IsLate(d)
        PROVE  (\E i \in DOMAIN directories' : directories'[i] = d) <=> ~(d <= h)
    <3>1. ASSUME NEW i \in DOMAIN directories', directories'[i] = d PROVE ~(d <= h)
      <4>1. directories[1] < directories[i + 1]
        <5>1. 1 < i + 1 /\ i + 1 \in 1 .. l BY <2>2, <3>1
        <5> QED BY <2>2, <2>4, <5>1 DEF Queue
      <4>2. directories[i + 1] = d /\ directories[1] = h BY <2>2, <3>1
      <4> QED BY <1>0, <2>2, <4>1, <4>2
    <3>2. ASSUME ~(d <= h) PROVE \E i \in DOMAIN directories' : directories'[i] = d
      <4>1. ~(IsLate(cur) /\ d <= cur)
        <5> SUFFICES ASSUME IsLate(cur), d <= cur PROVE FALSE OBVIOUS
        <5>1. ~(h <= cur)
          <6>1. h \in 1 .. k BY <1>0, <2>1, <2>2
          <6>2. \E i \in DOMAIN directories : directories[i] = h BY <2>2, <2>4
          <6> QED BY <2>4, <6>1, <6>2 DEF Queue
        <5> QED BY <1>0, <2>2, <3>2, <5>1
      <4>2. PICK i \in DOMAIN directories : directories[i] = d BY <2>8, <4>1 DEF Queue
      <4>3. i # 1 BY <1>0, <2>2, <3>2, <4>2
      <4>4. i - 1 \in 1 .. l - 1 /\ (i - 1) + 1 = i BY <2>2, <4>2, <4>3
      <4>5. i - 1 \in DOMAIN directories' /\ directories'[i - 1] = d BY <2>2, <4>2, <4>4
      <4> QED BY <4>5
    <3> QED BY <3>1, <3>2
  <2>9. IsLate(cur') /\ k' = n /\ cur' <= k' BY <2>1, <2>4
  <2>10. \A d \in 1 .. k' : IsLate(d) =>
            ((\E i \in DOMAIN directories' : directories'[i] = d) <=> ~(IsLate(cur') /\ d <= cur'))
    BY <2>1, <2>4, <2>8
  <2> QED BY <2>1, <2>3, <2>6, <2>7, <2>9, <2>10 DEF Queue
<1>6. CASE Again
  <2>1. k' = 0 /\ cur' = 0 /\ directories' = <<>> /\ pc' = "next" BY <1>6 DEF Again
  <2> QED BY <2>1 DEF Queue, IsLate, EntryStages
<1>7. CASE Unpacked \/ CutShort \/ Meddle \/ EntryStep
  <2>1. UNCHANGED <<archive, k, cur, directories>> /\ (pc' \in EntryStages => pc \in EntryStages)
    <3>1. CASE EntryStep BY <3>1, EntryKeeps DEF fixed
    <3>2. CASE Unpacked \/ CutShort \/ Meddle
      BY <3>2 DEF Unpacked, CutShort, Meddle, Go, EntryStages, fixed
    <3> QED BY <1>7, <3>1, <3>2
  <2>2. \A i : IsLate(i)' <=> IsLate(i) BY <2>1 DEF IsLate
  <2> QED BY <2>1, <2>2 DEF Queue
<1> QED BY <1>1, <1>3, <1>4, <1>5, <1>6, <1>7 DEF TripNext, UnpackStep, UnpackNext

-----------------------------------------------------------------------------
\* Every step of an entry has its own name.
LEMMA StepOf ==
    ASSUME EntryStep
    PROVE  /\ pc = "parents" => MakeParent \/ Validate
           /\ pc = "mkdir" => MakeDir
           /\ pc = "chmod" => SetDirPerms
           /\ pc = "open" => Open
           /\ pc = "remove" => Remove
           /\ pc = "reopen" => Reopen
           /\ pc = "copy" => Copy
           /\ pc = "utimes" => SetTimes
           /\ pc = "fchmod" => SetFilePerms
           /\ pc = "hardlink" => HardLink
           /\ pc = "symlink" => SymLink
           /\ pc = "unlink" => Unlink
           /\ pc = "relink" => Relink
           /\ pc = "lutimes" => SetLinkTimes
<1>1. (MakeParent => pc = "parents") /\ (Validate => pc = "parents") BY DEF MakeParent, Validate
<1>2. (MakeDir => pc = "mkdir") /\ (SetDirPerms => pc = "chmod") BY DEF MakeDir, SetDirPerms
<1>3. (Open => pc = "open") /\ (Remove => pc = "remove") /\ (Reopen => pc = "reopen")
  BY DEF Open, Remove, Reopen
<1>4. (Copy => pc = "copy") /\ (SetTimes => pc = "utimes") /\ (SetFilePerms => pc = "fchmod")
  BY DEF Copy, SetTimes, SetFilePerms
<1>5. (HardLink => pc = "hardlink") /\ (SymLink => pc = "symlink") BY DEF HardLink, SymLink
<1>6. (Unlink => pc = "unlink") /\ (Relink => pc = "relink") /\ (SetLinkTimes => pc = "lutimes")
  BY DEF Unlink, Relink, SetLinkTimes
<1> QED BY <1>1, <1>2, <1>3, <1>4, <1>5, <1>6 DEF EntryStep

\* Undisturbed depends on the archive, on what was there first and on meddling.
LEMMA SameUndisturbed ==
    ASSUME UNCHANGED <<archive, first, meddles>>
    PROVE  Undisturbed' = Undisturbed
BY DEF Undisturbed, Straight, Direct, LinkNames, Bends, DirKinds

\* A path that is no link, where none is above it, denotes itself or nothing.
LEMMA OwnPlace ==
    ASSUME TypeInv, LinksKnown, Kinds, Straight, pc \in EntryStages,
           E.kind \in DirKinds \/ (E.path \in DOMAIN tree /\ tree[E.path].kind # "symlink")
    PROVE  Canon(tree, E.path) \in {None, E.path}
<1>1. Direct BY DEF Straight
<1>2. E.path \in Path /\ E.path # <<>> /\ Free(tree, Parent(E.path)) BY <1>1, DirectPlace
<1>3. cur \in DOMAIN archive BY EntryType1 DEF TypeInv, TypeOK
<1>4. ASSUME NEW q \in DOMAIN tree, Below(E.path, q) PROVE tree[q].kind # "symlink"
  <2>1. q \in Path BY TreeLinked
  <2>2. q = Parent(E.path) \/ Below(Parent(E.path), q) BY <1>2, <1>4, <2>1, BelowParent
  <2> QED BY <1>2, <2>2 DEF Free
<1>5. ASSUME E.path \in DOMAIN tree PROVE tree[E.path].kind # "symlink"
  <2>1. CASE E.kind \in DirKinds
    <3>1. ~Bends(E.path) BY <1>3, <2>1 DEF Straight, E
    <3>2. E.path # None BY <1>2, TreeAssumption DEF Path
    <3>3. E.path \notin LinkNames BY <3>1, <3>2 DEF Bends
    <3> QED BY <1>1, <1>5, <3>3 DEF LinksKnown
  <2> QED BY <2>1
<1>6. Free(tree, E.path) BY <1>4, <1>5 DEF Free
<1> QED BY <1>2, <1>6, FreeCanon, TreeLinked

\* What a step of an entry changes besides what is at its path, is new.
LEMMA TreeStays ==
    ASSUME TypeInv, LinksKnown, Kinds, Straight, EntryStep,
           NEW q \in DOMAIN tree, q # E.path \/ pc = "parents"
    PROVE  q \in DOMAIN tree' /\ tree'[q] = tree[q]
<1>1. pc \in EntryStages /\ Direct BY EntryKeeps DEF Straight
<1>2. Place(tree, E.path) \in {None, E.path} BY <1>1, DirectPlace
<1>3. ASSUME NEW p, NEW node, MayCreate(tree, p), Make(p, node)
      PROVE  q \in DOMAIN tree' /\ tree'[q] = tree[q]
  BY <1>3 DEF MayCreate, Make, With
<1>4. ASSUME MayRemove(tree, E.path), tree' = Without(tree, Place(tree, E.path)), pc # "parents"
      PROVE  q \in DOMAIN tree' /\ tree'[q] = tree[q]
  <2>1. Place(tree, E.path) = E.path BY <1>2, <1>4 DEF MayRemove, Exists
  <2> QED BY <1>4, <2>1 DEF Without
<1>5. ASSUME pc = "chmod", IsDir(tree, Canon(tree, E.path)),
             tree' = With(tree, Canon(tree, E.path), Dir(Perms(E)))
      PROVE  q \in DOMAIN tree' /\ tree'[q] = tree[q]
  <2>1. E.kind \in DirKinds BY <1>5 DEF Kinds
  <2>2. None \notin DOMAIN tree BY TreeLinked
  <2>3. Canon(tree, E.path) = E.path BY <1>1, <1>5, <2>1, <2>2, OwnPlace DEF IsDir
  <2> QED BY <1>5, <2>3 DEF With
<1>6. CASE UNCHANGED tree BY <1>6
<1> QED BY <1>3, <1>4, <1>5, <1>6, EntryMoves

\* A file is opened under its own name, and it is new.
LEMMA Opens ==
    ASSUME TypeInv, LinksKnown, Straight, CreateNew, pc \in EntryStages
    PROVE  LET n == Len(disk) + 1
           IN  /\ E.path \in DOMAIN tree' /\ tree'[E.path] = File(n) /\ f' = n
               /\ \A p \in DOMAIN tree' : tree'[p].kind = "file" /\ tree'[p].ino = n => p = E.path
               /\ disk'[n] = NewFile /\ \A i \in 1 .. Len(disk) : disk'[i] = disk[i]
<1> DEFINE n == Len(disk) + 1
<1>1. Direct BY DEF Straight
<1>2. Place(tree, E.path) = E.path BY <1>1, DirectPlace DEF CreateNew, MayCreate
<1>3. tree' = With(tree, E.path, File(n)) /\ disk' = Append(disk, NewFile) /\ f' = n
  BY <1>2 DEF CreateNew, Make
<1>4. Len(disk) \in Nat /\ disk \in Seq(InodeType) BY FitsTypes DEF TypeInv, TypeOK
<1>5. disk'[n] = NewFile /\ \A i \in 1 .. Len(disk) : disk'[i] = disk[i] BY <1>3, <1>4
<1>6. ASSUME NEW p \in DOMAIN tree, tree[p].kind = "file" PROVE tree[p].ino # n
  <2>1. tree[p] \in NodeType(Len(disk)) BY DEF TypeInv, TypeOK
  <2>2. tree[p].ino \in 1 .. Len(disk) BY <1>6, <2>1, NodeKinds
  <2> QED BY <1>4, <2>2
<1>7. E.path \in DOMAIN tree' /\ tree'[E.path] = File(n) BY <1>3 DEF With
<1>8. ASSUME NEW p \in DOMAIN tree', p # E.path PROVE p \in DOMAIN tree /\ tree'[p] = tree[p]
  BY <1>3, <1>8 DEF With
<1> HIDE DEF n
<1>9. \A p \in DOMAIN tree' : tree'[p].kind = "file" /\ tree'[p].ino = n => p = E.path
  BY <1>6, <1>8
<1> QED BY <1>3, <1>5, <1>7, <1>9 DEF n

\* A step of an entry changes no file but the one that is open.
LEMMA FilesStay ==
    ASSUME TypeInv, LinksKnown, Kinds, Stages, Undisturbed, EntryStep,
           NEW q \in DOMAIN tree, q # E.path \/ pc = "parents", tree[q].kind = "file"
    PROVE  disk'[tree[q].ino] = disk[tree[q].ino]
<1> DEFINE i == tree[q].ino
<1>1. pc \in EntryStages /\ Straight BY EntryKeeps DEF Undisturbed
<1>2. i \in 1 .. Len(disk)
  <2>1. tree[q] \in NodeType(Len(disk)) BY DEF TypeInv, TypeOK
  <2> QED BY <2>1, NodeKinds
<1>3. disk \in Seq(InodeType) BY DEF TypeInv, TypeOK
<1>4. pc \in {"copy", "utimes", "fchmod"} =>
        /\ i # f /\ E.path \in DOMAIN tree /\ tree[E.path] = File(f)
  BY DEF Stages
<1> SUFFICES disk'[i] = disk[i] OBVIOUS
<1> HIDE DEF i
<1>5. CASE disk' = disk BY <1>5
<1>6. CASE pc \in {"open", "reopen"} /\ CreateNew BY <1>1, <1>2, <1>6, Opens
<1>7. CASE pc = "copy"
  <2>1. disk' = [disk EXCEPT ![f].data = cur] BY <1>7, StepOf DEF Copy
  <2> QED BY <1>2, <1>3, <1>4, <1>7, <2>1
<1>8. CASE pc = "utimes"
  <2>1. tree[E.path].kind = "file" /\ tree[E.path].ino = f BY <1>4, <1>8 DEF File
  <2>2. Canon(tree, E.path) \in {None, E.path} BY <1>1, <1>4, <1>8, <2>1, OwnPlace
  <2>3. disk' = disk \/ disk' = [disk EXCEPT ![f].dated = TRUE]
    BY <1>8, <2>1, <2>2, StepOf DEF SetTimes, Fail
  <2> QED BY <1>2, <1>3, <1>4, <1>8, <2>3
<1>9. CASE pc = "fchmod"
  <2>1. disk' = disk \/ disk' = [disk EXCEPT ![f].perm = Perms(E)]
    BY <1>9, StepOf DEF SetFilePerms
  <2> QED BY <1>2, <1>3, <1>4, <1>9, <2>1
<1>10. CASE pc \in {"open", "reopen"}
  <2>1. disk' = disk \/ CreateNew BY <1>10, StepOf DEF Open, Reopen, Fail
  <2> QED BY <1>5, <1>6, <1>10, <2>1
<1>11. CASE pc \in {"parents", "mkdir", "chmod", "remove"}
  <2>1. CASE pc = "chmod"
    <3>1. Canon(tree, E.path) = None \/ IsDir(tree, Canon(tree, E.path)) BY <2>1 DEF Stages
    <3>2. disk' = disk BY <2>1, <3>1, StepOf DEF SetDirPerms, Fail
    <3> QED BY <3>2
  <2>2. CASE pc # "chmod"
    <3>1. disk' = disk BY <1>11, <2>2, StepOf DEF MakeParent, Validate, MakeDir, Remove, Fail
    <3> QED BY <3>1
  <2> QED BY <2>1, <2>2
<1>12. CASE pc \in {"hardlink", "symlink", "unlink", "relink", "lutimes"}
  <2>1. disk' = disk
    BY <1>12, StepOf DEF HardLink, SymLink, Unlink, Relink, SetLinkTimes, Fail
  <2> QED BY <2>1
<1> QED BY <1>1, <1>7, <1>8, <1>9, <1>10, <1>11, <1>12 DEF EntryStages

-----------------------------------------------------------------------------
\* A step of an entry keeps Stages.
LEMMA StagesEntry ==
    ASSUME TypeInv, LinksKnown, Kinds, Stages, EntryStep
    PROVE  Stages'
<1>1. /\ UNCHANGED <<archive, set, first, meddles, cur>> /\ E' = E /\ pc \in EntryStages
  BY EntryKeeps
<1>2. Undisturbed' = Undisturbed BY <1>1, SameUndisturbed
<1> SUFFICES ASSUME Undisturbed
             PROVE  /\ pc' \in {"copy", "utimes", "fchmod"} =>
                        /\ E.path \in DOMAIN tree' /\ tree'[E.path] = File(f')
                        /\ \A p \in DOMAIN tree' :
                                tree'[p].kind = "file" /\ tree'[p].ino = f' => p = E.path
                        /\ disk'[f'].maker = cur
                        /\ pc' \in {"utimes", "fchmod"} => disk'[f'].data = cur
                        /\ disk'[f'].dated = IF pc' = "fchmod" THEN set.mtime ELSE FALSE
                        /\ pc' = "utimes" => set.mtime = TRUE
                    /\ pc' = "lutimes" => E.path \in DOMAIN tree' /\ tree'[E.path] = Symlink(E.link)
                    /\ pc' = "chmod" =>
                        LET c == Canon(tree', E.path) IN c = None \/ IsDir(tree', c)
  BY <1>1, <1>2 DEF Stages
<1>3. Straight /\ Direct BY DEF Undisturbed, Straight
<1>4. Place(tree, E.path) \in {None, E.path} BY <1>1, <1>3, DirectPlace
<1>5. /\ disk \in Seq(InodeType) /\ Len(disk) \in Nat /\ f \in 0 .. Len(disk)
      /\ pc \in {"copy", "utimes", "fchmod"} => f \in 1 .. Len(disk)
      /\ set.mtime \in {TRUE, FALSE}
  <2>1. set \in SettingType BY UnpackAssumption DEF TypeInv, TypeOK
  <2>2. set.mtime \in {TRUE, FALSE} BY <2>1 DEF SettingType
  <2>3. disk \in Seq(InodeType) /\ Len(disk) \in Nat /\ f \in 0 .. Len(disk)
        /\ (pc \in {"copy", "utimes", "fchmod"} => f # 0)
    BY DEF TypeInv, TypeOK
  <2>4. pc \in {"copy", "utimes", "fchmod"} => f \in 1 .. Len(disk) BY <2>3
  <2> QED BY <2>2, <2>3, <2>4
<1>6. pc \in {"copy", "utimes", "fchmod"} =>
        /\ E.path \in DOMAIN tree /\ tree[E.path] = File(f)
        /\ \A p \in DOMAIN tree : tree[p].kind = "file" /\ tree[p].ino = f => p = E.path
        /\ disk[f].maker = cur
        /\ pc \in {"utimes", "fchmod"} => disk[f].data = cur
        /\ disk[f].dated = IF pc = "fchmod" THEN set.mtime ELSE FALSE
        /\ pc = "utimes" => set.mtime = TRUE
  BY DEF Stages
<1>7. CASE pc' = "copy"
  <2>1. CreateNew
    <3>1. pc \in {"open", "reopen"} BY <1>1, <1>7, EntryGoes, FirstCalls, EntryType1
    <3> QED BY <1>7, <3>1, StepOf DEF Open, Reopen, Fail, Go
  <2>2. disk'[f'] = NewFile /\ f' = Len(disk) + 1 BY <1>1, <1>3, <2>1, Opens
  <2>3. NewFile.maker = cur /\ NewFile.dated = FALSE BY DEF NewFile
  <2> QED BY <1>1, <1>3, <1>7, <2>1, <2>2, <2>3, Opens
<1>8. CASE pc' \in {"utimes", "fchmod"} /\ pc = "copy"
  <2>1. /\ disk' = [disk EXCEPT ![f].data = cur] /\ UNCHANGED <<tree, f>>
        /\ pc' = IF set.mtime THEN "utimes" ELSE "fchmod"
    BY <1>8, StepOf DEF Copy, Go, AfterFile
  <2>2. disk'[f] = [disk[f] EXCEPT !.data = cur] /\ disk[f] \in InodeType
    BY <1>5, <1>8, <2>1
  <2>3. disk'[f].data = cur /\ disk'[f].maker = disk[f].maker /\ disk'[f].dated = disk[f].dated
    BY <2>2 DEF InodeType
  <2>4. CASE set.mtime = TRUE BY <1>6, <1>8, <2>1, <2>3, <2>4
  <2>5. CASE set.mtime = FALSE BY <1>6, <1>8, <2>1, <2>3, <2>5
  <2> QED BY <1>5, <2>4, <2>5
<1>9. CASE pc' = "fchmod" /\ pc = "utimes"
  <2>1. E.path \in DOMAIN tree /\ tree[E.path].kind = "file" /\ tree[E.path].ino = f
    BY <1>6, <1>9 DEF File
  <2>2. Canon(tree, E.path) \in {None, E.path} BY <1>1, <1>3, <2>1, OwnPlace
  <2>3. disk' = [disk EXCEPT ![f].dated = TRUE] /\ UNCHANGED <<tree, f>>
    BY <1>9, <2>1, <2>2, StepOf DEF SetTimes, Fail, Go
  <2> DEFINE r == [disk[f] EXCEPT !.dated = TRUE]
  <2>4. disk' = [disk EXCEPT ![f] = r] /\ disk[f] \in InodeType BY <1>5, <1>9, <2>3
  <2>5. r.data = disk[f].data /\ r.maker = disk[f].maker /\ r.dated = TRUE
    BY <2>4 DEF InodeType
  <2> HIDE DEF r
  <2>6. disk'[f] = r BY <1>5, <1>9, <2>4
  <2> QED BY <1>6, <1>9, <2>3, <2>5, <2>6
<1>10. CASE pc' = "lutimes"
  <2>1. pc \in {"symlink", "relink"} BY <1>1, <1>10, EntryGoes, FirstCalls, EntryType1
  <2>2. MayCreate(tree, E.path) /\ Make(E.path, Symlink(E.link))
    BY <1>10, <2>1, StepOf DEF SymLink, Relink, Fail, Go
  <2>3. tree' = With(tree, E.path, Symlink(E.link)) BY <1>4, <2>2 DEF MayCreate, Make
  <2> QED BY <1>10, <2>3 DEF With
<1>11. pc' \in {"copy", "utimes", "fchmod", "lutimes"} =>
         \/ pc' = "copy" \/ pc' = "lutimes"
         \/ pc' \in {"utimes", "fchmod"} /\ pc = "copy"
         \/ pc' = "fchmod" /\ pc = "utimes"
  BY <1>1, EntryGoes, FirstCalls, EntryType1
<1>12. ASSUME pc' = "chmod"
       PROVE  LET c == Canon(tree', E.path) IN c = None \/ IsDir(tree', c)
  <2>1. MakeDir BY <1>1, <1>12, EntryGoes, FirstCalls, EntryType1, StepOf
  <2>2. E.path \in Path /\ E.path # <<>> BY <1>1, EntryType1
  <2>3. CASE MayCreate(tree, E.path)
    <3> DEFINE new == Place(tree, E.path)
    <3>1. tree' = With(tree, new, NewDir) /\ NewDir.kind = "dir"
      BY <2>1, <2>3 DEF MakeDir, Make, NewDir, Dir
    <3>2. Canon(tree, E.path) = None BY <2>2, <2>3, CanonStep, TreeLinked DEF MayCreate
    <3>3. Canon(tree', E.path) \in {None, new}
      <4>1. NewDir.kind # "symlink" BY <3>1
      <4> QED BY <2>2, <2>3, <3>1, <3>2, <4>1, CanonGrows, TreeLinked
    <3>4. IsDir(tree', new) BY <3>1 DEF With, IsDir
    <3> QED BY <3>3, <3>4
  <2>4. CASE ~MayCreate(tree, E.path)
    <3>1. tree' = tree /\ DenotesDir(tree, E.path) BY <1>12, <2>1, <2>4 DEF MakeDir, Go
    <3> QED BY <3>1 DEF DenotesDir
  <2> QED BY <2>3, <2>4
<1> QED BY <1>7, <1>8, <1>9, <1>10, <1>11, <1>12

\* Every step keeps Stages.
LEMMA StagesStep ==
    ASSUME TypeInv, LinksKnown, Kinds, Counting, Stages, TripNext
    PROVE  Stages'
<1>1. CASE WalkStep
  <2>1. pc' \in {"waits", "next"} BY <1>1, WalkLoses
  <2> QED BY <2>1 DEF Stages
<1>2. CASE PutOff \/ NextEntry \/ NextDirectory \/ Unpacked \/ Again
  <2>1. pc' \in {"next", "parents", "ok"} BY <1>2, Bookkeeping
  <2> QED BY <2>1 DEF Stages
<1>3. CASE CutShort BY <1>3 DEF Stages, CutShort
<1>4. CASE Meddle
  <2>1. meddles' # 0 BY <1>4 DEF Meddle, Counting
  <2> QED BY <2>1 DEF Stages, Undisturbed
<1>5. CASE EntryStep BY <1>5, StagesEntry
<1> QED BY <1>1, <1>2, <1>3, <1>4, <1>5 DEF TripNext, UnpackStep, UnpackNext

-----------------------------------------------------------------------------
\* What has been unpacked before the current entry comes before it.
LEMMA TouchedBefore ==
    ASSUME TypeInv, Queue, pc \in EntryStages, NEW n \in Made, Touched(n), n # cur
    PROVE  Before(n, cur) /\ Touched(cur)
<1>1. k \in Nat /\ cur \in Nat /\ cur # 0 /\ n \in Nat /\ n # 0
  BY Numbers, EntryType1 DEF Made, TypeInv, TypeOK
<1> QED BY <1>1 DEF Touched, Queue, IsLate, Before

\* Before is a strict order of the entries, and total.
LEMMA BeforeOrder ==
    ASSUME NEW n \in Nat, NEW m \in Nat
    PROVE  /\ ~(Before(n, m) /\ Before(m, n))
           /\ n = m \/ Before(n, m) \/ Before(m, n)
BY DEF Before

\* When the next entry is taken up, those that are complete were before.
LEMMA TouchedStep ==
    ASSUME TypeInv, Queue, PutOff \/ NextEntry \/ NextDirectory, NEW n \in Made
    PROVE  /\ Completed(n)' => Completed(n)
           /\ Touched(n) => Touched(n)'
<1> DEFINE l == Len(archive)
<1>0. /\ l \in Nat /\ k \in 0 .. l /\ cur \in 0 .. l /\ directories \in Seq(1 .. l)
      /\ n \in 1 .. l /\ n # 0
  BY Numbers
<1>1. pc = "next" /\ archive' = archive BY DEF PutOff, NextEntry, NextDirectory, Start, fixed
<1>2. \A i : IsLate(i)' <=> IsLate(i) BY <1>1 DEF IsLate
<1>3. Completed(n) <=> Touched(n) BY <1>1 DEF Completed, EntryStages
<1>4. CASE PutOff
  <2>1. k' = k + 1 /\ k < l /\ cur' = cur /\ IsLate(k + 1)
    BY <1>0, <1>4 DEF PutOff, IsPutOff, IsLate
  <2>2. ~IsLate(cur) BY <1>0, <2>1 DEF Queue
  <2>3. Touched(n)' <=> Touched(n) BY <1>0, <1>2, <2>1, <2>2 DEF Touched
  <2> QED BY <1>3, <2>3 DEF Completed
<1>5. CASE NextEntry
  <2>1. /\ k' = k + 1 /\ k < l /\ cur' = k + 1 /\ ~IsLate(k + 1)
        /\ pc' = IF archive[k + 1].path \in {None, <<>>} THEN "next" ELSE "parents"
    BY <1>5 DEF NextEntry, Start, IsPutOff, IsLate
  <2>2. ~IsLate(cur) BY <1>0, <2>1 DEF Queue
  <2>3. n = k + 1 => pc' \in EntryStages BY <2>1 DEF Made, EntryStages
  <2>4. Completed(n)' => Touched(n)
    BY <1>0, <1>2, <2>1, <2>2, <2>3 DEF Completed, Touched
  <2>5. Touched(n) => Touched(n)' BY <1>0, <1>2, <2>1, <2>2 DEF Touched
  <2> QED BY <1>3, <2>4, <2>5
<1>6. CASE NextDirectory
  <2> DEFINE h == Head(directories)
  <2>1. /\ k' = k /\ k = l /\ directories # <<>> /\ cur' = h
        /\ pc' = IF archive[h].path \in {None, <<>>} THEN "next" ELSE "parents"
    BY <1>6 DEF NextDirectory, Start
  <2>2. h \in 1 .. l /\ h = directories[1] /\ DOMAIN directories = 1 .. Len(directories)
        /\ Len(directories) \in Nat /\ 1 \in DOMAIN directories
        /\ \A i \in DOMAIN directories : directories[i] \in 1 .. l /\ i \in Nat
    BY <1>0, <2>1
  <2> HIDE DEF h
  <2>3. IsLate(h) /\ ~(IsLate(cur) /\ h <= cur) BY <1>0, <2>1, <2>2 DEF Queue
  <2>4. n = h => pc' \in EntryStages BY <2>1 DEF Made, EntryStages
  <2>5. \A i \in DOMAIN directories : h <= directories[i]
    <3> SUFFICES ASSUME NEW i \in DOMAIN directories PROVE h <= directories[i] OBVIOUS
    <3>1. i = 1 \/ 1 < i BY <2>2
    <3>2. 1 < i => directories[1] < directories[i] BY <2>2 DEF Queue
    <3>3. directories[i] \in Nat /\ h \in Nat BY <1>0, <2>2
    <3> QED BY <2>2, <3>1, <3>2, <3>3
  <2>6. IsLate(n) /\ n < h => IsLate(cur) /\ n <= cur
    <3> SUFFICES ASSUME IsLate(n), n < h PROVE IsLate(cur) /\ n <= cur OBVIOUS
    <3>1. ~\E i \in DOMAIN directories : directories[i] = n BY <1>0, <2>2, <2>5
    <3>2. n \in 1 .. k BY <1>0, <2>1
    <3> QED BY <3>1, <3>2 DEF Queue
  <2>7. Completed(n)' => Touched(n)
    BY <1>0, <1>2, <2>1, <2>2, <2>4, <2>6 DEF Completed, Touched
  <2>8. Touched(n) => Touched(n)' BY <1>0, <1>2, <2>1, <2>2, <2>3 DEF Touched
  <2> QED BY <1>3, <2>7, <2>8
<1> QED BY <1>4, <1>5, <1>6

\* An entry is complete: what it says has been made.
LEMMA LeavesOwn ==
    ASSUME TypeInv, LinksKnown, Kinds, Queue, Stages, Leaves, EntryStep, Undisturbed,
           cur \in Made, pc' = "next"
    PROVE  Left(cur)'
<1>1. /\ UNCHANGED <<archive, set, first, meddles, k, cur>> /\ E' = E /\ pc \in EntryStages
  BY EntryKeeps
<1>2. Straight /\ Direct BY DEF Undisturbed, Straight
<1>3. /\ Place(tree, E.path) \in {None, E.path} /\ E.path \in Path /\ E \in EntryType
      /\ cur \in 1 .. Len(archive)
  BY <1>1, <1>2, DirectPlace, EntryType1
<1>4. E.kind \in {"file", "dir", "bsd", "symlink", "hardlink"} BY <1>3 DEF Made, E, EntryType
<1> DEFINE Asked2(perm) ==
             E.mode # None =>
                perm = {b \in E.mode : b \notin set.mask /\ (b = "s" => set.preserve)}
<1>5. SUFFICES /\ E.path \in DOMAIN tree'
               /\ E.kind = "file" => FileLeft(cur)'
               /\ E.kind = "symlink" => tree'[E.path] = Symlink(E.link)
               /\ E.kind \in DirKinds => tree'[E.path].kind = "dir" /\ Asked2(tree'[E.path].perm)
               /\ E.kind = "hardlink" =>
                    \A m \in Made : LinkedTo(cur, m) /\ archive[m].kind = "file" =>
                        /\ tree'[E.path].kind = "file"
                        /\ disk'[tree'[E.path].ino].data = m
  <2>1. Made' = Made /\ \A m \in Made : LinkedTo(cur, m)' <=> LinkedTo(cur, m)
    BY <1>1 DEF Made, LinkedTo, Before
  <2>2. DirKinds' = DirKinds BY DEF DirKinds
  <2> QED BY <1>1, <2>1, <2>2 DEF Left, E, AsksFor
<1>6. ASSUME NEW perm, E.mode # None => perm = Perms(E) PROVE Asked2(perm)
  <2> SUFFICES ASSUME E.mode # None
               PROVE  Perms(E) = {b \in E.mode : b \notin set.mask /\ (b = "s" => set.preserve)}
    BY <1>6
  <2>1. CASE set.preserve BY <2>1 DEF Perms
  <2>2. CASE ~set.preserve BY <2>2 DEF Perms
  <2> QED BY <2>1, <2>2
<1>7. CASE E.kind = "file"
  <2>1. pc = "fchmod" BY <1>1, <1>3, <1>7, EntryGoes, FirstCalls DEF Kinds, DirKinds
  <2>2. /\ E.path \in DOMAIN tree /\ tree[E.path] = File(f)
        /\ disk[f].maker = cur /\ disk[f].data = cur /\ disk[f].dated = set.mtime
    BY <2>1 DEF Stages
  <2>3. disk \in Seq(InodeType) /\ f \in 1 .. Len(disk) /\ disk[f] \in InodeType
    BY <2>1 DEF TypeInv, TypeOK
  <2>4. tree' = tree /\ disk' = IF E.mode = None THEN disk ELSE [disk EXCEPT ![f].perm = Perms(E)]
    BY <2>1, StepOf DEF SetFilePerms
  <2>5. /\ disk'[f].maker = cur /\ disk'[f].data = cur /\ disk'[f].dated = set.mtime
        /\ E.mode # None => disk'[f].perm = Perms(E)
    <3>1. CASE E.mode = None BY <2>2, <2>4, <3>1
    <3>2. CASE E.mode # None
      <4>1. disk'[f] = [disk[f] EXCEPT !.perm = Perms(E)] BY <2>3, <2>4, <3>2
      <4> QED BY <2>2, <2>3, <4>1 DEF InodeType
    <3> QED BY <3>1, <3>2
  <2>6. Asked2(disk'[f].perm) BY <1>6, <2>5
  <2>7. tree'[E.path].kind = "file" /\ tree'[E.path].ino = f BY <2>2, <2>4 DEF File
  <2>8. FileLeft(cur)' BY <1>1, <2>5, <2>6, <2>7 DEF FileLeft, AsksFor, E
  <2> QED BY <1>7, <2>2, <2>4, <2>8 DEF DirKinds
<1>8. CASE E.kind = "symlink"
  <2>1. E.path \in DOMAIN tree' /\ tree'[E.path] = Symlink(E.link)
    <3>1. pc \in {"symlink", "relink", "lutimes"}
      BY <1>1, <1>3, <1>8, EntryGoes, FirstCalls DEF Kinds, DirKinds
    <3>2. CASE pc = "lutimes"
      BY <3>2, StepOf DEF SetLinkTimes, Stages
    <3>3. CASE pc \in {"symlink", "relink"}
      <4>1. MayCreate(tree, E.path) /\ Make(E.path, Symlink(E.link))
        BY <3>3, StepOf DEF SymLink, Relink, Fail, Go
      <4>2. tree' = With(tree, E.path, Symlink(E.link)) BY <1>3, <4>1 DEF MayCreate, Make
      <4> QED BY <4>2 DEF With
    <3> QED BY <3>1, <3>2, <3>3
  <2> QED BY <1>8, <2>1 DEF DirKinds
<1>9. CASE E.kind \in DirKinds
  <2>1. pc \in {"mkdir", "chmod"}
    BY <1>1, <1>3, <1>9, EntryGoes, FirstCalls DEF Kinds, DirKinds
  <2>2. Canon(tree, E.path) \in {None, E.path} BY <1>1, <1>2, <1>9, OwnPlace
  <2>3. None \notin DOMAIN tree BY TreeLinked
  <2>4. E.path \in DOMAIN tree' /\ tree'[E.path].kind = "dir"
        /\ (E.mode # None => tree'[E.path].perm = Perms(E))
    <3>1. CASE pc = "mkdir"
      <4>1. MakeDir /\ AfterDir = "next" BY <3>1, StepOf DEF MakeDir, AfterDir, Go
      <4>2. E.mode = None BY <4>1 DEF AfterDir
      <4>3. CASE MayCreate(tree, E.path)
        <5>1. tree' = With(tree, E.path, NewDir) BY <1>3, <4>1, <4>3 DEF MakeDir, MayCreate, Make
        <5> QED BY <4>2, <5>1 DEF With, NewDir, Dir
      <4>4. CASE ~MayCreate(tree, E.path)
        <5>1. tree' = tree /\ DenotesDir(tree, E.path) BY <4>1, <4>4 DEF MakeDir, Go
        <5> QED BY <2>2, <2>3, <4>2, <5>1 DEF DenotesDir, IsDir
      <4> QED BY <4>3, <4>4
    <3>2. CASE pc = "chmod"
      <4>1. IsDir(tree, Canon(tree, E.path)) /\ tree' = With(tree, Canon(tree, E.path), Dir(Perms(E)))
        <5>1. Canon(tree, E.path) = None \/ IsDir(tree, Canon(tree, E.path)) BY <3>2 DEF Stages
        <5> QED BY <3>2, <5>1, StepOf DEF SetDirPerms, Fail, Go
      <4>2. tree' = With(tree, E.path, Dir(Perms(E))) BY <2>2, <2>3, <4>1 DEF IsDir
      <4> QED BY <4>2 DEF With, Dir
    <3> QED BY <2>1, <3>1, <3>2
  <2>5. Asked2(tree'[E.path].perm) BY <1>6, <2>4
  <2> QED BY <1>9, <2>4, <2>5 DEF DirKinds
<1>10. CASE E.kind = "hardlink"
  <2>1. pc = "hardlink" BY <1>1, <1>3, <1>10, EntryGoes, FirstCalls DEF Kinds, DirKinds
  <2>2. /\ E.link \notin {None, <<>>} /\ Canon(tree, E.link) # None
        /\ MayCreate(tree, E.path) /\ Make(E.path, tree[Place(tree, E.link)]) /\ disk' = disk
    BY <2>1, StepOf DEF HardLink, Fail, Go
  <2>3. E.link \in DOMAIN tree /\ Place(tree, E.link) = E.link BY <1>2, <2>1, <2>2, DirectLink
  <2>4. tree' = With(tree, E.path, tree[E.link]) /\ E.path \notin DOMAIN tree
    BY <1>3, <2>2, <2>3 DEF MayCreate, Make
  <2>5. E.path \in DOMAIN tree' /\ tree'[E.path] = tree[E.link] BY <2>4 DEF With
  <2>6. ASSUME NEW m \in Made, LinkedTo(cur, m), archive[m].kind = "file"
        PROVE  tree[E.link].kind = "file" /\ disk[tree[E.link].ino].data = m
    <3>1. /\ archive[m].path = E.link /\ Before(m, cur)
          /\ \A i \in Made : archive[i].path = E.link /\ Before(i, cur) => i = m \/ Before(i, m)
      BY <2>6 DEF LinkedTo, E
    <3>2. k \in Nat /\ cur \in Nat /\ cur # 0 /\ \A i \in Made : i \in Nat /\ i # 0
      BY Numbers, <1>3
    <3>3. ~IsLate(cur) /\ ~IsLate(m) BY <1>10, <2>6 DEF IsLate, E
    <3>4. m # cur /\ Touched(m)
      <4>1. m < cur BY <3>1, <3>2, <3>3 DEF Before, IsLate
      <4> QED BY <3>2, <3>3, <4>1 DEF Touched, Queue
    <3>5. ~Overtaken(m)
      <4> SUFFICES ASSUME NEW i \in Made, archive[i].path = archive[m].path, Before(m, i), Touched(i)
                   PROVE  FALSE
        BY DEF Overtaken
      <4>1. i # cur BY <2>3, <2>4, <3>1 DEF E
      <4>2. Before(i, cur) BY <1>1, <4>1, TouchedBefore
      <4>3. i = m \/ Before(i, m) BY <3>1, <4>2
      <4> QED BY <3>2, <4>3, BeforeOrder
    <3>6. Left(m)
      <4>1. Completed(m) BY <3>4 DEF Completed
      <4> QED BY <1>1, <3>5, <4>1 DEF Leaves, EntryStages
    <3> QED BY <2>6, <3>1, <3>6 DEF Left, FileLeft
  <2> QED BY <1>10, <2>2, <2>5, <2>6 DEF DirKinds
<1> QED BY <1>4, <1>7, <1>8, <1>9, <1>10 DEF DirKinds

\* Every step keeps Leaves.
LEMMA LeavesStep ==
    ASSUME TypeInv, LinksKnown, Kinds, Counting, Queue, Stages, Leaves, TripNext
    PROVE  Leaves'
<1>1. CASE WalkStep
  <2>1. walk = "walk" BY <1>1 DEF WalkStep, W!WalkNext, W!WalkDir, W!WalkLink, W!WalkFile, W!WalkDone
  <2>2. k' = 0 BY <1>1, <2>1 DEF TypeInv, Walking, WalkStep
  <2>3. TypeInv' BY <1>1, WalkTypes
  <2>4. \A n \in Made' : n \in 1 .. Len(archive') BY <2>3 DEF TypeInv, TypeOK, Made
  <2> QED BY <2>2, <2>4 DEF Leaves, Completed, Touched
<1>2. ASSUME UNCHANGED <<archive, set, first, tree, disk, meddles>>
      PROVE  /\ Undisturbed' = Undisturbed /\ Made' = Made
             /\ \A n \in Made : Left(n)' <=> Left(n)
  <2>1. Made' = Made BY <1>2 DEF Made
  <2>2. \A n, m \in Made : LinkedTo(n, m)' <=> LinkedTo(n, m)
    BY <1>2, <2>1 DEF LinkedTo, Before
  <2>3. \A n \in Made : FileLeft(n)' <=> FileLeft(n) BY <1>2 DEF FileLeft, AsksFor
  <2>4. \A n, perm : AsksFor(n, perm)' <=> AsksFor(n, perm) BY <1>2 DEF AsksFor
  <2>5. DirKinds' = DirKinds BY DEF DirKinds
  <2> QED BY <1>2, <2>1, <2>2, <2>3, <2>4, <2>5, SameUndisturbed DEF Left, AsksFor
<1>3. CASE PutOff \/ NextEntry \/ NextDirectory
  <2>1. UNCHANGED <<archive, set, first, tree, disk, meddles>> BY <1>3, Bookkeeping
  <2>2. pc = "next" BY <1>3 DEF PutOff, NextEntry, NextDirectory
  <2>3. SUFFICES ASSUME Undisturbed, NEW n \in Made, Completed(n)', ~Overtaken(n)'
                 PROVE  Left(n)
    BY <1>2, <2>1 DEF Leaves
  <2>4. Completed(n) BY <1>3, <2>3, TouchedStep
  <2>5. ~Overtaken(n)
    <3>1. \A m \in Made : Touched(m) => Touched(m)' BY <1>3, TouchedStep
    <3>2. \A m \in Made : Before(n, m)' <=> Before(n, m) BY <2>1 DEF Before
    <3> QED BY <1>2, <2>1, <2>3, <3>1, <3>2 DEF Overtaken
  <2> QED BY <2>2, <2>3, <2>4, <2>5 DEF Leaves
<1>4. CASE Unpacked
  <2>1. UNCHANGED <<archive, set, first, tree, disk, meddles, k, cur>> /\ pc = "next" /\ pc' = "ok"
    BY <1>4 DEF Unpacked, Go, fixed, counts
  <2>2. \A n : (Touched(n)' <=> Touched(n)) BY <2>1 DEF Touched, IsLate
  <2>3. \A n \in Made : (Completed(n)' <=> Completed(n)) /\ (Overtaken(n)' <=> Overtaken(n))
    <3>1. \A n, m : Before(n, m)' <=> Before(n, m) BY <2>1 DEF Before
    <3> QED BY <1>2, <2>1, <2>2, <3>1 DEF Completed, Overtaken, EntryStages
  <2> QED BY <1>2, <2>1, <2>3 DEF Leaves
<1>5. CASE Again
  <2>1. k' = 0 /\ archive' = archive BY <1>5 DEF Again, fixed
  <2>2. \A n \in Made' : n \in 1 .. Len(archive)
    BY <2>1, Numbers DEF Made
  <2> QED BY <2>1, <2>2 DEF Leaves, Completed, Touched
<1>6. CASE CutShort BY <1>6 DEF CutShort, Leaves
<1>7. CASE Meddle
  <2>1. meddles' # 0 BY <1>7 DEF Meddle, Counting
  <2> QED BY <2>1 DEF Leaves, Undisturbed
<1>8. CASE EntryStep
  <2>1. /\ UNCHANGED <<archive, set, first, meddles, k, cur>> /\ E' = E /\ pc \in EntryStages
    BY <1>8, EntryKeeps
  <2>2. Undisturbed' = Undisturbed BY <2>1, SameUndisturbed
  <2>3. Made' = Made BY <2>1 DEF Made
  <2>4. SUFFICES ASSUME Undisturbed, pc' \notin {"failed", "cut"},
                        NEW n \in Made, Completed(n)', ~Overtaken(n)'
                 PROVE  Left(n)'
    BY <2>2, <2>3 DEF Leaves
  <2>5. CASE n = cur
    <3>1. pc' \notin EntryStages BY <2>1, <2>4, <2>5 DEF Completed
    <3>2. pc' = "next" BY <1>8, <2>1, <2>4, <3>1, EntryGoes, FirstCalls, EntryType1 DEF EntryStages
    <3>3. Left(cur)' BY <1>8, <2>4, <2>5, <3>2, LeavesOwn
    <3> QED BY <2>1, <2>5, <3>3
  <2>6. CASE n # cur
    <3>1. \A m : (Touched(m)' <=> Touched(m)) BY <2>1 DEF Touched, IsLate
    <3>2. \A m \in Made : Before(n, m)' <=> Before(n, m) BY <2>1 DEF Before
    <3>3. Touched(n) /\ Completed(n) BY <2>4, <2>6, <3>1 DEF Completed
    <3>4. ~Overtaken(n) BY <2>1, <2>3, <2>4, <3>1, <3>2 DEF Overtaken
    <3>5. Left(n) BY <2>1, <2>4, <3>3, <3>4 DEF Leaves, EntryStages
    <3> DEFINE p == archive[n].path
    <3>6. p # E.path \/ pc = "parents"
      <4>1. CASE cur \in Made
        <5>1. Before(n, cur) /\ Touched(cur) BY <2>1, <2>6, <3>3, TouchedBefore
        <5> QED BY <3>4, <4>1, <5>1 DEF Overtaken, E
      <4>2. CASE cur \notin Made
        <5>1. E.path # None /\ E.path # <<>> /\ cur \in DOMAIN archive /\ E \in EntryType
          BY <2>1, EntryType1 DEF TypeInv, TypeOK, Staged
        <5>2. E.kind = "meta" BY <4>2, <5>1 DEF Made, E
        <5> QED BY <2>1, <5>2 DEF Kinds, DirKinds, EntryStages
      <4> QED BY <4>1, <4>2
    <3>7. p \in DOMAIN tree BY <3>5 DEF Left
    <3>8. p \in DOMAIN tree' /\ tree'[p] = tree[p]
      BY <1>8, <2>4, <3>6, <3>7, TreeStays DEF Undisturbed
    <3>9. tree[p].kind = "file" => disk'[tree[p].ino] = disk[tree[p].ino]
      BY <1>8, <2>4, <3>6, <3>7, FilesStay
    <3>10. \A m \in Made : LinkedTo(n, m)' <=> LinkedTo(n, m)
      BY <2>1, <2>3 DEF LinkedTo, Before
    <3>11. archive[n].kind = "file" => FileLeft(n)'
      <4> SUFFICES ASSUME archive[n].kind = "file" PROVE FileLeft(n)' OBVIOUS
      <4>1. FileLeft(n) BY <3>5 DEF Left
      <4> QED BY <2>1, <3>8, <3>9, <4>1 DEF FileLeft, AsksFor
    <3>12. archive[n].kind \in DirKinds =>
             tree'[p].kind = "dir" /\ (AsksFor(n, tree[p].perm)' <=> AsksFor(n, tree[p].perm))
      BY <2>1, <3>5, <3>8 DEF Left, AsksFor
    <3>13. DirKinds' = DirKinds BY DEF DirKinds
    <3> QED BY <2>1, <2>3, <3>5, <3>8, <3>9, <3>10, <3>11, <3>12, <3>13 DEF Left, AsksFor
  <2> QED BY <2>5, <2>6
<1> QED BY <1>1, <1>3, <1>4, <1>5, <1>6, <1>7, <1>8 DEF TripNext, UnpackStep, UnpackNext

\* WinsInv holds at first.
LEMMA WinsInit == TripInit => WinsInv
<1> SUFFICES ASSUME TripInit PROVE WinsInv OBVIOUS
<1>1. k = 0 /\ cur = 0 /\ directories = <<>> /\ pc \in {"next", "waits"}
  BY DEF TripInit, InitUnpack
<1>2. \A n \in Made : n \in 1 .. Len(archive) BY TypeInit, Numbers
<1>3. Queue BY <1>1 DEF Queue, IsLate, EntryStages
<1>4. Stages BY <1>1 DEF Stages
<1>5. Leaves BY <1>1, <1>2 DEF Leaves, Completed, Touched
<1> QED BY <1>3, <1>4, <1>5 DEF WinsInv

\* Every step keeps WinsInv.
LEMMA WinsStep ==
    ASSUME TypeInv, LostInv, WinsInv, [TripNext]_tripVars
    PROVE  WinsInv'
<1>1. CASE UNCHANGED tripVars
  <2>1. UNCHANGED <<archive, set, first, tree, disk, pc, k, cur, directories, f, meddles>>
    BY <1>1 DEF tripVars, vars, fixed, counts
  <2>2. \A n : (IsLate(n)' <=> IsLate(n)) BY <2>1 DEF IsLate
  <2>3. Queue' BY <2>1, <2>2 DEF WinsInv, Queue
  <2>4. E' = E /\ Undisturbed' = Undisturbed BY <2>1, SameUndisturbed DEF E
  <2>5. Stages' BY <2>1, <2>4 DEF WinsInv, Stages
  <2>6. Made' = Made BY <2>1 DEF Made
  <2>7. \A n, m : Before(n, m)' <=> Before(n, m) BY <2>1 DEF Before
  <2>8. \A n : Touched(n)' <=> Touched(n) BY <2>1, <2>2 DEF Touched
  <2>9. \A n : (Completed(n)' <=> Completed(n)) /\ (Overtaken(n)' <=> Overtaken(n))
    BY <2>1, <2>6, <2>7, <2>8 DEF Completed, Overtaken, EntryStages
  <2>10. \A n, m : LinkedTo(n, m)' <=> LinkedTo(n, m) BY <2>1, <2>6, <2>7 DEF LinkedTo
  <2>11. \A n : FileLeft(n)' <=> FileLeft(n) BY <2>1 DEF FileLeft, AsksFor
  <2>12. DirKinds' = DirKinds BY DEF DirKinds
  <2>13. \A n : Left(n)' <=> Left(n) BY <2>1, <2>6, <2>10, <2>11, <2>12 DEF Left, AsksFor
  <2>14. Leaves' BY <2>1, <2>4, <2>6, <2>9, <2>13 DEF WinsInv, Leaves
  <2> QED BY <2>3, <2>5, <2>14 DEF WinsInv
<1>2. CASE TripNext
  BY <1>2, QueueStep, StagesStep, LeavesStep DEF WinsInv, LostInv
<1> QED BY <1>1, <1>2

\* WinsInv always holds.
LEMMA WinsAlways == TripSpec => [](TypeInv /\ LostInv /\ WinsInv)
<1>1. TypeInv /\ LostInv /\ WinsInv /\ [TripNext]_tripVars => WinsInv' BY WinsStep
<1> QED BY WinsInit, LostAlways, <1>1, PTL DEF TripSpec

\* After a call that succeeds, while nobody meddles and every place has one
\* name, every name is what the last entry of that name says: a whole file
\* with its bits and times, a link, a directory with its bits, or, for a hard
\* link, the contents of the file it was made of.
THEOREM LastWinsCorrect == TripSpec => []LastWins
<1>1. ASSUME TypeInv, LostInv, WinsInv PROVE LastWins
  <2> SUFFICES ASSUME pc = "ok", Undisturbed, NEW n \in Made, LastAt(n) PROVE Left(n)
    BY DEF LastWins
  <2>1. k = Len(archive) /\ directories = <<>> BY <1>1 DEF LostInv, Finished
  <2>2. Completed(n)
    <3>1. n \in 1 .. k /\ n <= k BY <1>1, <2>1, Numbers
    <3>2. IsLate(n) => IsLate(cur) /\ n <= cur BY <1>1, <2>1, <3>1 DEF WinsInv, Queue
    <3> QED BY <3>1, <3>2 DEF Completed, Touched, EntryStages
  <2>3. ~Overtaken(n)
    <3>1. \A m \in Made : m \in Nat BY <1>1, Numbers
    <3> QED BY <3>1, BeforeOrder DEF Overtaken, LastAt
  <2> QED BY <1>1, <2>2, <2>3 DEF WinsInv, Leaves
<1> QED BY <1>1, WinsAlways, PTL

-----------------------------------------------------------------------------
(***************************************************************************)
(* TreeCopied                                                              *)
(***************************************************************************)

\* The paths of the source, however deep.
SourceOf ==
    {p \in Path : IF follow THEN SourceAt(p) # None ELSE p \in DOMAIN source.tree}

\* The entry that append_dir_all makes of one of them.
EntryOf(p) == W!Entry(source.tree[SourceAt(p)], base \o p)

\* Entry n was made of a path of the source.
Drawn(n) ==
    \E p \in SourceOf :
        /\ SourceAt(p) \in DOMAIN source.tree /\ source.tree[SourceAt(p)].kind # "socket"
        /\ base \o p # <<>> /\ archive[n] = EntryOf(p)

Archived(p) == base \o p = <<>> \/ \E n \in DOMAIN archive : archive[n] = EntryOf(p)

\* Item i is in a directory of the source, and marked with its kind.
Listed(i) ==
    LET q == Canon(source.tree, Parent(i.src))
        x == Append(q, Name(i.src))
    IN  /\ i \in Items
        /\ i.src = <<>> => i.dir = TRUE /\ i.link = FALSE
        /\ i.src # <<>> =>
            /\ IsDir(source.tree, q) /\ x \in DOMAIN source.tree
            /\ i.dir = (source.tree[x].kind = "dir")
            /\ i.link = (source.tree[x].kind = "symlink")
            /\ ~follow => q = Parent(i.src)

\* What is not archived is still to come, with something on the stack.
Covered ==
    \A p \in SourceOf :
        Archived(p) \/ \E i \in DOMAIN stack : stack[i].src = p \/ Below(p, stack[i].src)

\* The inductive invariant of the walk.
WalkInv ==
    walk \in {"walk", "done"} =>
        /\ source \in Sources /\ base \in Path
        /\ \A n \in DOMAIN archive : Drawn(n)
        /\ Covered
        /\ \A i \in DOMAIN stack : Listed(stack[i])
        /\ IsDir(source.tree, <<>>) \/ (archive = <<>> /\ \A i \in DOMAIN stack : stack[i].src = <<>>)
        /\ walk = "done" => stack = <<>>

-----------------------------------------------------------------------------
\* A path of the source is in a directory.
LEMMA SourceParent ==
    ASSUME source \in Sources, NEW p \in SourceOf, p # <<>>
    PROVE  /\ p \in Path /\ Parent(p) \in SourceOf
           /\ follow =>
                /\ IsDir(source.tree, Canon(source.tree, Parent(p)))
                /\ Append(Canon(source.tree, Parent(p)), Name(p)) \in DOMAIN source.tree
           /\ ~follow => p \in DOMAIN source.tree /\ IsDir(source.tree, Parent(p))
<1>1. /\ DOMAIN source.tree \subseteq Path /\ <<>> \in DOMAIN source.tree
      /\ Linked(source.tree) /\ None \notin DOMAIN source.tree
  BY SourceSound, TreeAssumption DEF Path
<1>2. p \in Path /\ Parent(p) \in Path BY ParentPath DEF SourceOf
<1>3. CASE follow
  <2>1. Canon(source.tree, p) # None BY <1>3 DEF SourceOf, SourceAt
  <2>2. /\ MaySearch(source.tree, Canon(source.tree, Parent(p)))
        /\ Place(source.tree, p) = Append(Canon(source.tree, Parent(p)), Name(p))
        /\ Place(source.tree, p) \in DOMAIN source.tree
    BY <1>1, <1>2, <2>1, CanonStep
  <2>3. Canon(source.tree, Parent(p)) # None BY <1>1, <2>2 DEF MaySearch, IsDir
  <2> QED BY <1>2, <1>3, <2>2, <2>3 DEF MaySearch, SourceOf, SourceAt
<1>4. CASE ~follow
  <2>1. p \in DOMAIN source.tree BY <1>4 DEF SourceOf
  <2>2. Parent(p) \in DOMAIN source.tree /\ source.tree[Parent(p)].kind = "dir"
    BY <2>1, TripAssumption DEF IsRooted
  <2> QED BY <1>2, <1>4, <2>1, <2>2 DEF IsDir, SourceOf
<1> QED BY <1>3, <1>4

\* What is on the way to a path of the source is one.
LEMMA SourceAbove ==
    ASSUME source \in Sources, NEW p \in SourceOf, NEW q \in Path, Below(p, q)
    PROVE  q \in SourceOf
<1> DEFINE U == {l \in Nat : \A r \in SourceOf : Len(r) = l /\ Below(r, q) => q \in SourceOf}
<1>1. 0 \in U
  <2>1. \A r \in Path : Len(r) = 0 => ~Below(r, q) BY DEF Below, Path
  <2> QED BY <2>1 DEF SourceOf
<1>2. ASSUME NEW l \in Nat, l \in U PROVE l + 1 \in U
  <2> SUFFICES ASSUME NEW r \in SourceOf, Len(r) = l + 1, Below(r, q) PROVE q \in SourceOf
    OBVIOUS
  <2>1. r \in Path /\ r # <<>> BY DEF SourceOf, Path
  <2>2. Parent(r) \in SourceOf BY <2>1, SourceParent
  <2>3. Len(Parent(r)) = l BY <2>1, ParentPath
  <2>4. q = Parent(r) \/ Below(Parent(r), q) BY <2>1, BelowParent
  <2> QED BY <1>2, <2>2, <2>3, <2>4
<1>3. Nat \subseteq U
  <2> HIDE DEF U
  <2> QED BY <1>1, <1>2, Inductive
<1>4. Len(p) \in Nat BY DEF SourceOf, Path
<1> QED BY <1>3, <1>4

\* The name behind d on the way to p.
LEMMA NextName ==
    ASSUME NEW p \in Path, NEW d \in Path, Below(p, d)
    PROVE  LET r == SubSeq(p, 1, Len(d) + 1)
           IN  r \in Path /\ r # <<>> /\ Parent(r) = d /\ (r = p \/ Below(p, r))
<1> DEFINE r == SubSeq(p, 1, Len(d) + 1)
<1>1. /\ p \in Seq(Names) /\ d \in Seq(Names) /\ Len(p) \in Nat /\ Len(d) \in Nat
      /\ Len(p) > Len(d) /\ SubSeq(p, 1, Len(d)) = d
  BY DEF Path, Below
<1>2. p # <<>> BY <1>1
<1>3. CASE Len(d) + 1 = Len(p)
  <2>1. r = p BY <1>1, <1>3
  <2>2. Parent(p) = d BY <1>1, <1>3 DEF Parent
  <2> QED BY <1>2, <2>1, <2>2
<1>4. CASE Len(d) + 1 # Len(p)
  <2>1. Len(d) + 1 \in 1 .. Len(p) - 1 BY <1>1, <1>4
  <2>2. r \in Path /\ r # <<>> /\ Below(p, r) BY <1>2, <2>1, PrefixPath
  <2>3. CASE Len(d) = 0
    <3>1. Parent(r) = <<>> BY <1>2, <2>1, <2>3, PrefixPath
    <3>2. d = <<>> BY <1>1, <2>3
    <3> QED BY <2>2, <3>1, <3>2
  <2>4. CASE Len(d) # 0
    <3>1. Parent(r) = SubSeq(p, 1, (Len(d) + 1) - 1)
      <4>1. Len(d) + 1 # 1 BY <1>1, <2>4
      <4> QED BY <1>2, <2>1, <4>1, PrefixPath
    <3>2. (Len(d) + 1) - 1 = Len(d) BY <1>1
    <3> QED BY <1>1, <2>2, <3>1, <3>2
  <2> QED BY <2>3, <2>4
<1> QED BY <1>3, <1>4

-----------------------------------------------------------------------------
\* What an item denotes, if that is not a link or links are followed.
LEMMA ListedCanon ==
    ASSUME source \in Sources, NEW i, Listed(i), Canon(source.tree, i.src) # None,
           follow \/ i.link = FALSE
    PROVE  /\ i.src \in SourceOf
           /\ SourceAt(i.src) = Canon(source.tree, i.src)
           /\ Canon(source.tree, i.src) \in DOMAIN source.tree
           /\ ~follow => Canon(source.tree, i.src) = i.src
<1>1. /\ DOMAIN source.tree \subseteq Path /\ <<>> \in DOMAIN source.tree
      /\ Linked(source.tree)
  BY SourceSound
<1>2. i.src \in Path BY DEF Listed, Items
<1>3. Canon(source.tree, i.src) \in DOMAIN source.tree BY <1>1, <1>2, CanonThere
<1>4. CASE follow BY <1>2, <1>3, <1>4 DEF SourceOf, SourceAt
<1>5. CASE ~follow /\ i.src = <<>>
  <2>1. Canon(source.tree, i.src) = <<>> BY <1>1, <1>5, CanonStep
  <2> QED BY <1>1, <1>2, <1>3, <1>5, <2>1 DEF SourceOf, SourceAt, Place
<1>6. CASE ~follow /\ i.src # <<>>
  <2>1. /\ Canon(source.tree, Parent(i.src)) = Parent(i.src)
        /\ i.link = (source.tree[Append(Parent(i.src), Name(i.src))].kind = "symlink")
    BY <1>6 DEF Listed
  <2>2. i.src = Append(Parent(i.src), Name(i.src)) BY <1>2, <1>6, ParentPath
  <2>3. Place(source.tree, i.src) = i.src BY <1>1, <1>2, <1>6, <2>1, <2>2, CanonStep
  <2>4. source.tree[i.src].kind # "symlink" BY <1>6, <2>1, <2>2
  <2>5. Canon(source.tree, i.src) = i.src BY <1>1, <1>2, <1>6, <2>3, <2>4, CanonStep
  <2> QED BY <1>2, <1>3, <1>6, <2>3, <2>5 DEF SourceOf, SourceAt
<1> QED BY <1>4, <1>5, <1>6

\* A link that is archived itself.
LEMMA ListedLink ==
    ASSUME source \in Sources, NEW i, Listed(i), Exists(source.tree, i.src),
           ~follow, i.link = TRUE, i.dir = FALSE
    PROVE  /\ i.src \in SourceOf /\ SourceAt(i.src) = i.src
           /\ Place(source.tree, i.src) = i.src
           /\ i.src \in DOMAIN source.tree /\ source.tree[i.src].kind = "symlink"
<1>1. DOMAIN source.tree \subseteq Path BY SourceSound
<1>2. i.src \in Path /\ i.src # <<>> BY DEF Listed, Items
<1>3. /\ Canon(source.tree, Parent(i.src)) = Parent(i.src)
      /\ source.tree[Append(Parent(i.src), Name(i.src))].kind = "symlink"
  BY <1>2 DEF Listed
<1>4. i.src = Append(Parent(i.src), Name(i.src)) BY <1>2, ParentPath
<1>5. Place(source.tree, i.src) # None /\ Place(source.tree, i.src) \in DOMAIN source.tree
  BY DEF Exists
<1>6. Place(source.tree, i.src) = i.src BY <1>2, <1>3, <1>4, <1>5 DEF Place
<1> QED BY <1>2, <1>3, <1>4, <1>5, <1>6 DEF SourceOf, SourceAt

\* Below what is no directory is nothing.
LEMMA LeafBelow ==
    ASSUME source \in Sources, NEW i, Listed(i), NEW p \in SourceOf, Below(p, i.src)
    PROVE  i.dir = TRUE \/ (i.link = TRUE /\ follow /\ IsDir(source.tree, Canon(source.tree, i.src)))
<1>1. /\ DOMAIN source.tree \subseteq Path /\ <<>> \in DOMAIN source.tree
      /\ Linked(source.tree) /\ i.src \in Path /\ p \in Path
  BY SourceSound DEF Listed, Items, SourceOf
<1>2. PICK r \in Path : r # <<>> /\ Parent(r) = i.src /\ (r = p \/ Below(p, r))
  BY <1>1, NextName
<1>3. r \in SourceOf BY <1>2, SourceAbove
<1>4. CASE i.src = <<>> BY <1>4 DEF Listed
<1>5. CASE i.src # <<>> /\ ~follow
  <2>1. IsDir(source.tree, i.src) BY <1>2, <1>3, <1>5, SourceParent
  <2>2. i.src = Append(Parent(i.src), Name(i.src)) BY <1>1, <1>5, ParentPath
  <2> QED BY <1>5, <2>1, <2>2 DEF Listed, IsDir
<1>6. CASE i.src # <<>> /\ follow
  <2> DEFINE x == Append(Canon(source.tree, Parent(i.src)), Name(i.src))
  <2>1. IsDir(source.tree, Canon(source.tree, i.src)) BY <1>2, <1>3, <1>6, SourceParent
  <2>2. Canon(source.tree, i.src) # None
    BY <1>1, <2>1, TreeAssumption DEF IsDir, Path
  <2>3. /\ Place(source.tree, i.src) = x
        /\ source.tree[x].kind # "symlink" => Canon(source.tree, i.src) = x
    BY <1>1, <1>6, <2>2, CanonStep
  <2>4. i.dir = (source.tree[x].kind = "dir") /\ i.link = (source.tree[x].kind = "symlink")
    BY <1>6 DEF Listed
  <2> QED BY <1>6, <2>1, <2>3, <2>4 DEF IsDir
<1> QED BY <1>4, <1>5, <1>6

\* What an item is made of.
LEMMA ItemIs ==
    ASSUME NEW x, NEW v
    PROVE  LET i == W!Item(x, v = "dir", v = "symlink")
           IN  /\ v = "dir" => i.dir = TRUE /\ i.link = FALSE
               /\ v = "symlink" => i.dir = FALSE /\ i.link = TRUE
               /\ v \notin {"dir", "symlink"} => i.dir = FALSE /\ i.link = FALSE
<1> DEFINE i == W!Item(x, v = "dir", v = "symlink")
<1>1. v = "dir" => i = [src |-> x, dir |-> TRUE, link |-> FALSE] BY DEF W!Item
<1>2. v = "symlink" => i = [src |-> x, dir |-> FALSE, link |-> TRUE] BY DEF W!Item
<1>3. v \notin {"dir", "symlink"} => i = [src |-> x, dir |-> FALSE, link |-> FALSE]
  BY DEF W!Item
<1> HIDE DEF i
<1> QED BY <1>1, <1>2, <1>3 DEF i

\* The children of a directory are listed, and they are all that is in it.
LEMMA ChildrenAll ==
    ASSUME source \in Sources, NEW src \in Path, IsDir(source.tree, Canon(source.tree, src)),
           ~follow => Canon(source.tree, src) = src,
           NEW children \in W!Children(Canon(source.tree, src), src)
    PROVE  /\ Len(children) \in Nat /\ DOMAIN children = 1 .. Len(children)
           /\ children \in Seq(Items)
           /\ \A i \in DOMAIN children : Listed(children[i])
           /\ \A n \in Names : Append(Canon(source.tree, src), n) \in DOMAIN source.tree =>
                \E i \in DOMAIN children : children[i].src = Append(src, n)
<1> DEFINE q == Canon(source.tree, src)
           T == {r \in DOMAIN source.tree : r # <<>> /\ Parent(r) = q}
           names == {p[Len(p)] : p \in T}
           kind(n) == source.tree[Append(q, n)].kind
           item(n) == W!Item(Append(src, n), kind(n) = "dir", kind(n) = "symlink")
           m == Cardinality(names)
<1>1. PICK s \in W!SetToSeqs(names) : children = [i \in DOMAIN s |-> item(s[i])]
  BY DEF W!Children, W!There, W!Parent, Parent
<1>2. DOMAIN source.tree \subseteq Path /\ IsFiniteSet(DOMAIN source.tree) BY SourceSound
<1>3. q \in DOMAIN source.tree /\ q \in Path BY <1>2 DEF IsDir
<1> HIDE DEF q
<1>4. ASSUME NEW n \in names PROVE n \in Names /\ Append(q, n) \in DOMAIN source.tree
  <2>1. PICK p \in T : n = Name(p) BY DEF Name
  <2>2. p \in Path /\ p # <<>> /\ Parent(p) = q BY <1>2
  <2> QED BY <2>1, <2>2, ParentPath
<1>5. ASSUME NEW n \in Names, Append(q, n) \in DOMAIN source.tree PROVE n \in names
  <2>1. Append(q, n) \in T /\ Name(Append(q, n)) = n BY <1>3, <1>5, ChildPath
  <2> QED BY <2>1 DEF Name
<1>6. IsFiniteSet(names)
  <2> DEFINE g == [p \in T |-> p[Len(p)]]
  <2>1. IsFiniteSet(T)
    <3>1. T \in SUBSET DOMAIN source.tree OBVIOUS
    <3> QED BY <1>2, <3>1, FS_Subset
  <2>2. g \in Surjection(T, names) BY DEF Surjection
  <2> HIDE DEF T, g, names
  <2> QED BY <2>1, <2>2, FS_Surjection
<1> HIDE DEF T, names
<1>7. m \in Nat BY <1>6, FS_CardinalityType
<1>8. s \in [1 .. m -> names] /\ \A i, j \in 1 .. m : i # j => s[i] # s[j]
  <2>1. W!Cardinality(names) = m
    BY DEF W!Cardinality, Cardinality, W!IsFiniteSet, IsFiniteSet
  <2> HIDE DEF m
  <2> QED BY <1>1, <2>1 DEF W!SetToSeqs
<1>9. \A n \in names : \E i \in 1 .. m : s[i] = n
  <2>1. s \in Injection(1 .. m, names)
    <3> HIDE DEF m
    <3> QED BY <1>8 DEF Injection, IsInjective
  <2>2. Cardinality(1 .. m) = m
    <3> HIDE DEF m
    <3>1. 1 \in Int /\ m \in Int BY <1>7
    <3>2. Cardinality(1 .. m) = IF 1 > m THEN 0 ELSE m - 1 + 1 BY <3>1, FS_Interval
    <3> QED BY <1>7, <3>2
  <2>3. s \in Surjection(1 .. m, names) BY <1>6, <2>1, <2>2, FS_Injection
  <2> HIDE DEF m
  <2> QED BY <2>3 DEF Surjection
<1> HIDE DEF m
<1>10. DOMAIN children = 1 .. m /\ \A i \in 1 .. m : s[i] \in names /\ children[i] = item(s[i])
  BY <1>1, <1>8
<1>11. ASSUME NEW n \in names
       PROVE  item(n) \in Items /\ item(n).src = Append(src, n) /\ Listed(item(n))
  <2>1. n \in Names /\ Append(q, n) \in DOMAIN source.tree BY <1>4
  <2>2. /\ Append(src, n) \in Path /\ Append(src, n) # <<>> /\ Parent(Append(src, n)) = src
        /\ Name(Append(src, n)) = n
    BY <2>1, ChildPath
  <2> DEFINE y == Append(src, n)
             v == kind(n)
  <2>3. item(n) = W!Item(y, v = "dir", v = "symlink") OBVIOUS
  <2> HIDE DEF item, y, v
  <2>4. item(n) \in Items /\ item(n).src = y
    <3>1. y \in Path BY <2>2 DEF y
    <3>2. LET i == W!Item(y, v = "dir", v = "symlink") IN i \in Items /\ i.src = y
      BY <3>1, ItemTypes
    <3> QED BY <2>3, <3>2, Zenon
  <2>5. item(n).dir = (v = "dir") /\ item(n).link = (v = "symlink")
    <3> DEFINE w == W!Item(y, v = "dir", v = "symlink")
    <3>1. /\ v = "dir" => w.dir = TRUE /\ w.link = FALSE
          /\ v = "symlink" => w.dir = FALSE /\ w.link = TRUE
          /\ v \notin {"dir", "symlink"} => w.dir = FALSE /\ w.link = FALSE
      BY ItemIs
    <3>2. item(n) = w BY <2>3
    <3> HIDE DEF w
    <3> QED BY <3>1, <3>2
  <2>6. Listed(item(n))
    <3>1. item(n).src # <<>> /\ Parent(item(n).src) = src /\ Name(item(n).src) = n
      BY <2>2, <2>4 DEF y
    <3>2. IsDir(source.tree, q) /\ (~follow => q = src) BY DEF q
    <3>3. v = source.tree[Append(q, n)].kind BY DEF v
    <3>4. q = Canon(source.tree, src) BY DEF q
    <3> QED BY <2>1, <2>4, <2>5, <3>1, <3>2, <3>3, <3>4, Zenon DEF Listed
  <2> QED BY <2>4, <2>6 DEF y
<1> HIDE DEF item
<1>12. children \in Seq(Items) /\ Len(children) = m
  <2>1. children = [i \in 1 .. m |-> item(s[i])] BY <1>1, <1>8
  <2>2. \A i \in 1 .. m : item(s[i]) \in Items BY <1>10, <1>11
  <2> QED BY <1>7, <2>1, <2>2
<1>13. ASSUME NEW n \in Names, Append(q, n) \in DOMAIN source.tree
       PROVE  \E i \in DOMAIN children : children[i].src = Append(src, n)
  <2>1. n \in names BY <1>5, <1>13
  <2>2. PICK i \in 1 .. m : s[i] = n BY <1>9, <2>1
  <2> QED BY <1>10, <1>11, <2>1, <2>2
<1> QED BY <1>7, <1>10, <1>11, <1>12, <1>13 DEF q

-----------------------------------------------------------------------------
\* What a step of the walk does with the item on top, unless it fails.
LEMMA WalkItem ==
    ASSUME TypeInv, WalkInv, WalkStep, walk' # "failed", ~W!WalkDone
    PROVE  LET i == W!Top
               q == Canon(source.tree, i.src)
           IN  /\ stack # <<>> /\ i.src \in SourceOf
               /\ SourceAt(i.src) \in DOMAIN source.tree
               /\ source.tree[SourceAt(i.src)].kind # "socket"
               /\ archive' = IF base \o i.src = <<>> THEN archive
                             ELSE Append(archive, EntryOf(i.src))
               /\ i.src = <<>> => IsDir(source.tree, <<>>)
               /\ \/ /\ stack' = W!Front(stack) /\ \A p \in SourceOf : ~Below(p, i.src)
                  \/ /\ IsDir(source.tree, q) /\ (~follow => q = i.src)
                     /\ \E children \in W!Children(q, i.src) :
                            stack' = W!Front(stack) \o children
<1> DEFINE i == W!Top
           q == Canon(source.tree, i.src)
<1>1. /\ walk = "walk" /\ stack # <<>> /\ ~W!GiveUp
      /\ W!WalkDir \/ W!WalkLink \/ W!WalkFile
  BY DEF WalkStep, W!WalkNext, W!WalkDir, W!WalkLink, W!WalkFile, W!GiveUp
<1>2. source \in Sources /\ base \in Path /\ stack \in Seq(Items) BY <1>1 DEF TypeInv, Walking
<1>3. Listed(i)
  <2>1. Len(stack) \in DOMAIN stack /\ i = stack[Len(stack)]
    BY <1>1, <1>2 DEF W!Top, W!Last
  <2> QED BY <1>1, <2>1 DEF WalkInv
<1>4. /\ DOMAIN source.tree \subseteq Path /\ <<>> \in DOMAIN source.tree /\ Linked(source.tree)
      /\ None \notin Path
  BY <1>2, SourceSound, TreeAssumption DEF Path
<1>5. i.src \in Path /\ (i.src # <<>> => base \o i.src # <<>>) BY <1>2, <1>3 DEF Listed, Items, Path
<1>6. W!Dest = base \o i.src BY DEF W!Dest
<1>7. W!IsTree <=> (i.dir \/ (i.link /\ follow /\ IsDir(source.tree, q)))
  BY WalkLooks DEF W!IsTree, W!DenotesDir, W!There
<1> HIDE DEF i
<1>8. i.src = <<>> => W!IsTree BY <1>3, <1>7 DEF Listed
<1>9. CASE W!WalkDir
  <2>1. PICK children \in W!Children(q, i.src) :
          /\ IsDir(source.tree, q) /\ stack' = W!Front(stack) \o children
          /\ archive' = IF W!Dest = <<>> THEN archive
                        ELSE Append(archive, W!Entry(source.tree[q], W!Dest))
    BY <1>1, <1>9, WalkLooks DEF W!WalkDir, W!There, W!Target, i
  <2>2. q # None /\ source.tree[q].kind = "dir" BY <1>4, <2>1 DEF IsDir
  <2>3. follow \/ i.link = FALSE
    <3>1. W!IsTree BY <1>9 DEF W!WalkDir
    <3>2. CASE i.src = <<>> BY <1>3, <3>2 DEF Listed
    <3>3. CASE i.src # <<>> /\ ~follow
      <4>1. i.dir = TRUE BY <1>3, <1>7, <3>1, <3>3 DEF Listed, Items
      <4> QED BY <1>3, <3>3, <4>1 DEF Listed
    <3> QED BY <3>2, <3>3
  <2>4. /\ i.src \in SourceOf /\ SourceAt(i.src) = q /\ q \in DOMAIN source.tree
        /\ ~follow => q = i.src
    BY <1>2, <1>3, <2>2, <2>3, ListedCanon
  <2>5. archive' = IF base \o i.src = <<>> THEN archive
                   ELSE Append(archive, EntryOf(i.src))
    BY <1>6, <2>1, <2>4 DEF EntryOf
  <2>6. i.src = <<>> => IsDir(source.tree, <<>>) BY <1>4, <2>1, CanonStep
  <2> HIDE DEF q
  <2> QED BY <1>1, <2>1, <2>2, <2>4, <2>5, <2>6 DEF i, q
<1>10. CASE W!WalkLink
  <2>1. /\ Exists(source.tree, i.src) /\ i.link = TRUE /\ ~follow /\ ~W!IsTree
        /\ stack' = W!Front(stack)
        /\ archive' = Append(archive, W!Entry(source.tree[Place(source.tree, i.src)], W!Dest))
    BY <1>1, <1>3, <1>10, WalkLooks DEF W!WalkLink, W!There, i, Listed, Items
  <2>2. i.dir = FALSE BY <1>3, <1>7, <2>1 DEF Listed, Items
  <2>3. /\ i.src \in SourceOf /\ SourceAt(i.src) = i.src
        /\ Place(source.tree, i.src) = i.src
        /\ i.src \in DOMAIN source.tree /\ source.tree[i.src].kind = "symlink"
    BY <1>2, <1>3, <2>1, <2>2, ListedLink
  <2>4. i.src # <<>> BY <1>8, <2>1
  <2>5. archive' = IF base \o i.src = <<>> THEN archive
                   ELSE Append(archive, EntryOf(i.src))
    BY <1>5, <1>6, <2>1, <2>3, <2>4 DEF EntryOf
  <2>6. \A p \in SourceOf : ~Below(p, i.src) BY <1>2, <1>3, <2>1, <2>2, LeafBelow
  <2> HIDE DEF q
  <2> QED BY <1>1, <2>1, <2>3, <2>4, <2>5, <2>6 DEF i, q
<1>11. CASE W!WalkFile
  <2>1. /\ q # None /\ source.tree[q].kind # "socket" /\ (i.link => follow) /\ ~W!IsTree
        /\ stack' = W!Front(stack)
        /\ archive' = Append(archive, W!Entry(source.tree[q], W!Dest))
    BY <1>1, <1>11, WalkLooks DEF W!WalkFile, W!There, W!Target, i
  <2>2. follow \/ i.link = FALSE BY <1>3, <2>1 DEF Listed, Items
  <2>3. i.src \in SourceOf /\ SourceAt(i.src) = q /\ q \in DOMAIN source.tree
    BY <1>2, <1>3, <2>1, <2>2, ListedCanon
  <2>4. i.src # <<>> BY <1>8, <2>1
  <2>5. archive' = IF base \o i.src = <<>> THEN archive
                   ELSE Append(archive, EntryOf(i.src))
    BY <1>5, <1>6, <2>1, <2>3, <2>4 DEF EntryOf
  <2>6. \A p \in SourceOf : ~Below(p, i.src) BY <1>2, <1>3, <1>7, <2>1, LeafBelow
  <2> HIDE DEF q
  <2> QED BY <1>1, <2>1, <2>3, <2>4, <2>5, <2>6 DEF i, q
<1> QED BY <1>1, <1>9, <1>10, <1>11

\* What it puts on the stack instead: everything below the item.
LEMMA WalkPushes ==
    ASSUME TypeInv, WalkInv, WalkStep, walk' # "failed", ~W!WalkDone
    PROVE  \E children \in Seq(Items) :
             /\ stack' = W!Front(stack) \o children
             /\ \A c \in DOMAIN children : Listed(children[c])
             /\ \A p \in SourceOf : Below(p, W!Top.src) =>
                    \E c \in DOMAIN children : children[c].src = p \/ Below(p, children[c].src)
<1> DEFINE i == W!Top
           q == Canon(source.tree, i.src)
           front == W!Front(stack)
<1> HIDE DEF i
<1>1. /\ i.src \in SourceOf
      /\ \/ stack' = front /\ \A p \in SourceOf : ~Below(p, i.src)
         \/ /\ IsDir(source.tree, q) /\ (~follow => q = i.src)
            /\ \E children \in W!Children(q, i.src) : stack' = front \o children
  BY WalkItem DEF i
<1>2. source \in Sources /\ stack \in Seq(Items) /\ stack # <<>>
  BY WalkItem DEF TypeInv, Walking, WalkStep, W!WalkNext, W!WalkDir, W!WalkLink, W!WalkFile, W!WalkDone
<1>3. i.src \in Path BY <1>1 DEF SourceOf
<1>4. CASE stack' = front /\ \A p \in SourceOf : ~Below(p, i.src)
  <2>1. <<>> \in Seq(Items) /\ DOMAIN <<>> = {} OBVIOUS
  <2>2. front \in Seq(Items) BY <1>2 DEF W!Front
  <2>3. stack' = front \o <<>> BY <1>4, <2>2
  <2> QED BY <1>4, <2>1, <2>3 DEF i
<1>5. CASE /\ IsDir(source.tree, q) /\ (~follow => q = i.src)
           /\ \E children \in W!Children(q, i.src) : stack' = front \o children
  <2>1. PICK children \in W!Children(q, i.src) : stack' = front \o children BY <1>5
  <2>2. /\ children \in Seq(Items)
        /\ \A c \in DOMAIN children : Listed(children[c])
        /\ \A n \in Names : Append(q, n) \in DOMAIN source.tree =>
                \E c \in DOMAIN children : children[c].src = Append(i.src, n)
    BY <1>2, <1>3, <1>5, ChildrenAll
  <2>3. ASSUME NEW p \in SourceOf, Below(p, i.src)
        PROVE  \E c \in DOMAIN children : children[c].src = p \/ Below(p, children[c].src)
    <3>1. p \in Path BY DEF SourceOf
    <3>2. PICK r \in Path : r # <<>> /\ Parent(r) = i.src /\ (r = p \/ Below(p, r))
      BY <1>3, <2>3, <3>1, NextName
    <3>3. r \in SourceOf BY <1>2, <3>2, SourceAbove
    <3>4. Name(r) \in Names /\ r = Append(i.src, Name(r)) BY <3>2, ParentPath
    <3>5. Append(q, Name(r)) \in DOMAIN source.tree
      BY <1>2, <1>5, <3>2, <3>3, <3>4, SourceParent
    <3>6. PICK c \in DOMAIN children : children[c].src = r BY <2>2, <3>4, <3>5
    <3> QED BY <3>2, <3>6
  <2> QED BY <2>1, <2>2, <2>3 DEF i
<1> QED BY <1>1, <1>4, <1>5

\* A step of the walk keeps WalkInv.
LEMMA WalkInvWalk ==
    ASSUME TypeInv, WalkInv, WalkStep
    PROVE  WalkInv'
<1>0. /\ walk = "walk" /\ UNCHANGED <<source, base, follow, mode>>
      /\ source \in Sources /\ base \in Path /\ stack \in Seq(Items) /\ archive \in Seq(EntryType)
  BY DEF WalkStep, W!WalkNext, W!WalkDir, W!WalkLink, W!WalkFile, W!WalkDone, W!GiveUp, W!Keep,
         TypeInv, TypeOK, Walking
<1>1. /\ SourceOf' = SourceOf /\ \A p : SourceAt(p)' = SourceAt(p)
      /\ \A p : EntryOf(p)' = EntryOf(p) /\ \A i : Listed(i)' <=> Listed(i)
  BY <1>0 DEF SourceOf, SourceAt, EntryOf, W!Entry, W!ModeOf, Listed
<1>2. CASE W!WalkDone
  <2>1. UNCHANGED <<stack, archive>> /\ stack = <<>> /\ walk' = "done" BY <1>2 DEF W!WalkDone
  <2>2. \A n \in DOMAIN archive' : Drawn(n)'
    BY <1>0, <1>1, <2>1 DEF WalkInv, Drawn
  <2>3. Covered' BY <1>0, <1>1, <2>1 DEF WalkInv, Covered, Archived
  <2> QED BY <1>0, <1>1, <2>1, <2>2, <2>3 DEF WalkInv
<1>3. CASE walk' = "failed" BY <1>3 DEF WalkInv
<1>4. CASE walk' # "failed" /\ ~W!WalkDone
  <2> DEFINE src == W!Top.src
             front == W!Front(stack)
             m == Len(front)
  <2>1. /\ stack # <<>> /\ src \in SourceOf
        /\ SourceAt(src) \in DOMAIN source.tree /\ source.tree[SourceAt(src)].kind # "socket"
        /\ archive' = IF base \o src = <<>> THEN archive ELSE Append(archive, EntryOf(src))
        /\ src = <<>> => IsDir(source.tree, <<>>)
    BY <1>4, WalkItem
  <2>2. walk' = "walk" BY <1>4 DEF WalkStep, W!WalkNext, W!WalkDir, W!WalkLink, W!WalkFile, W!GiveUp
  <2>3. PICK children \in Seq(Items) :
          /\ stack' = front \o children
          /\ \A c \in DOMAIN children : Listed(children[c])
          /\ \A p \in SourceOf : Below(p, src) =>
                \E c \in DOMAIN children : children[c].src = p \/ Below(p, children[c].src)
    BY <1>4, WalkPushes
  <2>4. /\ m \in Nat /\ m + 1 = Len(stack) /\ front \in Seq(Items)
        /\ \A j \in 1 .. m : front[j] = stack[j]
        /\ stack[m + 1].src = src
    <3>1. Len(stack) \in Nat /\ Len(stack) # 0 BY <1>0, <2>1
    <3>2. front = SubSeq(stack, 1, Len(stack) - 1) BY DEF W!Front
    <3>3. m = Len(stack) - 1
      <4> DEFINE l == Len(stack) - 1
      <4>1. l \in Nat /\ l <= Len(stack) BY <3>1
      <4> HIDE DEF l, front
      <4>2. Len(SubSeq(stack, 1, l)) = l BY <1>0, <4>1
      <4> QED BY <3>2, <4>2 DEF l
    <3>4. W!Top = stack[Len(stack)] BY DEF W!Top, W!Last
    <3> HIDE DEF front, m
    <3> QED BY <1>0, <3>1, <3>2, <3>3, <3>4
  <2> HIDE DEF front, src
  <2>5. /\ DOMAIN stack = 1 .. m + 1 /\ DOMAIN children = 1 .. Len(children) /\ Len(children) \in Nat
        /\ DOMAIN stack' = 1 .. m + Len(children)
        /\ \A j \in 1 .. m : stack'[j] = stack[j]
        /\ \A c \in DOMAIN children : stack'[m + c] = children[c]
        /\ \A j \in DOMAIN stack' : j \in 1 .. m \/ (j - m \in DOMAIN children /\ j = m + (j - m))
    BY <1>0, <2>3, <2>4
  <2> HIDE DEF m
  <2>6. /\ Len(archive) \in Nat /\ DOMAIN archive = 1 .. Len(archive)
        /\ \A n \in DOMAIN archive : n \in DOMAIN archive' /\ archive'[n] = archive[n]
        /\ \A n \in DOMAIN archive' \ DOMAIN archive :
                base \o src # <<>> /\ archive'[n] = EntryOf(src)
        /\ base \o src # <<>> => \E n \in DOMAIN archive' : archive'[n] = EntryOf(src)
    <3>1. CASE base \o src = <<>> BY <1>0, <2>1, <3>1
    <3>2. CASE base \o src # <<>>
      <4>1. archive' = Append(archive, EntryOf(src)) BY <2>1, <3>2
      <4> QED BY <1>0, <3>2, <4>1
    <3> QED BY <3>1, <3>2
  <2>7. ASSUME NEW n \in DOMAIN archive' PROVE Drawn(n)'
    <3>1. CASE n \in DOMAIN archive
      <4>1. Drawn(n) BY <1>0, <3>1 DEF WalkInv
      <4> QED BY <1>0, <1>1, <2>6, <3>1, <4>1 DEF Drawn
    <3>2. CASE n \notin DOMAIN archive BY <1>0, <1>1, <2>1, <2>6, <3>2 DEF Drawn
    <3> QED BY <3>1, <3>2
  <2>8. Covered'
    <3> SUFFICES ASSUME NEW p \in SourceOf, ~Archived(p)'
                 PROVE  \E j \in DOMAIN stack' : stack'[j].src = p \/ Below(p, stack'[j].src)
      BY <1>1 DEF Covered
    <3>1. ~Archived(p) BY <1>0, <1>1, <2>6 DEF Archived
    <3>2. PICK j \in DOMAIN stack : stack[j].src = p \/ Below(p, stack[j].src)
      BY <1>0, <3>1 DEF WalkInv, Covered
    <3>3. CASE j \in 1 .. m
      <4>1. j \in DOMAIN stack' /\ stack'[j] = stack[j] BY <2>4, <2>5, <3>3
      <4> QED BY <3>2, <4>1
    <3>4. CASE j \notin 1 .. m
      <4>1. j = m + 1 BY <2>4, <2>5, <3>4
      <4>2. p # src BY <1>0, <1>1, <2>6 DEF Archived
      <4>3. stack[j].src = src
        BY <2>4, <4>1
      <4>4. PICK c \in DOMAIN children : children[c].src = p \/ Below(p, children[c].src)
        BY <2>3, <3>2, <4>2, <4>3
      <4>5. m + c \in DOMAIN stack' BY <2>4, <2>5
      <4> QED BY <2>5, <4>4, <4>5
    <3> QED BY <3>3, <3>4
  <2>9. ASSUME NEW j \in DOMAIN stack' PROVE Listed(stack[j])'
    <3>1. CASE j \in 1 .. m
      <4>1. stack'[j] = stack[j] /\ j \in DOMAIN stack BY <2>4, <2>5, <3>1
      <4>2. Listed(stack[j]) BY <1>0, <4>1 DEF WalkInv
      <4> QED BY <1>0, <4>1, <4>2 DEF Listed
    <3>2. CASE j \notin 1 .. m
      <4>1. j - m \in DOMAIN children /\ stack'[j] = children[j - m] BY <2>5, <3>2
      <4>2. Listed(children[j - m]) BY <2>3, <4>1
      <4> QED BY <1>0, <4>1, <4>2 DEF Listed
    <3> QED BY <3>1, <3>2
  <2>10. IsDir(source.tree, <<>>)
    <3>1. CASE src = <<>> BY <2>1, <3>1
    <3>2. CASE src # <<>>
      <4>1. m + 1 \in DOMAIN stack /\ stack[m + 1].src = src BY <2>4, <2>5
      <4> QED BY <1>0, <3>2, <4>1 DEF WalkInv
    <3> QED BY <3>1, <3>2
  <2> QED BY <1>0, <2>2, <2>7, <2>8, <2>9, <2>10 DEF WalkInv
<1> QED BY <1>2, <1>3, <1>4

-----------------------------------------------------------------------------
\* WalkInv holds at first.
LEMMA WalkInvInit == TripInit => WalkInv
<1> SUFFICES ASSUME TripInit, walk \in {"walk", "done"} PROVE WalkInv BY DEF WalkInv
<1>1. /\ source \in Sources /\ base \in Path /\ walk = "walk" /\ archive = <<>>
      /\ stack = <<W!Item(<<>>, TRUE, FALSE)>>
  BY TripAssumption DEF TripInit, W!StartWalk
<1> DEFINE i == W!Item(<<>>, TRUE, FALSE)
<1>2. i = [src |-> <<>>, dir |-> TRUE, link |-> FALSE] BY DEF W!Item
<1>3. <<>> \in Path BY DEF Path
<1>5. stack = <<i>> BY <1>1
<1> HIDE DEF i
<1>4. /\ i \in Items /\ i.src = <<>> /\ i.dir = TRUE /\ i.link = FALSE
      /\ DOMAIN stack = {1} /\ stack[1] = i
  BY <1>2, <1>3, <1>5 DEF Items
<1>6. Listed(i) BY <1>4 DEF Listed
<1>7. Covered
  <2> SUFFICES ASSUME NEW p \in SourceOf PROVE p = <<>> \/ Below(p, <<>>)
    BY <1>4 DEF Covered
  <2> QED BY <1>3, BelowParent DEF SourceOf
<1>8. DOMAIN archive = {} /\ walk # "done" BY <1>1
<1> QED BY <1>1, <1>4, <1>6, <1>7, <1>8 DEF WalkInv

\* Unpacking leaves the archive and the walk alone.
LEMMA UnpackKeeps ==
    ASSUME UnpackStep
    PROVE  UNCHANGED <<archive, source, base, follow, mode, stack, walk>>
<1>1. UNCHANGED <<source, base, follow, mode, stack, walk>> BY DEF UnpackStep, walkOnly
<1>2. CASE EntryStep BY <1>1, <1>2, EntryKeeps
<1>3. CASE PutOff \/ NextEntry \/ NextDirectory \/ Unpacked \/ Again BY <1>1, <1>3, Bookkeeping
<1>4. CASE CutShort \/ Meddle BY <1>1, <1>4 DEF CutShort, Meddle, fixed
<1> QED BY <1>2, <1>3, <1>4 DEF UnpackStep, UnpackNext

\* Every step keeps WalkInv.
LEMMA WalkInvStep ==
    ASSUME TypeInv, WalkInv, [TripNext]_tripVars
    PROVE  WalkInv'
<1>1. CASE WalkStep BY <1>1, WalkInvWalk
<1>2. CASE UnpackStep \/ UNCHANGED tripVars
  <2>1. UNCHANGED <<archive, source, base, follow, mode, stack, walk>>
    BY <1>2, UnpackKeeps DEF tripVars, vars, fixed, walkOnly
  <2>2. /\ SourceOf' = SourceOf /\ \A p : SourceAt(p)' = SourceAt(p)
        /\ \A p : EntryOf(p)' = EntryOf(p)
    BY <2>1 DEF SourceOf, SourceAt, EntryOf, W!Entry, W!ModeOf
  <2>3. (\A n \in DOMAIN archive : Drawn(n)) => (\A n \in DOMAIN archive : Drawn(n))'
    BY <2>1, <2>2 DEF Drawn
  <2>4. Covered => Covered' BY <2>1, <2>2 DEF Covered, Archived
  <2>5. (\A i \in DOMAIN stack : Listed(stack[i])) => (\A i \in DOMAIN stack : Listed(stack[i]))'
    BY <2>1 DEF Listed
  <2> QED BY <2>1, <2>3, <2>4, <2>5 DEF WalkInv
<1> QED BY <1>1, <1>2 DEF TripNext

-----------------------------------------------------------------------------
\* Paths behind a base.
LEMMA BasePath ==
    ASSUME NEW b \in Path, NEW p \in Path, NEW q \in Path
    PROVE  /\ b \o p \in Path /\ Len(b \o p) = Len(b) + Len(p)
           /\ b \o p = b \o q <=> p = q
           /\ Below(b \o p, b \o q) <=> Below(p, q)
<1> DEFINE l == Len(b)
           m == Len(p)
           n == Len(q)
<1>1. /\ l \in Nat /\ m \in Nat /\ n \in Nat
      /\ b \in Seq(Names) /\ p \in Seq(Names) /\ q \in Seq(Names)
      /\ b \o p \in Seq(Names) /\ b \o q \in Seq(Names)
      /\ Len(b \o p) = l + m /\ Len(b \o q) = l + n
  BY DEF Path
<1>2. /\ \A i \in 1 .. l : (b \o p)[i] = b[i] /\ (b \o q)[i] = b[i]
      /\ \A i \in 1 .. m : (b \o p)[l + i] = p[i]
      /\ \A i \in 1 .. n : (b \o q)[l + i] = q[i]
  BY <1>1
<1> HIDE DEF l, m, n
<1>3. ASSUME b \o p = b \o q PROVE p = q
  <2>1. m = n BY <1>1, <1>3
  <2>2. \A i \in 1 .. m : p[i] = q[i] BY <1>2, <1>3, <2>1
  <2> QED BY <1>1, <2>1, <2>2 DEF m, n
<1>4. ASSUME NEW s \in Seq(Names), NEW t \in Seq(Names)
      PROVE  Below(s, t) <=> Len(t) < Len(s) /\ \A i \in 1 .. Len(t) : s[i] = t[i]
  <2>1. CASE Len(t) < Len(s)
    <3>1. /\ Len(t) \in Nat /\ Len(s) \in Nat
          /\ SubSeq(s, 1, Len(t)) = [i \in 1 .. Len(t) |-> s[i]]
          /\ t = [i \in 1 .. Len(t) |-> t[i]]
      BY <2>1
    <3> QED BY <2>1, <3>1 DEF Below
  <2> QED BY <2>1 DEF Below
<1>5. Below(b \o p, b \o q) <=> n < m /\ \A i \in 1 .. l + n : (b \o p)[i] = (b \o q)[i]
  <2> DEFINE s == b \o p
             t == b \o q
  <2>1. s \in Seq(Names) /\ t \in Seq(Names) /\ Len(s) = l + m /\ Len(t) = l + n BY <1>1
  <2> HIDE DEF s, t
  <2>2. Below(s, t) <=> l + n < l + m /\ \A i \in 1 .. l + n : s[i] = t[i] BY <1>4, <2>1
  <2>3. l + n < l + m <=> n < m BY <1>1
  <2> QED BY <2>2, <2>3 DEF s, t
<1>6. Below(p, q) <=> n < m /\ \A i \in 1 .. n : p[i] = q[i]
  BY <1>1, <1>4 DEF n, m
<1>7. ASSUME n < m
      PROVE  (\A i \in 1 .. l + n : (b \o p)[i] = (b \o q)[i]) <=> \A i \in 1 .. n : p[i] = q[i]
  <2>1. ASSUME \A i \in 1 .. l + n : (b \o p)[i] = (b \o q)[i], NEW i \in 1 .. n
        PROVE  p[i] = q[i]
    <3>1. l + i \in 1 .. l + n /\ i \in 1 .. m BY <1>1, <1>7
    <3> QED BY <1>2, <2>1, <3>1
  <2>2. ASSUME \A i \in 1 .. n : p[i] = q[i], NEW i \in 1 .. l + n
        PROVE  (b \o p)[i] = (b \o q)[i]
    <3>1. CASE i \in 1 .. l BY <1>2, <3>1
    <3>2. CASE i \notin 1 .. l
      <4>1. i - l \in 1 .. n /\ i - l \in 1 .. m /\ i = l + (i - l) BY <1>1, <1>7, <3>2
      <4> QED BY <1>2, <2>2, <4>1
    <3> QED BY <3>1, <3>2
  <2> QED BY <2>1, <2>2
<1> QED BY <1>1, <1>3, <1>5, <1>6, <1>7 DEF l, m, Path

\* What is above a path behind a base is above the base, or behind it.
LEMMA BaseAbove ==
    ASSUME NEW b \in Path, NEW p \in Path, NEW x \in Path, Below(b \o p, x)
    PROVE  \/ x = SubSeq(b, 1, Len(x)) /\ Len(x) \in 0 .. Len(b)
           \/ \E q \in Path : x = b \o q /\ Below(p, q)
<1>1. /\ Len(b) \in Nat /\ Len(p) \in Nat /\ Len(x) \in Nat
      /\ b \in Seq(Names) /\ p \in Seq(Names) /\ x \in Seq(Names)
      /\ Len(b \o p) = Len(b) + Len(p) /\ Len(x) < Len(b) + Len(p)
      /\ x = SubSeq(b \o p, 1, Len(x))
  BY DEF Path, Below
<1>2. x = [i \in 1 .. Len(x) |-> (b \o p)[i]]
  <2>1. SubSeq(b \o p, 1, Len(x)) = [i \in 1 .. Len(x) |-> (b \o p)[i]] BY <1>1
  <2> QED BY <1>1, <2>1
<1>3. /\ \A i \in 1 .. Len(b) : (b \o p)[i] = b[i]
      /\ \A i \in 1 .. Len(p) : (b \o p)[Len(b) + i] = p[i]
  BY <1>1
<1>4. CASE Len(x) <= Len(b)
  <2>1. SubSeq(b, 1, Len(x)) = [i \in 1 .. Len(x) |-> b[i]] BY <1>1, <1>4
  <2>2. \A i \in 1 .. Len(x) : (b \o p)[i] = b[i] BY <1>1, <1>3, <1>4
  <2>3. [i \in 1 .. Len(x) |-> (b \o p)[i]] = [i \in 1 .. Len(x) |-> b[i]] BY <2>2
  <2>4. x = SubSeq(b, 1, Len(x)) BY <1>2, <2>1, <2>3
  <2>5. Len(x) \in 0 .. Len(b) BY <1>1, <1>4
  <2> QED BY <2>4, <2>5
<1>5. CASE Len(x) > Len(b)
  <2> DEFINE n == Len(x) - Len(b)
             q == SubSeq(p, 1, n)
  <2>1. n \in Nat /\ n < Len(p) /\ Len(x) = Len(b) + n BY <1>1, <1>5
  <2> HIDE DEF n
  <2>2. q \in Seq(Names) /\ Len(q) = n /\ \A i \in 1 .. n : q[i] = p[i] BY <1>1, <2>1
  <2>3. Below(p, q) BY <1>1, <2>1, <2>2 DEF Below
  <2> HIDE DEF q
  <2>4. x = b \o q
    <3> DEFINE t == b \o q
    <3>1. t \in Seq(Names) /\ Len(t) = Len(x)
      <4>1. q \in Path BY <2>2 DEF Path
      <4>2. b \o q \in Path /\ Len(b \o q) = Len(b) + Len(q) BY <4>1, BasePath
      <4> QED BY <2>1, <2>2, <4>2 DEF Path
    <3>2. ASSUME NEW i \in 1 .. Len(x) PROVE x[i] = (b \o q)[i]
      <4>1. x[i] = (b \o p)[i] BY <1>2
      <4>2. CASE i \in 1 .. Len(b) BY <1>1, <1>3, <2>2, <4>1, <4>2
      <4>3. CASE i \notin 1 .. Len(b)
        <5>1. i - Len(b) \in 1 .. n /\ i - Len(b) \in 1 .. Len(p) /\ i = Len(b) + (i - Len(b))
          BY <1>1, <2>1, <4>3
        <5>2. (b \o q)[Len(b) + (i - Len(b))] = q[i - Len(b)] BY <1>1, <2>2, <5>1
        <5> QED BY <1>3, <2>2, <4>1, <5>1, <5>2
      <4> QED BY <4>2, <4>3
    <3>3. \A i \in 1 .. Len(x) : x[i] = t[i] BY <3>2
    <3> HIDE DEF t
    <3>4. x = t BY <1>1, <3>1, <3>3
    <3> QED BY <3>4 DEF t
  <2> QED BY <2>2, <2>3, <2>4 DEF Path
<1>6. Len(x) <= Len(b) \/ Len(x) > Len(b) BY <1>1
<1> QED BY <1>4, <1>5, <1>6

-----------------------------------------------------------------------------
\* What the entry of a path of the source says.
LEMMA EntryFields ==
    ASSUME source \in Sources, NEW p, SourceAt(p) \in DOMAIN source.tree,
           source.tree[SourceAt(p)].kind # "socket"
    PROVE  LET e == EntryOf(p)
               node == source.tree[SourceAt(p)]
           IN  /\ e.path = base \o p /\ e.mode = W!ModeOf(node) /\ e.mode # None
               /\ e.kind \in {"dir", "file", "symlink"}
               /\ e.kind = "dir" <=> node.kind = "dir"
               /\ e.kind = "file" <=> node.kind \in {"file", "fifo"}
               /\ e.kind = "symlink" <=> node.kind = "symlink"
               /\ e.kind = "symlink" => e.link = node.target /\ node = Symlink(node.target)
<1> DEFINE node == source.tree[SourceAt(p)]
<1>1. /\ node.kind \in {"dir", "file", "symlink", "fifo"}
      /\ node.kind = "dir" => node.perm \in Perm
      /\ node.kind = "file" => node.ino \in 1 .. Len(source.disk)
      /\ source.disk \in Seq(InodeType)
  BY SourceSound
<1>2. node \in NodeType(Len(source.disk)) \cup SpecialType BY TripAssumption
<1>3. EntryOf(p) = W!Entry(node, base \o p) BY DEF EntryOf
<1> HIDE DEF node
<1>4. node.kind = "file" => source.disk[node.ino].perm \in Perm
  <2>1. \A r \in InodeType : r.perm \in Perm BY DEF InodeType
  <2> QED BY <1>1, <2>1
<1>5. {"w"} \in Perm /\ {"w", "x"} \in Perm BY DEF Perm
<1>6. W!ModeOf(node) \in Perm BY <1>1, <1>4, <1>5 DEF W!ModeOf
<1>7. W!ModeOf(node) # None BY <1>6, UnpackAssumption
<1>8. node.kind = "symlink" => node = Symlink(node.target)
  <2>1. node.kind = "symlink" => node \in [kind : {"symlink"}, target : Path]
    BY <1>2 DEF NodeType, SpecialType
  <2> QED BY <2>1 DEF Symlink
<1> QED BY <1>1, <1>3, <1>7, <1>8 DEF W!Entry, node

\* When links are not followed a path of the source is its own place.
LEMMA SourcePlain ==
    ASSUME source \in Sources, ~follow, NEW p \in SourceOf, SourceAt(p) \in DOMAIN source.tree
    PROVE  SourceAt(p) = p
<1>1. /\ DOMAIN source.tree \subseteq Path /\ <<>> \in DOMAIN source.tree /\ Linked(source.tree)
      /\ IsRooted(source.tree) /\ None \notin DOMAIN source.tree
  BY SourceSound, TripAssumption, TreeAssumption DEF Path
<1>2. p \in DOMAIN source.tree /\ p \in Path /\ SourceAt(p) = Place(source.tree, p)
  BY <1>1 DEF SourceOf, SourceAt
<1>3. CASE p = <<>> BY <1>2, <1>3 DEF Place
<1>4. CASE p # <<>>
  <2>1. Free(source.tree, Parent(p))
    <3> SUFFICES ASSUME NEW q \in DOMAIN source.tree, q = Parent(p) \/ Below(Parent(p), q)
                 PROVE  source.tree[q].kind # "symlink"
      BY DEF Free
    <3>1. q \in Path /\ Below(p, q) BY <1>1, <1>2, <1>4, BelowParent
    <3> QED BY <1>1, <1>2, <3>1, AboveDir DEF IsDir
  <2> QED BY <1>1, <1>2, <1>4, <2>1, PlaceFree
<1> QED BY <1>3, <1>4

\* Nothing of the source is below one of its links.
LEMMA LinkBelow ==
    ASSUME WalkInv, walk = "done", NEW n \in DOMAIN archive, archive[n].kind = "symlink",
           NEW p \in SourceOf
    PROVE  ~Below(base \o p, archive[n].path)
<1>1. /\ source \in Sources /\ base \in Path /\ Drawn(n) /\ IsDir(source.tree, <<>>)
  <2>1. archive # <<>> OBVIOUS
  <2> QED BY <2>1 DEF WalkInv
<1>2. /\ DOMAIN source.tree \subseteq Path /\ <<>> \in DOMAIN source.tree /\ Linked(source.tree)
      /\ IsRooted(source.tree) /\ None \notin DOMAIN source.tree
  BY <1>1, SourceSound, TripAssumption, TreeAssumption DEF Path
<1>3. PICK q \in SourceOf :
        /\ SourceAt(q) \in DOMAIN source.tree /\ source.tree[SourceAt(q)].kind # "socket"
        /\ archive[n] = EntryOf(q)
  BY <1>1 DEF Drawn
<1>4. source.tree[SourceAt(q)].kind = "symlink" /\ archive[n].path = base \o q
  BY <1>1, <1>3, EntryFields
<1>5. p \in Path /\ q \in Path BY DEF SourceOf
<1>6. ~follow
  <2>1. CASE follow
    <3>1. SourceAt(q) = Canon(source.tree, q) BY <2>1 DEF SourceAt
    <3>2. SourceAt(q) = <<>> BY <1>2, <1>3, <1>4, <1>5, <3>1, CanonThere
    <3> QED BY <1>1, <1>4, <3>2 DEF IsDir
  <2> QED BY <2>1
<1>7. SourceAt(q) = q /\ q \in DOMAIN source.tree BY <1>1, <1>3, <1>6, SourcePlain
<1>8. p \in DOMAIN source.tree BY <1>6 DEF SourceOf
<1>9. ~Below(p, q) BY <1>2, <1>4, <1>5, <1>7, <1>8, AboveDir DEF IsDir
<1> QED BY <1>1, <1>4, <1>5, <1>9, BasePath

\* An archive that was made of a tree, over a new directory, is straight, and
\* it is known by its paths.
LEMMA WalkStraight ==
    ASSUME TypeInv, WalkInv, walk = "done", Fresh
    PROVE  /\ Straight /\ Made = DOMAIN archive
           /\ \A n \in DOMAIN archive :
                \A p \in SourceOf : archive[n].path = base \o p => archive[n] = EntryOf(p)
<1>1. source \in Sources /\ base \in Path /\ \A n \in DOMAIN archive : Drawn(n) BY DEF WalkInv
<1>2. ASSUME NEW n \in DOMAIN archive
      PROVE  \E p \in SourceOf :
                /\ SourceAt(p) \in DOMAIN source.tree /\ source.tree[SourceAt(p)].kind # "socket"
                /\ base \o p # <<>> /\ archive[n] = EntryOf(p) /\ archive[n].path = base \o p
                /\ archive[n].path \in Path /\ archive[n].kind \in {"dir", "file", "symlink"}
  <2>1. PICK p \in SourceOf :
          /\ SourceAt(p) \in DOMAIN source.tree /\ source.tree[SourceAt(p)].kind # "socket"
          /\ base \o p # <<>> /\ archive[n] = EntryOf(p)
    BY <1>1 DEF Drawn
  <2>2. archive[n].path = base \o p /\ archive[n].kind \in {"dir", "file", "symlink"}
    BY <1>1, <2>1, EntryFields
  <2>3. base \o p \in Path BY <1>1, BasePath DEF SourceOf
  <2> QED BY <2>1, <2>2, <2>3
<1>3. None \notin Path BY TreeAssumption DEF Path
<1>4. Made = DOMAIN archive
  <2>1. \A n \in DOMAIN archive : archive[n].path \notin {None, <<>>} /\ archive[n].kind # "meta"
    BY <1>2, <1>3
  <2> QED BY <2>1 DEF Made
<1>5. ASSUME NEW n \in DOMAIN archive, NEW p \in SourceOf, archive[n].path = base \o p
      PROVE  archive[n] = EntryOf(p)
  <2>1. PICK q \in SourceOf : archive[n] = EntryOf(q) /\ archive[n].path = base \o q BY <1>2
  <2>2. p \in Path /\ q \in Path BY DEF SourceOf
  <2>3. base \o p = base \o q BY <1>5, <2>1
  <2>4. p = q BY <1>1, <2>2, <2>3, BasePath
  <2> QED BY <2>1, <2>4
<1>6. ASSUME NEW x \in LinkNames
      PROVE  \E n \in DOMAIN archive : archive[n].path = x /\ archive[n].kind = "symlink"
  <2>1. \A q \in DOMAIN first : first[q].kind # "symlink"
    <3>1. NewDir.kind = "dir" BY DEF NewDir, Dir
    <3>2. \A q \in DOMAIN first : first[q] = NewDir BY DEF Fresh
    <3> QED BY <3>1, <3>2
  <2> QED BY <2>1 DEF LinkNames
<1>7. ASSUME NEW n \in DOMAIN archive, NEW x \in LinkNames PROVE ~Below(archive[n].path, x)
  <2>1. PICK m \in DOMAIN archive : archive[m].path = x /\ archive[m].kind = "symlink" BY <1>6
  <2>2. PICK p \in SourceOf : archive[n].path = base \o p BY <1>2
  <2> QED BY <2>1, <2>2, LinkBelow
<1>8. ASSUME NEW n \in DOMAIN archive, archive[n].kind \in DirKinds PROVE ~Bends(archive[n].path)
  <2> SUFFICES ASSUME NEW x \in LinkNames, archive[n].path = x PROVE FALSE
    BY <1>7 DEF Bends
  <2>1. PICK m \in DOMAIN archive : archive[m].path = x /\ archive[m].kind = "symlink" BY <1>6
  <2>2. PICK p \in SourceOf : archive[n].path = base \o p BY <1>2
  <2>3. archive[n] = archive[m] BY <1>5, <2>1, <2>2
  <2> QED BY <1>8, <2>1, <2>3 DEF DirKinds
<1>9. Direct BY <1>2, <1>7 DEF Direct
<1>10. Straight BY <1>2, <1>8, <1>9 DEF Straight
<1> QED BY <1>4, <1>5, <1>10

-----------------------------------------------------------------------------
\* In a new directory there is only what entries make.
OnlyMade ==
    Fresh /\ Undisturbed => \A p \in DOMAIN tree : p = <<>> \/ \E n \in Made : Makes(n, p)

\* Every step of an entry keeps OnlyMade.
LEMMA OnlyMadeEntry ==
    ASSUME TypeInv, Kinds, LinksKnown, OnlyMade, EntryStep
    PROVE  OnlyMade'
<1>1. UNCHANGED <<archive, set, first, meddles>> /\ pc \in EntryStages BY EntryKeeps
<1>2. /\ Undisturbed' = Undisturbed /\ Fresh' = Fresh /\ Made' = Made
      /\ \A n, p : Makes(n, p)' <=> Makes(n, p)
  BY <1>1, SameUndisturbed DEF Fresh, Made, Makes
<1>3. SUFFICES ASSUME Undisturbed, NEW x \in DOMAIN tree', x \notin DOMAIN tree
               PROVE  \E n \in Made : Makes(n, x)
  BY <1>2 DEF OnlyMade
<1>4. Straight /\ Direct BY <1>3 DEF Undisturbed, Straight
<1>5. /\ E.path \in Path /\ E.path # <<>> /\ Free(tree, Parent(E.path))
      /\ Place(tree, E.path) \in {None, E.path}
  BY <1>1, <1>4, DirectPlace
<1>6. Linked(tree) /\ <<>> \in DOMAIN tree /\ None \notin Path
  BY TreeLinked, TreeAssumption DEF Path
<1>7. cur \in DOMAIN archive BY <1>1, EntryType1 DEF TypeInv, TypeOK
<1>8. ASSUME E.kind # "meta" PROVE cur \in Made
  BY <1>5, <1>6, <1>7, <1>8 DEF Made, E
<1>9. ASSUME NEW p, NEW node, Make(p, node) PROVE x = Place(tree, p)
  BY <1>3, <1>9 DEF Make, With
<1>10. CASE \E node : MayCreate(tree, E.path) /\ Make(E.path, node) /\ E.kind # "meta"
  <2>1. x = E.path BY <1>5, <1>9, <1>10 DEF MayCreate
  <2> QED BY <1>8, <1>10, <2>1 DEF Makes, E
<1>11. CASE \E n \in Missing(E.path) : /\ MayCreate(tree, SubSeq(E.path, 1, n))
                                      /\ Make(SubSeq(E.path, 1, n), NewDir)
  <2>1. PICK n \in 1 .. Len(E.path) - 1 : /\ MayCreate(tree, SubSeq(E.path, 1, n))
                                          /\ Make(SubSeq(E.path, 1, n), NewDir)
    BY <1>11 DEF Missing
  <2> DEFINE q == SubSeq(E.path, 1, n)
  <2>2. q \in Path /\ q # <<>> /\ Below(E.path, q) BY <1>5, PrefixPath
  <2> HIDE DEF q
  <2>3. Free(tree, Parent(q)) BY <1>5, <1>6, <2>2, FreeAbove
  <2>4. Place(tree, q) \in {None, q} BY <1>6, <2>2, <2>3, PlaceFree
  <2>5. x = q BY <1>9, <2>1, <2>4 DEF MayCreate, q
  <2>6. Len(E.path) # 1
    <3>1. Len(E.path) = 1 => 1 .. Len(E.path) - 1 = {} OBVIOUS
    <3> QED BY <2>1, <3>1
  <2>7. E.kind # "meta" BY <1>4, <1>7, <2>6 DEF Straight, E
  <2> QED BY <1>8, <2>2, <2>5, <2>7 DEF Makes, E
<1>12. CASE \E q : IsDir(tree, q) /\ tree' = With(tree, q, Dir(Perms(E)))
  BY <1>3, <1>12 DEF With, IsDir
<1>13. CASE UNCHANGED tree \/ \E q : tree' = Without(tree, q)
  BY <1>3, <1>13 DEF Without
<1>14. pc \in {"mkdir", "open", "reopen", "symlink", "relink", "hardlink"} => E.kind # "meta"
  BY DEF Kinds, DirKinds
<1> QED BY <1>10, <1>11, <1>12, <1>13, <1>14, EntryMoves

\* OnlyMade always holds.
LEMMA OnlyMadeStep ==
    ASSUME TypeInv, LostInv, OnlyMade, [TripNext]_tripVars
    PROVE  OnlyMade'
<1>0. Kinds /\ Counting /\ LinksKnown BY DEF LostInv
<1>1. CASE WalkStep
  <2>1. UNCHANGED <<first, tree>> /\ tree = first
    BY <1>0, <1>1 DEF WalkStep, W!WalkNext, W!WalkDir, W!WalkLink, W!WalkFile, W!WalkDone, Counting
  <2>2. Fresh' => DOMAIN tree' = {<<>>} BY <2>1 DEF Fresh
  <2> QED BY <2>2 DEF OnlyMade
<1>2. CASE Meddle
  <2>1. meddles' # 0 BY <1>0, <1>2 DEF Meddle, Counting
  <2> QED BY <2>1 DEF OnlyMade, Undisturbed
<1>3. CASE \/ PutOff \/ NextEntry \/ NextDirectory \/ Unpacked \/ Again \/ CutShort
           \/ UNCHANGED tripVars
  <2>1. UNCHANGED <<archive, first, tree, meddles>>
    BY <1>3, Bookkeeping DEF CutShort, fixed, tripVars, vars, counts
  <2>2. /\ Undisturbed' = Undisturbed /\ Fresh' = Fresh /\ Made' = Made
        /\ \A n, p : Makes(n, p)' <=> Makes(n, p)
    BY <2>1, SameUndisturbed DEF Fresh, Made, Makes
  <2> QED BY <2>1, <2>2 DEF OnlyMade
<1>4. CASE EntryStep BY <1>0, <1>4, OnlyMadeEntry
<1> QED BY <1>1, <1>2, <1>3, <1>4 DEF TripNext, UnpackStep, UnpackNext

\* OnlyMade holds at first.
LEMMA OnlyMadeInit == TripInit => OnlyMade
<1> SUFFICES ASSUME TripInit, Fresh PROVE DOMAIN tree = {<<>>} BY DEF OnlyMade
<1>1. tree = first BY DEF TripInit, InitUnpack
<1> QED BY <1>1 DEF Fresh

\* WalkInv and OnlyMade always hold.
LEMMA CopyAlways == TripSpec => [](TypeInv /\ LostInv /\ WalkInv /\ OnlyMade)
<1>1. TypeInv /\ LostInv /\ WalkInv /\ OnlyMade /\ [TripNext]_tripVars => WalkInv' /\ OnlyMade'
  BY WalkInvStep, OnlyMadeStep
<1> QED BY WalkInvInit, OnlyMadeInit, LostAlways, <1>1, PTL DEF TripSpec

-----------------------------------------------------------------------------
\* MaxDepth bounds nothing: no path of a source is longer.
DeepEnough ==
    \A s \in Sources : \A p \in Path :
        Canon(s.tree, p) # None \/ p \in DOMAIN s.tree => Len(p) <= MaxDepth

\* Paths of up to n names, and those of one name more.
UpTo(n) == {p \in Path : Len(p) <= n}
Longer(S) == {Append(p, x) : p \in S, x \in Names}

\* Paths of more names are paths with one more.
LEMMA LongerPaths ==
    /\ UpTo(0) = {<<>>}
    /\ \A n \in Nat : UpTo(n + 1) = UpTo(n) \cup Longer(UpTo(n))
<1>1. UpTo(0) = {<<>>}
  <2>1. \A p \in Path : Len(p) <= 0 <=> p = <<>> BY DEF Path
  <2>2. <<>> \in Path BY DEF Path
  <2> QED BY <2>1, <2>2 DEF UpTo
<1>2. ASSUME NEW n \in Nat PROVE UpTo(n + 1) = UpTo(n) \cup Longer(UpTo(n))
  <2>1. ASSUME NEW p \in UpTo(n + 1), p \notin UpTo(n) PROVE p \in Longer(UpTo(n))
    <3>1. p \in Path /\ Len(p) = n + 1 /\ p # <<>> BY <2>1 DEF UpTo, Path
    <3>2. /\ Parent(p) \in Path /\ Name(p) \in Names /\ Len(Parent(p)) = n
          /\ p = Append(Parent(p), Name(p))
      BY <3>1, ParentPath
    <3>3. Parent(p) \in UpTo(n) BY <3>2 DEF UpTo
    <3> QED BY <3>2, <3>3 DEF Longer
  <2>2. ASSUME NEW q \in UpTo(n), NEW x \in Names PROVE Append(q, x) \in UpTo(n + 1)
    <3>1. q \in Path /\ Len(q) <= n BY DEF UpTo
    <3>2. Append(q, x) \in Path /\ Len(Append(q, x)) = Len(q) + 1 /\ Len(q) \in Nat
      BY <3>1 DEF Path
    <3> QED BY <3>1, <3>2 DEF UpTo
  <2>3. ASSUME NEW p \in Longer(UpTo(n)) PROVE p \in UpTo(n + 1)
    <3>1. PICK q \in UpTo(n), x \in Names : p = Append(q, x) BY DEF Longer
    <3> QED BY <2>2, <3>1
  <2>4. ASSUME NEW q \in UpTo(n) PROVE q \in UpTo(n + 1)
    <3>1. q \in Path /\ Len(q) <= n /\ Len(q) \in Nat BY DEF UpTo, Path
    <3> QED BY <3>1 DEF UpTo
  <2> QED BY <2>1, <2>3, <2>4
<1> QED BY <1>1, <1>2

\* The paths that TreeCopied looks at are those of the source.
LEMMA SourcePathsAre ==
    ASSUME DeepEnough, source \in Sources
    PROVE  SourcePaths = SourceOf
<1> DEFINE B(u) == [n \in 0 .. MaxDepth |->
                        IF n = 0 THEN {<<>>} ELSE u[n - 1] \cup Longer(u[n - 1])]
           up == CHOOSE u : u = B(u)
           v == [n \in 0 .. MaxDepth |-> UpTo(n)]
<1>0. MaxDepth \in Nat BY TripAssumption
<1>1. SourcePaths = {p \in up[MaxDepth] : IF follow THEN SourceAt(p) # None ELSE p \in DOMAIN source.tree}
  BY DEF SourcePaths, Longer
<1>2. ASSUME NEW u, NEW n \in 0 .. MaxDepth
      PROVE  B(u)[n] = IF n = 0 THEN {<<>>} ELSE u[n - 1] \cup Longer(u[n - 1])
  OBVIOUS
<1>3. v = B(v)
  <2>1. ASSUME NEW n \in 0 .. MaxDepth PROVE v[n] = B(v)[n]
    <3>1. v[n] = UpTo(n) OBVIOUS
    <3>2. n # 0 => v[n - 1] = UpTo(n - 1) BY <1>0
    <3> HIDE DEF v, B
    <3>3. CASE n = 0 BY <1>2, <3>1, <3>3, LongerPaths
    <3>4. CASE n # 0
      <4>1. n - 1 \in Nat /\ (n - 1) + 1 = n BY <1>0, <3>4
      <4>2. UpTo((n - 1) + 1) = UpTo(n - 1) \cup Longer(UpTo(n - 1)) BY <4>1, LongerPaths
      <4>3. UpTo(n) = UpTo(n - 1) \cup Longer(UpTo(n - 1)) BY <4>1, <4>2
      <4>4. B(v)[n] = v[n - 1] \cup Longer(v[n - 1]) BY <1>2, <3>4
      <4> QED BY <3>1, <3>2, <3>4, <4>3, <4>4
    <3> QED BY <3>3, <3>4
  <2>2. v = [n \in 0 .. MaxDepth |-> v[n]] OBVIOUS
  <2>3. B(v) = [n \in 0 .. MaxDepth |-> B(v)[n]] OBVIOUS
  <2> HIDE DEF v, B
  <2> QED BY <2>1, <2>2, <2>3
<1> HIDE DEF B, v
<1>4. up = B(up) BY <1>3
<1> HIDE DEF up
<1>5. \A n \in 0 .. MaxDepth : up[n] = IF n = 0 THEN {<<>>} ELSE up[n - 1] \cup Longer(up[n - 1])
  <2> SUFFICES ASSUME NEW n \in 0 .. MaxDepth
               PROVE  up[n] = IF n = 0 THEN {<<>>} ELSE up[n - 1] \cup Longer(up[n - 1])
    OBVIOUS
  <2> DEFINE g == B(up)
  <2>1. g[n] = IF n = 0 THEN {<<>>} ELSE up[n - 1] \cup Longer(up[n - 1]) BY <1>2
  <2>2. up = g BY <1>4
  <2> HIDE DEF g
  <2> QED BY <2>1, <2>2
<1> DEFINE T == {n \in Nat : n <= MaxDepth => up[n] = UpTo(n)}
<1>6. 0 \in T
  <2>1. 0 \in 0 .. MaxDepth BY <1>0
  <2>2. up[0] = {<<>>} BY <1>5, <2>1
  <2>3. up[0] = UpTo(0) BY <2>2, LongerPaths
  <2> QED BY <2>3
<1>7. ASSUME NEW n \in Nat, n \in T PROVE n + 1 \in T
  <2> SUFFICES ASSUME n + 1 <= MaxDepth PROVE up[n + 1] = UpTo(n + 1) OBVIOUS
  <2>1. n + 1 \in 0 .. MaxDepth /\ n + 1 # 0 /\ (n + 1) - 1 = n /\ n <= MaxDepth BY <1>0
  <2>2. up[n] = UpTo(n) BY <1>7, <2>1
  <2>3. up[n + 1] = up[(n + 1) - 1] \cup Longer(up[(n + 1) - 1]) BY <1>5, <2>1
  <2>4. up[n + 1] = up[n] \cup Longer(up[n]) BY <2>1, <2>3
  <2> QED BY <2>2, <2>4, LongerPaths
<1>8. Nat \subseteq T
  <2> HIDE DEF T
  <2> QED BY <1>6, <1>7, Inductive
<1>9. up[MaxDepth] = UpTo(MaxDepth) BY <1>0, <1>8
<1>10. ASSUME NEW p \in SourceOf PROVE Len(p) <= MaxDepth
  <2>1. p \in Path /\ (Canon(source.tree, p) # None \/ p \in DOMAIN source.tree)
    BY DEF SourceOf, SourceAt
  <2> QED BY <2>1 DEF DeepEnough
<1> QED BY <1>1, <1>9, <1>10 DEF SourceOf, UpTo

-----------------------------------------------------------------------------
\* A path of the source that was archived is made, and as it should be.
LEMMA PathCopied ==
    ASSUME TypeInv, WalkInv, LastWins, walk = "done", pc = "ok", Fresh, Undisturbed,
           NEW p \in SourceOf, p # <<>>
    PROVE  base \o p \in DOMAIN tree /\ CopyOf(p)
<1>1. /\ source \in Sources /\ base \in Path /\ Covered /\ stack = <<>>
      /\ \A n \in DOMAIN archive : Drawn(n)
  BY DEF WalkInv
<1>2. p \in Path /\ <<>> \in Path BY DEF SourceOf, Path
<1>3. base \o p # <<>> BY <1>1, <1>2 DEF Path
<1> DEFINE T == {n \in DOMAIN archive : archive[n] = EntryOf(p)}
<1>4. PICK m \in T : \A i \in T : i <= m
  <2>1. T # {}
    <3>1. Archived(p) BY <1>1 DEF Covered
    <3> QED BY <1>3, <3>1 DEF Archived
  <2>2. Len(archive) \in Nat /\ T \in SUBSET (1 .. Len(archive)) BY Numbers
  <2> HIDE DEF T
  <2> QED BY <2>1, <2>2, GreatestNumber
<1>5. m \in DOMAIN archive /\ archive[m] = EntryOf(p) OBVIOUS
<1>6. SourceAt(p) \in DOMAIN source.tree /\ source.tree[SourceAt(p)].kind # "socket"
  <2>1. PICK q \in SourceOf :
          /\ SourceAt(q) \in DOMAIN source.tree /\ source.tree[SourceAt(q)].kind # "socket"
          /\ archive[m] = EntryOf(q)
    BY <1>1, <1>5 DEF Drawn
  <2>2. EntryOf(q).path = base \o q BY <1>1, <2>1, EntryFields
  <2>3. EntryOf(p).path = base \o p BY DEF EntryOf, W!Entry
  <2>4. q \in Path BY DEF SourceOf
  <2>5. base \o q = base \o p BY <1>5, <2>1, <2>2, <2>3
  <2>6. q = p BY <1>1, <1>2, <2>4, <2>5, BasePath
  <2> QED BY <2>1, <2>6
<1> DEFINE node == source.tree[SourceAt(p)]
           e == archive[m]
<1>7. /\ e.path = base \o p /\ e.mode = W!ModeOf(node) /\ e.mode # None
      /\ e.kind = "dir" <=> node.kind = "dir"
      /\ e.kind = "file" <=> node.kind \in {"file", "fifo"}
      /\ e.kind = "symlink" <=> node.kind = "symlink"
      /\ e.kind = "symlink" => e.link = node.target /\ node = Symlink(node.target)
  BY <1>1, <1>5, <1>6, EntryFields
<1>8. m \in Made BY <1>5, WalkStraight
<1>9. LastAt(m)
  <2> SUFFICES ASSUME NEW i \in Made, archive[i].path = archive[m].path, i # m
               PROVE  Before(i, m)
    BY DEF LastAt
  <2>1. i \in DOMAIN archive BY DEF Made
  <2>2. archive[i] = EntryOf(p) BY <1>7, <2>1, WalkStraight
  <2>3. i <= m BY <1>4, <2>1, <2>2
  <2>4. i \in Nat /\ m \in Nat BY <1>8, Numbers
  <2>5. i < m BY <2>3, <2>4
  <2> QED BY <1>5, <2>2, <2>5 DEF Before
<1>10. Left(m) BY <1>8, <1>9 DEF LastWins
<1>11. tree[e.path] \in NodeType(Len(disk)) BY <1>10 DEF TypeInv, TypeOK, Left
<1> DEFINE here == tree[base \o p]
<1>12. here = tree[e.path] BY <1>7
<1> HIDE DEF e, node, here
<1>13. CASE node.kind = "symlink"
  <2>1. here = node BY <1>7, <1>10, <1>12, <1>13 DEF Left, e
  <2> QED BY <1>7, <1>10, <1>13, <2>1 DEF Left, CopyOf, e, node, here
<1>14. CASE node.kind = "dir"
  <2> DEFINE bits == {b \in e.mode : b \notin set.mask /\ (b = "s" => set.preserve)}
  <2>1. here.kind = "dir" /\ here.perm = bits
    BY <1>7, <1>10, <1>12, <1>14 DEF Left, AsksFor, DirKinds, e
  <2>2. here = Dir(here.perm) BY <1>11, <1>12, <2>1 DEF NodeType, Dir
  <2>3. bits = {b \in W!ModeOf(node) : b \notin set.mask /\ (b = "s" => set.preserve)}
    BY <1>7
  <2>4. here = Dir({b \in W!ModeOf(node) : b \notin set.mask /\ (b = "s" => set.preserve)})
    BY <2>1, <2>2, <2>3
  <2>5. e.path \in DOMAIN tree BY <1>10 DEF Left, e
  <2> HIDE DEF bits
  <2> QED BY <1>7, <1>14, <2>4, <2>5 DEF CopyOf, node, here
<1>15. CASE node.kind \notin {"dir", "symlink"}
  <2>1. node.kind \in {"file", "fifo"}
    BY <1>1, <1>6, <1>15, SourceSound DEF node
  <2>2. here.kind = "file" BY <1>7, <1>10, <1>12, <2>1 DEF Left, FileLeft, e
  <2>3. e.path \in DOMAIN tree BY <1>10 DEF Left, e
  <2> QED BY <1>7, <1>15, <2>2, <2>3 DEF CopyOf, node, here
<1> QED BY <1>13, <1>14, <1>15

\* A tree that is archived and unpacked into a new directory is copied: its
\* directories, links and files are there, no more and no fewer, and with
\* follow what the links lead to stands in their place.
THEOREM TreeCopiedCorrect ==
    ASSUME DeepEnough
    PROVE  TripSpec => []TreeCopied
<1>1. ASSUME TypeInv, WalkInv, OnlyMade, LastWins PROVE TreeCopied
  <2> SUFFICES ASSUME walk = "done", pc = "ok", Fresh, meddles = 0
               PROVE  /\ DOMAIN tree \ {SubSeq(base, 1, n) : n \in 0 .. Len(base)}
                             = {base \o p : p \in SourceOf} \ {base}
                      /\ \A p \in SourceOf \ {<<>>} : CopyOf(p)
    <3>1. ASSUME walk = "done" PROVE SourcePaths = SourceOf
      BY <1>1, <3>1, SourcePathsAre DEF WalkInv
    <3> QED BY <3>1 DEF TreeCopied
  <2>1. Undisturbed BY <1>1, WalkStraight DEF Undisturbed
  <2>2. /\ source \in Sources /\ base \in Path /\ Len(base) \in Nat
        /\ \A n \in DOMAIN archive : Drawn(n)
    BY <1>1 DEF WalkInv, Path
  <2>3. \A p \in SourceOf \ {<<>>} : base \o p \in DOMAIN tree /\ CopyOf(p)
    BY <1>1, <2>1, PathCopied
  <2> DEFINE above == {SubSeq(base, 1, n) : n \in 0 .. Len(base)}
  <2>4. \A x \in above : Len(x) <= Len(base)
    <3> SUFFICES ASSUME NEW n \in 0 .. Len(base) PROVE Len(SubSeq(base, 1, n)) <= Len(base)
      OBVIOUS
    <3>1. base \in Seq(Names) BY <2>2 DEF Path
    <3> QED BY <2>2, <3>1
  <2>5. <<>> \in above /\ base \in above
    <3>1. base \in Seq(Names) BY <2>2 DEF Path
    <3>2. 0 \in 0 .. Len(base) /\ Len(base) \in 0 .. Len(base) BY <2>2
    <3>3. SubSeq(base, 1, 0) = <<>> /\ SubSeq(base, 1, Len(base)) = base BY <3>1
    <3> QED BY <3>2, <3>3
  <2>6. ASSUME NEW p \in SourceOf, base \o p # base
        PROVE  base \o p \in DOMAIN tree /\ base \o p \notin above
    <3>1. p \in Path BY DEF SourceOf
    <3>2. p # <<>> BY <2>2, <2>6 DEF Path
    <3>3. Len(base \o p) > Len(base) BY <2>2, <3>1, <3>2 DEF Path
    <3>4. Len(base \o p) \in Nat BY <2>2, <3>1 DEF Path
    <3>5. base \o p \in DOMAIN tree BY <2>3, <3>2
    <3> DEFINE y == base \o p
    <3>6. ~(Len(y) <= Len(base)) BY <2>2, <3>3, <3>4
    <3> HIDE DEF above, y
    <3>7. y \notin above BY <2>4, <3>6
    <3> QED BY <3>5, <3>7 DEF y
  <2>7. ASSUME NEW x \in DOMAIN tree, x \notin above
        PROVE  \E p \in SourceOf : x = base \o p
    <3>1. PICK n \in Made : Makes(n, x)
      <4>1. x # <<>> BY <2>5, <2>7
      <4> QED BY <1>1, <2>1, <4>1 DEF OnlyMade
    <3>2. n \in DOMAIN archive BY DEF Made
    <3>3. PICK p \in SourceOf :
            /\ SourceAt(p) \in DOMAIN source.tree /\ source.tree[SourceAt(p)].kind # "socket"
            /\ archive[n] = EntryOf(p)
      BY <2>2, <3>2 DEF Drawn
    <3>4. archive[n].path = base \o p BY <3>3 DEF EntryOf, W!Entry
    <3>5. CASE x = archive[n].path BY <3>4, <3>5
    <3>6. CASE Below(base \o p, x)
      <4>1. x \in Path /\ p \in Path BY <1>1 DEF TypeInv, TypeOK, IsRooted, SourceOf
      <4>2. ~(x = SubSeq(base, 1, Len(x)) /\ Len(x) \in 0 .. Len(base)) BY <2>7
      <4>3. PICK q \in Path : x = base \o q /\ Below(p, q)
        <5> HIDE DEF above
        <5> QED BY <2>2, <3>6, <4>1, <4>2, BaseAbove
      <4>4. q \in SourceOf BY <2>2, <4>3, SourceAbove
      <4> QED BY <4>3, <4>4
    <3> QED BY <3>1, <3>4, <3>5, <3>6 DEF Makes
  <2>8. ASSUME NEW x \in DOMAIN tree, x \notin above PROVE x # base BY <2>5, <2>8
  <2> HIDE DEF above
  <2>9. DOMAIN tree \ above = {base \o p : p \in SourceOf} \ {base} BY <2>6, <2>7, <2>8
  <2> QED BY <2>3, <2>9 DEF above
<1> QED BY <1>1, CopyAlways, LastWinsCorrect, PTL

=============================================================================
