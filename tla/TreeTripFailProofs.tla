------------------------- MODULE TreeTripFailProofs -------------------------
(***************************************************************************)
(* When unpacking fails: over what an earlier call has left it succeeds if *)
(* nothing in the archive forbids it, and in a new directory it fails just *)
(* when something in the archive forbids it.                               *)
(***************************************************************************)
EXTENDS TreeTripLastProofs

-----------------------------------------------------------------------------
(***************************************************************************)
(* AgainSucceeds                                                           *)
(***************************************************************************)

\* Nothing about the archive, the settings or what was there stands in the way.
Hopeful ==
    /\ Fresh /\ Undisturbed /\ set.overwrite
    /\ \A n \in Made :
        /\ archive[n].kind # "hardlink" /\ ~BadLink(n)
        /\ archive[n].kind \in DirKinds /\ archive[n].mode # None =>
                {"w", "x"} \subseteq archive[n].mode \ set.mask
    /\ ~\E n, m \in Made : Clash(n, m)

\* All that is there has been made for the archive, and every directory is open.
Owned ==
    \A p \in DOMAIN tree :
        /\ tree[p].kind = "dir" =>
            /\ {"w", "x"} \subseteq tree[p].perm
            /\ \/ p = <<>>
               \/ \E n \in Made : archive[n].path = p /\ archive[n].kind \in DirKinds
               \/ \E n \in Made : Below(archive[n].path, p)
        /\ tree[p].kind # "dir" =>
            \E n \in Made : archive[n].path = p /\ archive[n].kind \notin DirKinds

\* What the next call needs is there.
Prepared ==
    /\ pc \in EntryStages \ {"parents"} => IsDir(tree, Parent(E.path))
    /\ pc = "chmod" => IsDir(tree, E.path)
    /\ pc \in {"remove", "unlink"} => E.path \in DOMAIN tree /\ tree[E.path].kind # "dir"

\* The inductive invariant for AgainSucceeds, on top of WinsInv.
AgainInv == Hopeful => Owned /\ Prepared /\ pc # "failed"

-----------------------------------------------------------------------------
\* A name in an open directory, where all are, can be made or removed.
LEMMA OpenName ==
    ASSUME TypeInv, Owned, NEW p \in Path, p # <<>>,
           Free(tree, Parent(p)), IsDir(tree, Parent(p))
    PROVE  /\ Place(tree, p) = p /\ Canon(tree, Parent(p)) = Parent(p) /\ p # None
           /\ Reached(tree, Parent(p)) /\ MaySearch(tree, Parent(p))
           /\ MayCreate(tree, p) <=> p \notin DOMAIN tree
           /\ Exists(tree, p) <=> p \in DOMAIN tree
           /\ MayRemove(tree, p) <=> p \in DOMAIN tree /\ tree[p].kind # "dir"
<1>1. \A q : IsDir(tree, q) => MayWrite(tree, q) /\ MaySearch(tree, q)
  BY DEF Owned, IsDir, MayWrite, MaySearch
<1>2. Parent(p) \in DOMAIN tree /\ Parent(p) \in Path BY ParentPath DEF IsDir
<1>3. Reached(tree, Parent(p))
  <2>1. IsRooted(tree) BY DEF TypeInv, TypeOK
  <2> QED BY <1>1, <1>2, <2>1, AboveDir DEF Reached
<1>4. p # None BY TreeAssumption DEF Path
<1>5. Place(tree, p) = p /\ Canon(tree, Parent(p)) = Parent(p)
  BY <1>1, <1>3, PlaceFree, TreeLinked
<1> QED BY <1>1, <1>3, <1>4, <1>5 DEF MayCreate, MayRemove, Exists

\* A directory and something else of one name clash.
LEMMA KindsClash ==
    ASSUME NEW n \in Made, NEW m \in Made, Before(n, m), archive[n].path = archive[m].path,
           archive[n].kind \in DirKinds <=> archive[m].kind \notin DirKinds
    PROVE  Clash(n, m)
<1> DEFINE a == archive[n].kind \in DirKinds
           b == archive[m].kind \in DirKinds
<1>1. {a, b} = {TRUE, FALSE}
  <2>1. CASE a
    <3>1. a = TRUE /\ b = FALSE BY <2>1
    <3> HIDE DEF a, b
    <3> QED BY <3>1
  <2>2. CASE ~a
    <3>1. a = FALSE /\ b = TRUE BY <2>2
    <3> HIDE DEF a, b
    <3> QED BY <3>1
  <2> QED BY <2>1, <2>2
<1> HIDE DEF a, b
<1>2. Clash(n, m) <=> 
         /\ Before(n, m)
         /\ \/ archive[n].path = archive[m].path /\ {a, b} = {TRUE, FALSE}
            \/ archive[n].path = archive[m].path /\ {a, b} = {FALSE} /\ (~set.overwrite \/ archive[m].kind = "hardlink")
            \/ Below(archive[m].path, archive[n].path) /\ archive[n].kind \notin DirKinds
            \/ Below(archive[n].path, archive[m].path) /\ archive[m].kind \notin DirKinds
  BY DEF Clash, a, b
<1> QED BY <1>1, <1>2

\* Made of a hopeful archive is no file on the way to something else, and no
\* file where a directory is.
LEMMA NoFileAbove ==
    ASSUME TypeInv, Hopeful, Owned, NEW n \in Made, NEW p \in DOMAIN tree
    PROVE  /\ Below(archive[n].path, p) => tree[p].kind = "dir"
           /\ p = archive[n].path =>
                (tree[p].kind = "dir" <=> archive[n].kind \in DirKinds)
<1>1. \A m \in Made : ~Clash(n, m) /\ ~Clash(m, n) BY DEF Hopeful
<1>2. \A m \in Made : m \in Nat BY Numbers
<1>3. ASSUME Below(archive[n].path, p), tree[p].kind # "dir" PROVE FALSE
  <2>1. PICK m \in Made : archive[m].path = p /\ archive[m].kind \notin DirKinds
    BY <1>3 DEF Owned
  <2>2. m # n
    <3>1. p \in Path BY TreeLinked
    <3> QED BY <1>3, <2>1, <3>1 DEF Below, Path
  <2>3. Before(n, m) \/ Before(m, n) BY <1>2, <2>2, BeforeOrder
  <2> QED BY <1>1, <1>3, <2>1, <2>3 DEF Clash
<1>4. ASSUME p = archive[n].path, tree[p].kind = "dir", archive[n].kind \notin DirKinds
      PROVE FALSE
  <2>1. p # <<>> BY <1>4 DEF Made
  <2>2. CASE \E m \in Made : archive[m].path = p /\ archive[m].kind \in DirKinds
    <3>1. PICK m \in Made : archive[m].path = p /\ archive[m].kind \in DirKinds BY <2>2
    <3>2. Before(n, m) \/ Before(m, n) BY <1>2, <1>4, <3>1, BeforeOrder
    <3> QED BY <1>1, <1>4, <3>1, <3>2, KindsClash
  <2>3. CASE \E m \in Made : Below(archive[m].path, p)
    <3>1. PICK m \in Made : Below(archive[m].path, p) BY <2>3
    <3>2. m # n
      <4>1. p \in Path BY TreeLinked
      <4> QED BY <1>4, <3>1, <4>1 DEF Below, Path
    <3>3. Before(n, m) \/ Before(m, n) BY <1>2, <3>2, BeforeOrder
    <3> QED BY <1>1, <1>4, <3>1, <3>3 DEF Clash
  <2> QED BY <1>4, <2>1, <2>2, <2>3 DEF Owned
<1>5. ASSUME p = archive[n].path, tree[p].kind # "dir", archive[n].kind \in DirKinds
      PROVE FALSE
  <2>1. PICK m \in Made : archive[m].path = p /\ archive[m].kind \notin DirKinds
    BY <1>5 DEF Owned
  <2>2. Before(n, m) \/ Before(m, n) BY <1>2, <1>5, <2>1, BeforeOrder
  <2> QED BY <1>1, <1>5, <2>1, <2>2, KindsClash
<1> QED BY <1>3, <1>4, <1>5

\* The entry being unpacked.
LEMMA EntryNow ==
    ASSUME TypeInv, LostInv, Straight, pc \in EntryStages
    PROVE  /\ Direct /\ E \in EntryType
           /\ E.path \in Path /\ E.path # <<>> /\ E.path # None /\ Free(tree, Parent(E.path))
           /\ cur \in Made \/ (E.kind = "meta" /\ Len(E.path) = 1)
           /\ pc # "parents" => cur \in Made
           /\ Len(E.path) \in Nat
<1>1. Direct BY DEF Straight
<1>2. E \in EntryType /\ E.path \in Path /\ E.path # <<>> /\ cur \in DOMAIN archive
  BY EntryType1 DEF TypeInv, TypeOK
<1>3. E.path # None /\ Len(E.path) \in Nat BY <1>2, TreeAssumption DEF Path
<1>4. Free(tree, Parent(E.path)) BY <1>1, DirectPlace DEF LostInv
<1>5. cur \in Made \/ E.kind = "meta" BY <1>2, <1>3 DEF Made, E
<1>6. E.kind = "meta" => Len(E.path) = 1 BY <1>1, <1>2 DEF Straight, E
<1>7. pc # "parents" => E.kind # "meta" BY DEF LostInv, Kinds, EntryStages, DirKinds
<1> QED BY <1>1, <1>2, <1>3, <1>4, <1>5, <1>6, <1>7

\* What is known of the entry being unpacked.
LEMMA CurrentEntry ==
    ASSUME TypeInv, LostInv, Hopeful, pc \in EntryStages
    PROVE  /\ Straight /\ Direct /\ E \in EntryType
           /\ E.path \in Path /\ E.path # <<>> /\ E.path # None /\ Free(tree, Parent(E.path))
           /\ cur \in Made \/ (E.kind = "meta" /\ Len(E.path) = 1)
           /\ pc # "parents" => cur \in Made
           /\ Len(E.path) \in Nat
<1>1. Straight BY DEF Hopeful, Undisturbed
<1> QED BY <1>1, EntryNow

\* A path that has a proper prefix is longer than one name.
LEMMA NotOne ==
    ASSUME NEW l \in Nat, NEW n \in 1 .. l - 1
    PROVE  l # 1
OBVIOUS

\* The destination is a directory.
LEMMA RootOpen ==
    ASSUME TypeInv, Owned
    PROVE  IsDir(tree, <<>>)
<1>1. <<>> \in DOMAIN tree BY TreeLinked
<1>2. \A n \in Made : archive[n].path # <<>> BY DEF Made
<1> QED BY <1>1, <1>2 DEF Owned, IsDir

\* What is not missing above its path is a directory.
LEMMA ThereAbove ==
    ASSUME TypeInv, LostInv, Hopeful, Owned, pc \in EntryStages,
           NEW n \in 1 .. Len(E.path) - 1, n \notin Missing(E.path)
    PROVE  IsDir(tree, SubSeq(E.path, 1, n))
<1> DEFINE r == SubSeq(E.path, 1, n)
<1>0. Len(E.path) # 1
  <2>1. Len(E.path) \in Nat BY CurrentEntry
  <2> QED BY <2>1, NotOne
<1>1. /\ E.path \in Path /\ E.path # <<>> /\ Free(tree, Parent(E.path)) /\ Len(E.path) \in Nat
      /\ cur \in Made
  BY <1>0, CurrentEntry
<1>2. r \in Path /\ r # <<>> /\ Below(E.path, r) BY <1>1, PrefixPath
<1>3. Exists(tree, r) BY DEF Missing
<1> HIDE DEF r
<1>4. Free(tree, Parent(r)) BY <1>1, <1>2, FreeAbove, TreeLinked
<1>5. r \in DOMAIN tree BY <1>2, <1>3, <1>4, PlaceFree, TreeLinked DEF Exists
<1>6. tree[r].kind = "dir" BY <1>1, <1>2, <1>5, NoFileAbove DEF E
<1> QED BY <1>5, <1>6 DEF IsDir, r

\* Something new, or other bits.
LEMMA OwnedWith ==
    ASSUME Owned, UNCHANGED archive, NEW p, NEW node, tree' = With(tree, p, node),
           node.kind = "dir" =>
            /\ {"w", "x"} \subseteq node.perm
            /\ \/ p = <<>>
               \/ \E n \in Made : archive[n].path = p /\ archive[n].kind \in DirKinds
               \/ \E n \in Made : Below(archive[n].path, p),
           node.kind # "dir" =>
            \E n \in Made : archive[n].path = p /\ archive[n].kind \notin DirKinds
    PROVE  Owned'
<1>1. Made' = Made /\ DirKinds' = DirKinds BY DEF Made, DirKinds
<1>2. DOMAIN tree' = DOMAIN tree \cup {p} /\ tree'[p] = node
      /\ \A q \in DOMAIN tree : q # p => tree'[q] = tree[q]
  BY DEF With
<1> SUFFICES ASSUME NEW q \in DOMAIN tree'
             PROVE  /\ tree'[q].kind = "dir" =>
                        /\ {"w", "x"} \subseteq tree'[q].perm
                        /\ \/ q = <<>>
                           \/ \E n \in Made : archive[n].path = q /\ archive[n].kind \in DirKinds
                           \/ \E n \in Made : Below(archive[n].path, q)
                    /\ tree'[q].kind # "dir" =>
                        \E n \in Made : archive[n].path = q /\ archive[n].kind \notin DirKinds
  BY <1>1 DEF Owned
<1>3. CASE q = p BY <1>2, <1>3
<1>4. CASE q # p BY <1>2, <1>4 DEF Owned
<1> QED BY <1>3, <1>4

\* Removing keeps Owned.
LEMMA OwnedLess ==
    ASSUME Owned, UNCHANGED archive, NEW p, tree' = Without(tree, p) \/ tree' = tree
    PROVE  Owned'
<1>1. Made' = Made /\ DirKinds' = DirKinds BY DEF Made, DirKinds
<1>2. \A q \in DOMAIN tree' : q \in DOMAIN tree /\ tree'[q] = tree[q] BY DEF Without
<1> QED BY <1>1, <1>2 DEF Owned

\* A step of an entry keeps AgainInv, and does not fail.
LEMMA AgainEntry ==
    ASSUME TypeInv, LostInv, WinsInv, Hopeful, Owned, Prepared, EntryStep
    PROVE  Owned' /\ Prepared' /\ pc' # "failed"
<1> DEFINE P == Parent(E.path)
<1>1. UNCHANGED <<archive, set, first, meddles, cur>> /\ E' = E /\ pc \in EntryStages
  BY EntryKeeps
<1>2. /\ Straight /\ Direct /\ E \in EntryType
      /\ E.path \in Path /\ E.path # <<>> /\ E.path # None /\ Free(tree, P)
      /\ cur \in Made \/ (E.kind = "meta" /\ Len(E.path) = 1)
      /\ pc # "parents" => cur \in Made
      /\ Len(E.path) \in Nat
  BY <1>1, CurrentEntry
<1>3. P # E.path /\ P \in Path
  <2>1. ~Below(E.path, E.path) /\ Below(E.path, P) BY <1>2, ParentPath, BelowParent
  <2> QED BY <1>2, <2>1, ParentPath
<1>4. ASSUME IsDir(tree, P)
      PROVE  /\ Place(tree, E.path) = E.path /\ Canon(tree, P) = P
             /\ Reached(tree, P) /\ MaySearch(tree, P)
             /\ MayCreate(tree, E.path) <=> E.path \notin DOMAIN tree
             /\ Exists(tree, E.path) <=> E.path \in DOMAIN tree
             /\ MayRemove(tree, E.path) <=> E.path \in DOMAIN tree /\ tree[E.path].kind # "dir"
  BY <1>2, <1>4, OpenName
<1>22. ASSUME IsDir(tree, P), E.path \in DOMAIN tree, tree[E.path].kind # "symlink"
       PROVE  Canon(tree, E.path) = E.path
  <2>1. ASSUME NEW q \in DOMAIN tree, Below(E.path, q) PROVE tree[q].kind # "symlink"
    <3>1. q \in Path BY TreeLinked
    <3> QED BY <1>2, <2>1, <3>1, BelowParent DEF Free
  <2>2. Free(tree, E.path) BY <1>22, <2>1 DEF Free
  <2>3. Reached(tree, P) /\ MaySearch(tree, P) BY <1>4, <1>22
  <2>4. Reached(tree, E.path) BY <1>2, <1>22, <2>3, BelowParent DEF Reached
  <2> QED BY <1>2, <2>2, <2>4, FreeCanon, TreeLinked
<1>5. cur \in Made /\ E.path \in DOMAIN tree =>
        (tree[E.path].kind = "dir" <=> E.kind \in DirKinds)
  BY NoFileAbove DEF E
<1>6. pc # "parents" => IsDir(tree, P) BY <1>1 DEF Prepared
<1>7. ASSUME NEW p, NEW node, tree' = With(tree, p, node), IsDir(tree, P), P # p
      PROVE  IsDir(tree', P)
  BY <1>7 DEF With, IsDir
<1>8. CASE MakeParent
  <2> DEFINE M == Missing(E.path)
             n == CHOOSE n \in M : \A m \in M : n <= m
             q == SubSeq(E.path, 1, n)
  <2>1. M \in SUBSET (1 .. Len(E.path) - 1) /\ M # {} /\ pc = "parents" BY <1>8 DEF Missing, MakeParent
  <2>2. n \in M /\ \A m \in M : n <= m
    <3> HIDE DEF M
    <3>1. M \in SUBSET Nat BY <1>2, <2>1
    <3>2. \E i \in M : \A m \in M : i <= m BY <2>1, <3>1, LeastNumber
    <3> QED BY <3>2
  <2>3. n \in 1 .. Len(E.path) - 1 /\ ~Exists(tree, q) BY <2>1, <2>2 DEF Missing
  <2>4. cur \in Made
    <3> HIDE DEF n
    <3>0. n \in 1 .. Len(E.path) - 1 /\ Len(E.path) \in Nat BY <1>2, <2>3
    <3>1. Len(E.path) # 1 BY <3>0, NotOne
    <3> QED BY <1>2, <3>1
  <2>5. IF MayCreate(tree, q) THEN Make(q, NewDir) /\ pc' = "parents" ELSE Fail
    BY <1>8 DEF MakeParent, Go
  <2>6. \A m \in M : n <= m BY <2>2
  <2>7. n - 1 \notin M
    <3> HIDE DEF n, M
    <3> QED BY <1>2, <2>3, <2>6
  <2> HIDE DEF n, M
  <2>8. /\ q \in Path /\ q # <<>> /\ Below(E.path, q)
        /\ n = 1 => Parent(q) = <<>>
        /\ n # 1 => Parent(q) = SubSeq(E.path, 1, n - 1) /\ n - 1 \in 1 .. Len(E.path) - 1
    BY <1>2, <2>3, PrefixPath
  <2> HIDE DEF q
  <2>9. IsDir(tree, Parent(q))
    <3>1. CASE n = 1 BY <2>8, <3>1, RootOpen
    <3>2. CASE n # 1 BY <1>1, <2>7, <2>8, <3>2, ThereAbove DEF M
    <3> QED BY <3>1, <3>2
  <2>10. Free(tree, Parent(q)) BY <1>2, <2>8, FreeAbove, TreeLinked
  <2>11. MayCreate(tree, q) /\ Place(tree, q) = q BY <2>3, <2>8, <2>9, <2>10, OpenName
  <2>12. tree' = With(tree, q, NewDir) /\ pc' = "parents" BY <2>5, <2>11 DEF Make
  <2>13. Owned'
    <3>1. NewDir.kind = "dir" /\ NewDir.perm = {"w", "x"} BY DEF NewDir, Dir
    <3>2. \E i \in Made : Below(archive[i].path, q) BY <2>4, <2>8 DEF E
    <3> QED BY <1>1, <2>12, <3>1, <3>2, OwnedWith
  <2> QED BY <2>12, <2>13 DEF Prepared
<1>9. CASE Validate
  <2>1. pc = "parents" /\ Missing(E.path) = {} /\ tree' = tree
        /\ pc' = IF Canon(tree, P) = None THEN "failed" ELSE FirstCall(E.kind)
    BY <1>9 DEF Validate, Go
  <2>2. IsDir(tree, P)
    <3>1. CASE Len(E.path) = 1
      <4>1. Len(P) = 0 BY <1>2, <3>1, ParentPath
      <4>2. P = <<>> BY <1>3, <4>1 DEF Path
      <4> QED BY <4>2, RootOpen
    <3>2. CASE Len(E.path) # 1
      <4>1. Len(E.path) - 1 \in 1 .. Len(E.path) - 1
        <5>1. Len(E.path) # 0 /\ Len(E.path) \in Nat BY <1>2 DEF Path
        <5> DEFINE l == Len(E.path)
        <5>2. l \in Nat /\ l # 0 /\ l # 1 BY <3>2, <5>1
        <5> HIDE DEF l
        <5>3. l - 1 \in 1 .. l - 1 BY <5>2
        <5> QED BY <5>3 DEF l
      <4>2. IsDir(tree, SubSeq(E.path, 1, Len(E.path) - 1)) BY <1>1, <2>1, <4>1, ThereAbove
      <4> QED BY <4>2 DEF Parent
    <3> QED BY <3>1, <3>2
  <2>3. Canon(tree, P) # None BY <1>3, <1>4, <2>2, TreeAssumption DEF Path
  <2>4. pc' \in {"mkdir", "symlink", "hardlink", "next", "open"} BY <1>2, <2>1, <2>3, FirstCalls
  <2>5. Owned' BY <1>1, <2>1, OwnedLess
  <2> QED BY <1>1, <2>1, <2>2, <2>4, <2>5 DEF Prepared
<1>10. CASE pc = "mkdir"
  <2>1. E.kind \in DirKinds /\ cur \in Made BY <1>2, <1>10 DEF LostInv, Kinds
  <2>2. MakeDir BY <1>10, StepOf
  <2>3. CASE E.path \in DOMAIN tree
    <3>1. IsDir(tree, E.path) BY <1>5, <2>1, <2>3 DEF IsDir
    <3>2. Canon(tree, E.path) = E.path BY <1>6, <1>10, <1>22, <2>3, <3>1 DEF IsDir
    <3>3. ~MayCreate(tree, E.path) /\ Exists(tree, E.path) BY <1>4, <1>6, <1>10, <2>3
    <3>4. DenotesDir(tree, E.path) BY <3>1, <3>2 DEF DenotesDir
    <3>5. tree' = tree /\ pc' = AfterDir BY <2>2, <3>3, <3>4 DEF MakeDir, Go
    <3>6. Owned' BY <1>1, <3>5, OwnedLess
    <3> QED BY <1>1, <1>6, <1>10, <3>1, <3>5, <3>6 DEF Prepared, AfterDir, EntryStages
  <2>4. CASE E.path \notin DOMAIN tree
    <3>1. MayCreate(tree, E.path) /\ Place(tree, E.path) = E.path BY <1>4, <1>6, <1>10, <2>4
    <3>2. tree' = With(tree, E.path, NewDir) /\ pc' = AfterDir BY <2>2, <3>1 DEF MakeDir, Make, Go
    <3>3. NewDir.kind = "dir" /\ NewDir.perm = {"w", "x"} BY DEF NewDir, Dir
    <3>4. Owned' BY <1>1, <2>1, <3>2, <3>3, OwnedWith DEF E
    <3>5. IsDir(tree', E.path) BY <3>2, <3>3 DEF With, IsDir
    <3>6. IsDir(tree', P) BY <1>3, <1>6, <1>7, <1>10, <3>2
    <3> QED BY <1>1, <3>2, <3>4, <3>5, <3>6 DEF Prepared, AfterDir, EntryStages
  <2> QED BY <2>3, <2>4
<1>11. CASE pc = "chmod"
  <2>1. E.kind \in DirKinds /\ cur \in Made /\ E.mode # None
    BY <1>2, <1>11 DEF LostInv, Kinds, TypeInv, Staged
  <2>2. SetDirPerms BY <1>11, StepOf
  <2>3. IsDir(tree, E.path) BY <1>11 DEF Prepared
  <2>4. Canon(tree, E.path) = E.path BY <1>6, <1>11, <1>22, <2>3 DEF IsDir
  <2>5. tree' = With(tree, E.path, Dir(Perms(E))) /\ pc' = "next"
    BY <2>2, <2>3, <2>4, TreeLinked DEF SetDirPerms, IsDir, Go
  <2>6. {"w", "x"} \subseteq Perms(E)
    <3>1. {"w", "x"} \subseteq E.mode \ set.mask BY <2>1 DEF Hopeful, E
    <3> QED BY <3>1 DEF Perms
  <2>7. Dir(Perms(E)).kind = "dir" /\ Dir(Perms(E)).perm = Perms(E) BY DEF Dir
  <2>8. Owned' BY <1>1, <2>1, <2>5, <2>6, <2>7, OwnedWith DEF E
  <2> QED BY <2>5, <2>8 DEF Prepared, EntryStages
<1>12. ASSUME NEW node, MayCreate(tree, E.path), Make(E.path, node), node.kind # "dir",
              pc # "parents", E.kind \notin DirKinds,
              pc' \in {"copy", "lutimes", "next"}
       PROVE  Owned' /\ Prepared' /\ pc' # "failed"
  <2>1. tree' = With(tree, E.path, node) BY <1>4, <1>6, <1>12 DEF Make
  <2>2. Owned' BY <1>1, <1>2, <1>12, <2>1, OwnedWith DEF E
  <2>3. IsDir(tree', P) BY <1>3, <1>6, <1>7, <1>12, <2>1
  <2> QED BY <1>1, <1>12, <2>2, <2>3 DEF Prepared
<1>13. ASSUME tree' = tree, pc # "parents", pc' \notin {"failed", "remove", "unlink", "chmod"}
       PROVE  Owned' /\ Prepared' /\ pc' # "failed"
  <2>1. Owned' BY <1>1, <1>13, OwnedLess
  <2> QED BY <1>1, <1>6, <1>13, <2>1 DEF Prepared
<1>14. CASE pc \in {"open", "reopen"}
  <2>1. E.kind = "file" BY <1>14 DEF LostInv, Kinds
  <2>2. CASE CreateNew
    <3>1. MayCreate(tree, E.path) /\ Make(E.path, File(Len(disk) + 1)) /\ pc' = "copy"
      BY <2>2 DEF CreateNew, Go
    <3>2. File(Len(disk) + 1).kind = "file" BY DEF File
    <3> QED BY <1>12, <1>14, <2>1, <3>1, <3>2 DEF DirKinds
  <2>3. CASE ~MayCreate(tree, E.path) /\ pc = "open"
    <3>1. E.path \in DOMAIN tree /\ Exists(tree, E.path) BY <1>4, <1>6, <1>14, <2>3
    <3>2. set.overwrite BY DEF Hopeful
    <3>3. tree' = tree /\ pc' = "remove"
      BY <2>3, <3>1, <3>2, StepOf DEF Open, CreateNew, Go
    <3>4. tree[E.path].kind # "dir" BY <1>2, <1>5, <1>14, <2>1, <3>1 DEF DirKinds
    <3>5. Owned' BY <1>1, <3>3, OwnedLess
    <3> QED BY <1>1, <1>6, <1>14, <3>1, <3>3, <3>4, <3>5 DEF Prepared
  <2>4. pc = "reopen" => MayCreate(tree, E.path)
    BY <1>2 DEF Hopeful, Undisturbed, LostInv, Ready
  <2> QED BY <1>14, <2>2, <2>3, <2>4, StepOf DEF Open, Reopen
<1>15. CASE pc \in {"remove", "unlink"}
  <2>1. MayRemove(tree, E.path) /\ Place(tree, E.path) = E.path
    BY <1>4, <1>6, <1>15 DEF Prepared
  <2>2. tree' = Without(tree, E.path) /\ pc' \in {"reopen", "relink"}
    BY <1>15, <2>1, StepOf DEF Remove, Unlink, Go
  <2>3. Owned' BY <1>1, <2>2, OwnedLess
  <2>4. IsDir(tree', P) BY <1>3, <1>6, <1>15, <2>2 DEF Without, IsDir
  <2> QED BY <1>1, <2>2, <2>3, <2>4 DEF Prepared
<1>16. CASE pc \in {"copy", "fchmod"}
  <2>1. tree' = tree /\ pc' \in {"utimes", "fchmod", "next"}
    BY <1>16, StepOf DEF Copy, SetFilePerms, Go, AfterFile
  <2> QED BY <1>13, <1>16, <2>1
<1>17. CASE pc = "utimes"
  <2>1. E.path \in DOMAIN tree /\ tree[E.path] = File(f)
    BY <1>17 DEF WinsInv, Stages, Hopeful
  <2>2. Canon(tree, E.path) = E.path BY <1>6, <1>17, <1>22, <2>1 DEF File
  <2>3. tree' = tree /\ pc' = "fchmod" BY <1>2, <1>17, <2>2, StepOf DEF SetTimes, Go
  <2> QED BY <1>13, <1>17, <2>3
<1>18. CASE pc \in {"symlink", "relink"}
  <2>1. E.kind = "symlink" BY <1>18 DEF LostInv, Kinds
  <2>2. E.link \notin {None, <<>>} BY <1>2, <1>18, <2>1 DEF Hopeful, BadLink, E
  <2>3. Symlink(E.link).kind = "symlink" BY DEF Symlink
  <2>4. CASE MayCreate(tree, E.path)
    <3>1. Make(E.path, Symlink(E.link)) /\ pc' \in {"lutimes", "next"}
      BY <1>18, <2>2, <2>4, StepOf DEF SymLink, Relink, Go, AfterLink
    <3> QED BY <1>12, <1>18, <2>1, <2>3, <2>4, <3>1 DEF DirKinds
  <2>5. CASE ~MayCreate(tree, E.path) /\ pc = "symlink"
    <3>1. E.path \in DOMAIN tree /\ Exists(tree, E.path) BY <1>4, <1>6, <1>18, <2>5
    <3>2. set.overwrite BY DEF Hopeful
    <3>3. tree' = tree /\ pc' = "unlink"
      BY <2>2, <2>5, <3>1, <3>2, StepOf DEF SymLink, Go
    <3>4. tree[E.path].kind # "dir" BY <1>2, <1>5, <1>18, <2>1, <3>1 DEF DirKinds
    <3>5. Owned' BY <1>1, <3>3, OwnedLess
    <3> QED BY <1>1, <1>6, <1>18, <3>1, <3>3, <3>4, <3>5 DEF Prepared
  <2>6. pc = "relink" => MayCreate(tree, E.path)
    BY <1>2 DEF Hopeful, Undisturbed, LostInv, Ready
  <2> QED BY <1>18, <2>4, <2>5, <2>6
<1>19. CASE pc = "lutimes"
  <2>1. E.path \in DOMAIN tree BY <1>19 DEF WinsInv, Stages, Hopeful
  <2>2. Exists(tree, E.path) BY <1>4, <1>6, <1>19, <2>1
  <2>3. tree' = tree /\ pc' = "next" BY <1>19, <2>2, StepOf DEF SetLinkTimes, Go
  <2> QED BY <1>13, <1>19, <2>3
<1>20. pc # "hardlink"
  <2>1. pc = "hardlink" => E.kind = "hardlink" /\ cur \in Made BY <1>2 DEF LostInv, Kinds
  <2> QED BY <2>1 DEF Hopeful, E
<1>21. pc = "parents" => MakeParent \/ Validate BY StepOf
<1> QED BY <1>1, <1>8, <1>9, <1>10, <1>11, <1>14, <1>15, <1>16, <1>17, <1>18, <1>19, <1>20, <1>21
       DEF EntryStages

\* Hopeful depends on the archive, the settings, what was there first and meddling.
LEMMA SameHopeful ==
    ASSUME UNCHANGED <<archive, set, first, meddles>>
    PROVE  Hopeful' = Hopeful
<1>1. Made' = Made /\ DirKinds' = DirKinds BY DEF Made, DirKinds
<1>2. Fresh' = Fresh /\ Undisturbed' = Undisturbed BY SameUndisturbed DEF Fresh, NewDir, Dir
<1>3. \A n, m : Before(n, m)' <=> Before(n, m) BY DEF Before
<1>4. \A n, m : Clash(n, m)' <=> Clash(n, m)
  <2> SUFFICES ASSUME NEW n, NEW m PROVE Clash(n, m)' <=> Clash(n, m) OBVIOUS
  <2> QED BY <1>1, <1>3 DEF Clash
<1>5. \A n, m : LinkedTo(n, m)' <=> LinkedTo(n, m) BY <1>1, <1>3 DEF LinkedTo
<1>6. \A n : BadLink(n)' <=> BadLink(n) BY <1>1, <1>5 DEF BadLink
<1> QED BY <1>1, <1>2, <1>4, <1>6 DEF Hopeful

\* In a new directory there is nothing to stand in the way.
LEMMA FreshOwned ==
    ASSUME Fresh, tree = first
    PROVE  Owned
<1>1. DOMAIN tree = {<<>>} /\ tree[<<>>] = NewDir BY DEF Fresh
<1>2. NewDir.kind = "dir" /\ NewDir.perm = {"w", "x"} BY DEF NewDir, Dir
<1> QED BY <1>1, <1>2 DEF Owned

\* AgainInv holds at first.
LEMMA AgainInit == TripInit => AgainInv
<1> SUFFICES ASSUME TripInit, Fresh PROVE Owned /\ Prepared /\ pc # "failed"
  BY DEF AgainInv, Hopeful
<1>1. tree = first /\ pc \in {"next", "waits"} BY DEF TripInit, InitUnpack
<1>2. Owned BY <1>1, FreshOwned
<1> QED BY <1>1, <1>2 DEF Prepared, EntryStages

\* Every step keeps AgainInv.
LEMMA AgainStep ==
    ASSUME TypeInv, LostInv, WinsInv, AgainInv, [TripNext]_tripVars
    PROVE  AgainInv'
<1>1. CASE UNCHANGED tripVars
  <2>1. UNCHANGED <<archive, set, first, meddles, tree, pc, cur>>
    BY <1>1 DEF tripVars, vars, fixed, counts
  <2>2. E' = E /\ Hopeful' = Hopeful BY <2>1, SameHopeful DEF E
  <2>3. Owned => Owned' BY <2>1, OwnedLess
  <2>4. Prepared => Prepared' BY <2>1, <2>2 DEF Prepared, IsDir, EntryStages
  <2> QED BY <2>1, <2>2, <2>3, <2>4 DEF AgainInv
<1>2. CASE WalkStep
  <2>1. pc' \in {"waits", "next"} BY <1>2, WalkLoses DEF LostInv
  <2>2. UNCHANGED <<first, tree>> /\ tree = first
    BY <1>2 DEF LostInv, Counting, WalkStep, W!WalkNext, W!WalkDir, W!WalkLink, W!WalkFile, W!WalkDone
  <2>3. Prepared' BY <2>1 DEF Prepared, EntryStages
  <2>4. Fresh' => Owned'
    <3> SUFFICES ASSUME Fresh' PROVE Owned' OBVIOUS
    <3>1. NewDir' = NewDir BY DEF NewDir, Dir
    <3>2. DOMAIN tree' = {<<>>} /\ tree'[<<>>] = NewDir BY <2>2, <3>1 DEF Fresh
    <3>3. NewDir.kind = "dir" /\ NewDir.perm = {"w", "x"} BY DEF NewDir, Dir
    <3> QED BY <3>2, <3>3 DEF Owned
  <2> QED BY <2>1, <2>3, <2>4 DEF AgainInv, Hopeful
<1>3. CASE PutOff \/ NextEntry \/ NextDirectory \/ Unpacked \/ Again \/ CutShort
  <2>1. UNCHANGED <<archive, set, first, meddles, tree>> /\ pc' \in {"next", "parents", "ok", "cut"}
    <3>1. CASE CutShort BY <1>3, <3>1 DEF CutShort, fixed
    <3>2. CASE ~CutShort BY <1>3, <3>2, Bookkeeping
    <3> QED BY <3>1, <3>2
  <2>2. Hopeful' = Hopeful /\ (Owned => Owned') BY <2>1, SameHopeful, OwnedLess
  <2>3. Prepared' BY <2>1 DEF Prepared, EntryStages
  <2> QED BY <2>1, <2>2, <2>3 DEF AgainInv
<1>4. CASE Meddle
  <2>1. meddles' # 0 BY <1>4 DEF Meddle, LostInv, Counting
  <2> QED BY <2>1 DEF AgainInv, Hopeful, Undisturbed
<1>5. CASE EntryStep
  <2>1. Hopeful' = Hopeful BY <1>5, EntryKeeps, SameHopeful
  <2> QED BY <1>5, <2>1, AgainEntry DEF AgainInv
<1> QED BY <1>1, <1>2, <1>3, <1>4, <1>5 DEF TripNext, UnpackStep, UnpackNext

\* AgainInv always holds.
LEMMA AgainAlways == TripSpec => []AgainInv
<1>1. TypeInv /\ LostInv /\ WinsInv /\ AgainInv /\ [TripNext]_tripVars => AgainInv'
  BY AgainStep
<1> QED BY AgainInit, WinsAlways, <1>1, PTL DEF TripSpec

\* Over what an earlier call has left, whole or cut short, unpacking with
\* overwrite does not fail, if no two entries clash, no link is bad and every
\* directory may be written.
THEOREM AgainSucceedsCorrect == TripSpec => []AgainSucceeds
<1>1. AgainInv => AgainSucceeds BY DEF AgainInv, AgainSucceeds, Hopeful
<1> QED BY <1>1, AgainAlways, PTL

-----------------------------------------------------------------------------
(***************************************************************************)
(* FailsWhenItMust                                                         *)
(***************************************************************************)

\* The first call, in a new directory, that nothing disturbs.
Fair == Fresh /\ attempts = 1 /\ Undisturbed

\* Entry m cannot be unpacked.
Bad(m) == BadLink(m) \/ \E n \in Made : Clash(n, m) \/ Closed(n, m)

\* The entries that have been unpacked.
Past == {n \in Made : Completed(n)}

\* What they have made is there, but for a file that is being replaced.
Present ==
    \A n \in Past :
        \/ /\ archive[n].path \in DOMAIN tree
           /\ tree[archive[n].path].kind = "dir" <=> archive[n].kind \in DirKinds
        \/ archive[n].path \in Pending /\ archive[n].kind \notin DirKinds

\* What is there they have made, or the entry being unpacked has.
Whose ==
    \A p \in DOMAIN tree :
        \/ p = <<>>
        \/ \E n \in Past : Makes(n, p)
        \/ /\ pc \in EntryStages /\ cur \in Made /\ MayWrite(tree, Parent(p))
           /\ \/ p = E.path /\ pc \in {"chmod", "copy", "utimes", "fchmod", "lutimes"}
              \/ Below(E.path, p) /\ tree[p].kind = "dir"

\* Entry n is the last of them that gave its directory bits, and x is not one.
Shuts(n, x) ==
    /\ archive[n].kind \in DirKinds /\ archive[n].mode # None
    /\ x \notin archive[n].mode \ set.mask
    /\ \A i \in Past : archive[i].path = archive[n].path /\ archive[i].mode # None =>
            i = n \/ Before(i, n)

\* A directory lacks a bit just when one of them has taken it.
Bits ==
    \A p \in DOMAIN tree : tree[p].kind = "dir" =>
        \A x \in {"w", "x"} :
            x \notin tree[p].perm <=> \E n \in Past : archive[n].path = p /\ Shuts(n, x)

\* How far the entry being unpacked has come.
Reaching ==
    LET P == Parent(E.path)
    IN  /\ pc \in EntryStages \ {"parents"} => Reached(tree, P)
        /\ pc \in EntryStages \ {"parents", "mkdir", "open", "symlink", "hardlink"} =>
                MaySearch(tree, P)
        /\ pc \in {"copy", "utimes", "fchmod", "lutimes"} => MayWrite(tree, P)
        /\ pc = "chmod" => IsDir(tree, E.path)
        /\ pc \in {"remove", "unlink"} => E.path \in DOMAIN tree
        /\ pc \in {"remove", "unlink", "reopen", "relink", "copy", "utimes", "fchmod", "lutimes"} =>
                set.overwrite \/ \A n \in Past : archive[n].path # E.path
        /\ pc = "lutimes" => E.link \notin {None, <<>>}

\* None of what has been unpacked could not be.
Sofar == \A m \in Past : ~Bad(m)

\* What holds as long as unpacking has not failed.
Going == IsDir(tree, <<>>) /\ Sofar /\ Present /\ Whose /\ Bits /\ Reaching

\* The inductive invariant for FailsWhenItMust, on top of WinsInv.
FailInv ==
    Fair =>
        /\ pc = "failed" => \E m \in Made : Bad(m)
        /\ pc \notin {"failed", "cut"} => Going

-----------------------------------------------------------------------------
\* Past are those before the entry being unpacked.
LEMMA PastBefore ==
    ASSUME TypeInv, Queue, pc \in EntryStages, NEW n \in Made
    PROVE  n \in Past <=> Before(n, cur)
<1>1. /\ Len(archive) \in Nat /\ k \in 0 .. Len(archive) /\ cur \in 0 .. Len(archive)
      /\ n \in 1 .. Len(archive) /\ n # 0
  BY Numbers
<1>2. cur # 0 BY DEF TypeInv, Staged
<1>3. n \in Past => Before(n, cur) BY TouchedBefore DEF Past, Completed
<1>4. ASSUME Before(n, cur) PROVE n \in Past
  <2>1. n # cur BY <1>1, <1>4, BeforeOrder
  <2>2. IsLate(cur) => k = Len(archive) BY DEF Queue
  <2>3. ~IsLate(cur) => cur = k BY DEF Queue
  <2>4. Touched(n)
    <3>1. CASE IsLate(cur) BY <1>1, <1>2, <1>4, <2>2, <3>1 DEF Touched, IsLate, Before
    <3>2. CASE ~IsLate(cur) BY <1>1, <1>2, <1>4, <2>3, <3>2 DEF Touched, IsLate, Before
    <3> QED BY <3>1, <3>2
  <2> QED BY <2>1, <2>4 DEF Past, Completed
<1> QED BY <1>3, <1>4

\* Going on to the next entry unpacks none.
LEMMA PastStays ==
    ASSUME TypeInv, Queue, PutOff \/ NextEntry \/ NextDirectory \/ Unpacked
    PROVE  Past' = Past
<1> DEFINE l == Len(archive)
<1>1. pc = "next" /\ archive' = archive
  BY DEF PutOff, NextEntry, NextDirectory, Unpacked, Start, Go, fixed
<1>2. Made' = Made BY <1>1 DEF Made
<1>3. CASE Unpacked
  <2>1. pc' = "ok" /\ k' = k /\ cur' = cur BY <1>3 DEF Unpacked, Go
  <2> QED BY <1>1, <1>2, <2>1 DEF Past, Completed, Touched, IsLate, EntryStages
<1>4. ASSUME PutOff \/ NextEntry \/ NextDirectory, NEW n \in Made
      PROVE  Completed(n)' <=> Completed(n)
  <2>1. (Completed(n)' => Completed(n)) /\ (Touched(n) => Touched(n)') BY <1>4, TouchedStep
  <2>2. /\ l \in Nat /\ k \in 0 .. l /\ cur \in 0 .. l /\ directories \in Seq(1 .. l)
        /\ n \in 1 .. l /\ n # 0
    BY Numbers
  <2>3. ASSUME Touched(n), n = cur', pc' \in EntryStages PROVE FALSE
    <3>1. CASE PutOff BY <1>1, <2>3, <3>1 DEF PutOff, EntryStages
    <3>2. CASE NextEntry BY <2>2, <2>3, <3>2 DEF NextEntry, Start, Touched
    <3>3. CASE NextDirectory
      <4> DEFINE h == Head(directories)
      <4>1. k = l /\ directories # <<>> /\ cur' = h BY <3>3 DEF NextDirectory, Start
      <4>2. h \in 1 .. l /\ h = directories[1] /\ 1 \in DOMAIN directories BY <2>2, <4>1
      <4> HIDE DEF h
      <4>3. IsLate(h) /\ ~(IsLate(cur) /\ h <= cur) BY <2>2, <4>1, <4>2 DEF Queue
      <4> QED BY <2>3, <4>1, <4>3 DEF Touched
    <3> QED BY <1>4, <3>1, <3>2, <3>3
  <2>4. Completed(n) => Touched(n) BY DEF Completed
  <2> QED BY <2>1, <2>3, <2>4 DEF Completed
<1> QED BY <1>2, <1>3, <1>4 DEF Past

\* An entry is unpacked when the next one is asked for.
LEMMA PastGrows ==
    ASSUME TypeInv, Queue, EntryStep
    PROVE  /\ pc' \in EntryStages => Past' = Past
           /\ pc' = "next" /\ cur \in Made => Past' = Past \cup {cur}
           /\ pc' = "next" /\ cur \notin Made => Past' = Past
           /\ Made' = Made /\ cur \notin Past
           /\ \A n, m : Before(n, m)' <=> Before(n, m)
<1>1. UNCHANGED <<archive, k, cur>> /\ pc \in EntryStages BY EntryKeeps
<1>2. Made' = Made BY <1>1 DEF Made
<1>3. \A n : (Touched(n)' <=> Touched(n)) BY <1>1 DEF Touched, IsLate
<1>4. \A n, m : Before(n, m)' <=> Before(n, m) BY <1>1 DEF Before
<1>5. pc' \in EntryStages => Past' = Past BY <1>1, <1>2, <1>3 DEF Past, Completed
<1>6. ASSUME pc' = "next" PROVE Past' = Past \cup ({cur} \cap Made)
  <2>1. \A n \in Made : Completed(n)' <=> Touched(n) BY <1>3, <1>6 DEF Completed, EntryStages
  <2>2. \A n \in Made : Completed(n) <=> Touched(n) /\ n # cur BY <1>1 DEF Completed
  <2>3. cur \in Made => Touched(cur)
    <3> SUFFICES ASSUME cur \in Made PROVE Touched(cur) OBVIOUS
    <3>1. k \in Nat /\ cur \in Nat /\ cur # 0 /\ cur <= k BY Numbers DEF Queue, TypeInv, Staged
    <3> QED BY <3>1 DEF Touched, IsLate
  <2> QED BY <1>2, <2>1, <2>2, <2>3 DEF Past
<1>7. cur \notin Past BY <1>1 DEF Past, Completed
<1> QED BY <1>2, <1>4, <1>5, <1>6, <1>7

-----------------------------------------------------------------------------
\* Two entries of one name that are no directories clash unless the second
\* may replace the first.
LEMMA FilesClash ==
    ASSUME NEW n \in Made, NEW m \in Made, Before(n, m), archive[n].path = archive[m].path,
           archive[n].kind \notin DirKinds, archive[m].kind \notin DirKinds,
           ~set.overwrite \/ archive[m].kind = "hardlink"
    PROVE  Clash(n, m)
<1> DEFINE a == archive[n].kind \in DirKinds
           b == archive[m].kind \in DirKinds
<1>1. {a, b} = {FALSE}
  <2>1. a = FALSE /\ b = FALSE OBVIOUS
  <2> HIDE DEF a, b
  <2> QED BY <2>1
<1> HIDE DEF a, b
<1>2. Clash(n, m) <=> 
         /\ Before(n, m)
         /\ \/ archive[n].path = archive[m].path /\ {a, b} = {TRUE, FALSE}
            \/ archive[n].path = archive[m].path /\ {a, b} = {FALSE} /\ (~set.overwrite \/ archive[m].kind = "hardlink")
            \/ Below(archive[m].path, archive[n].path) /\ archive[n].kind \notin DirKinds
            \/ Below(archive[n].path, archive[m].path) /\ archive[m].kind \notin DirKinds
  BY DEF Clash, a, b
<1> QED BY <1>1, <1>2

\* Nothing takes bits from the directory into which the archive is unpacked.
LEMMA RootWritable ==
    ASSUME Going
    PROVE  MayWrite(tree, <<>>)
<1>1. \A n \in Past : archive[n].path # <<>> BY DEF Past, Made
<1> QED BY <1>1 DEF Going, Bits, IsDir, MayWrite, MaySearch

\* What the entry being unpacked may meet, if it clashes with none before it.
LEMMA Meets ==
    ASSUME TypeInv, LostInv, WinsInv, Undisturbed, Going, pc \in EntryStages, cur \in Made,
           \A n \in Made : ~Clash(n, cur),
           NEW p \in DOMAIN tree
    PROVE  /\ Below(E.path, p) => IsDir(tree, p)
           /\ p = E.path
              /\ pc \notin {"chmod", "reopen", "copy", "utimes", "fchmod", "relink", "lutimes"} =>
                /\ tree[p].kind = "dir" <=> E.kind \in DirKinds
                /\ E.kind \notin DirKinds => set.overwrite /\ E.kind # "hardlink"
<1>1. /\ IsRooted(tree) /\ p \in Path /\ E.path \in Path /\ E.path # <<>> /\ E.path \in Path
      /\ Free(tree, Parent(E.path))
  <2>1. IsRooted(tree) BY DEF TypeInv, TypeOK
  <2> QED BY <2>1, EntryNow, TreeLinked DEF Undisturbed
<1>2. \A n \in Past : n \in Made /\ Before(n, cur) /\ ~Clash(n, cur)
  BY PastBefore DEF Past, WinsInv
<1>3. ~Below(E.path, E.path) BY <1>1, BelowParent
<1>4. ASSUME NEW n \in Past, Below(archive[n].path, p) PROVE IsDir(tree, p)
  <2>1. CASE archive[n].path \in DOMAIN tree BY <1>1, <1>4, <2>1, AboveDir
  <2>2. CASE archive[n].path \notin DOMAIN tree
    <3>1. archive[n].path = E.path /\ pc \in {"reopen", "relink"}
      BY <2>2 DEF Going, Present, Pending
    <3>2. Reached(tree, Parent(E.path)) /\ MaySearch(tree, Parent(E.path))
      BY <3>1 DEF Going, Reaching, EntryStages
    <3>3. p = Parent(E.path) \/ Below(Parent(E.path), p) BY <1>1, <1>4, <3>1, BelowParent
    <3> QED BY <1>1, <3>2, <3>3 DEF Reached, MaySearch
  <2> QED BY <2>1, <2>2
<1>5. ASSUME Below(E.path, p) PROVE IsDir(tree, p)
  <2>1. CASE p = <<>> BY <2>1 DEF Going
  <2>2. CASE \E n \in Past : Makes(n, p)
    <3>1. PICK n \in Past : archive[n].path = p \/ Below(archive[n].path, p) BY <2>2 DEF Makes
    <3>2. CASE archive[n].path = p
      <4>1. archive[n].path # E.path BY <1>3, <1>5, <3>2
      <4>2. tree[p].kind = "dir" <=> archive[n].kind \in DirKinds
        BY <3>2, <4>1 DEF Going, Present, Pending
      <4>3. archive[n].kind \in DirKinds BY <1>2, <1>5, <3>2 DEF Clash, E
      <4> QED BY <4>2, <4>3 DEF IsDir
    <3> QED BY <1>4, <3>1, <3>2
  <2>3. CASE Below(E.path, p) /\ tree[p].kind = "dir" BY <2>3 DEF IsDir
  <2> QED BY <1>3, <1>5, <2>1, <2>2, <2>3 DEF Going, Whose
<1>6. ASSUME p = E.path,
             pc \notin {"chmod", "reopen", "copy", "utimes", "fchmod", "relink", "lutimes"}
      PROVE  /\ tree[p].kind = "dir" <=> E.kind \in DirKinds
             /\ E.kind \notin DirKinds => set.overwrite /\ E.kind # "hardlink"
  <2>1. PICK n \in Past : archive[n].path = p \/ Below(archive[n].path, p)
    BY <1>1, <1>3, <1>6 DEF Going, Whose, Makes
  <2>2. CASE archive[n].path = p
    <3>1. tree[p].kind = "dir" <=> archive[n].kind \in DirKinds
      BY <1>6, <2>2 DEF Going, Present, Pending
    <3>2. archive[n].kind \in DirKinds <=> E.kind \in DirKinds
      BY <1>2, <1>6, <2>2, KindsClash DEF E
    <3>3. E.kind \notin DirKinds => set.overwrite /\ E.kind # "hardlink"
      BY <1>2, <1>6, <2>2, <3>2, FilesClash DEF E
    <3> QED BY <3>1, <3>2, <3>3
  <2>3. CASE Below(archive[n].path, p)
    <3>1. tree[p].kind = "dir" BY <1>4, <2>3 DEF IsDir
    <3>2. E.kind \in DirKinds BY <1>2, <1>6, <2>3 DEF Clash, E
    <3> QED BY <3>1, <3>2
  <2> QED BY <2>1, <2>2, <2>3
<1> QED BY <1>5, <1>6

\* A directory that lacks a bit when an entry is unpacked was closed by the
\* last one before it that set its bits.
LEMMA ShutBy ==
    ASSUME TypeInv, WinsInv, Going, pc \in EntryStages,
           NEW d \in DOMAIN tree, tree[d].kind = "dir", NEW x \in {"w", "x"}, x \notin tree[d].perm
    PROVE  \E n \in Past :
             /\ archive[n].path = d /\ archive[n].kind \in DirKinds /\ archive[n].mode # None
             /\ x \notin archive[n].mode \ set.mask
             /\ n \in Made /\ Before(n, cur)
             /\ \A i \in Made : Before(n, i) /\ Before(i, cur) /\ archive[i].path = d =>
                    archive[i].mode = None
<1>1. PICK n \in Past : archive[n].path = d /\ Shuts(n, x) BY DEF Going, Bits
<1>2. n \in Made /\ Before(n, cur) BY PastBefore DEF WinsInv, Past
<1>3. ASSUME NEW i \in Made, Before(n, i), Before(i, cur), archive[i].path = d,
             archive[i].mode # None
      PROVE  FALSE
  <2>1. i \in Past BY <1>3, PastBefore DEF WinsInv
  <2>2. i = n \/ Before(i, n) BY <1>1, <1>3, <2>1 DEF Shuts
  <2>3. i \in Nat /\ n \in Nat BY <1>2, Numbers
  <2> QED BY <1>3, <2>2, <2>3, BeforeOrder
<1> QED BY <1>1, <1>2, <1>3 DEF Shuts

\* Directories above an entry that is not bad may be searched.
LEMMA OnTheWay ==
    ASSUME TypeInv, LostInv, WinsInv, Undisturbed, Going, pc \in EntryStages, cur \in Made,
           ~Bad(cur), NEW r \in DOMAIN tree, Below(E.path, r)
    PROVE  MaySearch(tree, r)
<1>1. IsDir(tree, r) BY Meets DEF Bad
<1>2. ASSUME "x" \notin tree[r].perm PROVE FALSE
  <2>1. PICK n \in Past :
             /\ archive[n].path = r /\ archive[n].kind \in DirKinds /\ archive[n].mode # None
             /\ "x" \notin archive[n].mode \ set.mask
             /\ n \in Made /\ Before(n, cur)
             /\ \A i \in Made : Before(n, i) /\ Before(i, cur) /\ archive[i].path = r =>
                    archive[i].mode = None
    BY <1>1, <1>2, ShutBy DEF IsDir
  <2>2. Closed(n, cur) BY <2>1 DEF Closed, E
  <2> QED BY <2>1, <2>2 DEF Bad
<1> QED BY <1>1, <1>2 DEF MaySearch

\* Before is transitive.
LEMMA BeforeBefore ==
    ASSUME NEW i \in Nat, NEW n \in Nat, NEW m \in Nat, Before(i, n), Before(n, m)
    PROVE  Before(i, m)
BY DEF Before

\* The directories on the way to an entry that is not bad can be searched.
LEMMA ReachedAbove ==
    ASSUME TypeInv, LostInv, WinsInv, Undisturbed, Going, pc \in EntryStages, cur \in Made,
           ~Bad(cur), NEW q \in Path, q # <<>>, q = E.path \/ Below(E.path, q),
           Parent(q) \in DOMAIN tree
    PROVE  Reached(tree, Parent(q)) /\ MaySearch(tree, Parent(q)) /\ Free(tree, Parent(q))
<1>1. /\ E.path \in Path /\ E.path # <<>> /\ Parent(q) \in Path /\ Below(E.path, Parent(q))
      /\ IsRooted(tree) /\ Free(tree, Parent(E.path))
  <2>1. E.path \in Path /\ E.path # <<>> /\ Free(tree, Parent(E.path))
    BY EntryNow DEF Undisturbed
  <2> QED BY <2>1, ChildOnWay, ParentPath DEF TypeInv, TypeOK
<1>2. MaySearch(tree, Parent(q)) BY <1>1, OnTheWay
<1>3. ASSUME NEW r \in Path, Below(Parent(q), r) PROVE MaySearch(tree, r)
  <2>1. r \in DOMAIN tree BY <1>1, <1>3, AboveDir DEF IsDir
  <2>2. Below(E.path, r) BY <1>1, <1>3, BelowBelow
  <2> QED BY <2>1, <2>2, OnTheWay
<1>4. Free(tree, Parent(q)) BY <1>1, FreeAbove, TreeLinked
<1> QED BY <1>2, <1>3, <1>4 DEF Reached

\* Where an entry that is not bad makes something, it may.
LEMMA MayMake ==
    ASSUME TypeInv, LostInv, WinsInv, Undisturbed, Going, pc \in EntryStages, cur \in Made,
           ~Bad(cur), NEW q \in Path, q # <<>>, q = E.path \/ Below(E.path, q),
           Parent(q) \in DOMAIN tree,
           q \notin DOMAIN tree \/ (q = E.path /\ E.kind \notin DirKinds)
    PROVE  MayWrite(tree, Parent(q))
<1> DEFINE d == Parent(q)
<1>1. E.path \in Path /\ E.path # <<>> BY EntryNow DEF Undisturbed
<1>2. SubSeq(E.path, 1, Len(d) + 1) = q /\ Below(E.path, d) BY <1>1, ChildOnWay
<1>3. MaySearch(tree, d) BY ReachedAbove
<1> HIDE DEF d
<1>4. ASSUME "w" \notin tree[d].perm PROVE FALSE
  <2>1. PICK n \in Past :
             /\ archive[n].path = d /\ archive[n].kind \in DirKinds /\ archive[n].mode # None
             /\ "w" \notin archive[n].mode \ set.mask
             /\ n \in Made /\ Before(n, cur)
             /\ \A i \in Made : Before(n, i) /\ Before(i, cur) /\ archive[i].path = d =>
                    archive[i].mode = None
    BY <1>3, <1>4, ShutBy DEF MaySearch, IsDir
  <2>2. ASSUME NEW i \in Made, Before(i, n), Makes(i, q), q \notin DOMAIN tree
        PROVE  q = E.path /\ E.kind \notin DirKinds
    <3>1. i \in Past
      <4>1. i \in Nat /\ n \in Nat /\ cur \in Nat BY <2>1, Numbers
      <4>2. Before(i, cur) BY <2>1, <2>2, <4>1, BeforeBefore
      <4> QED BY <4>2, PastBefore DEF WinsInv
    <3>2. archive[i].path \notin DOMAIN tree
      <4>1. IsRooted(tree) BY DEF TypeInv, TypeOK
      <4> QED BY <2>2, <4>1, AboveDir DEF Makes, IsDir
    <3>3. archive[i].path = E.path /\ pc \in {"reopen", "relink"}
      BY <3>1, <3>2 DEF Going, Present, Pending
    <3>4. E.kind \notin DirKinds BY <3>3 DEF LostInv, Kinds, DirKinds
    <3>5. ~Below(E.path, q)
      <4>1. Reached(tree, Parent(E.path)) BY <3>3 DEF Going, Reaching, EntryStages
      <4>2. Below(E.path, q) => q = Parent(E.path) \/ Below(Parent(E.path), q)
        BY <1>1, BelowParent
      <4> QED BY <2>2, <4>1, <4>2 DEF Reached, MaySearch, IsDir
    <3> QED BY <3>4, <3>5
  <2>3. \/ q = E.path /\ E.kind \notin DirKinds
        \/ ~\E i \in Made : Before(i, n) /\ Makes(i, q)
    BY <2>2
  <2>4. Closed(n, cur) BY <1>2, <2>1, <2>3 DEF Closed, E
  <2> QED BY <2>1, <2>4 DEF Bad
<1> QED BY <1>3, <1>4 DEF MayWrite, d

\* The calls on a name in a directory that is reached.
LEMMA HereIs ==
    ASSUME TypeInv, NEW q \in Path, q # <<>>, Free(tree, Parent(q)), Reached(tree, Parent(q)),
           MaySearch(tree, Parent(q))
    PROVE  /\ Place(tree, q) = q /\ Canon(tree, Parent(q)) = Parent(q) /\ q # None
           /\ MayCreate(tree, q) <=> q \notin DOMAIN tree /\ MayWrite(tree, Parent(q))
           /\ Exists(tree, q) <=> q \in DOMAIN tree
           /\ MayRemove(tree, q) <=>
                q \in DOMAIN tree /\ tree[q].kind # "dir" /\ MayWrite(tree, Parent(q))
           /\ q \in DOMAIN tree /\ tree[q].kind # "symlink" => Canon(tree, q) = q
<1>1. q # None BY TreeAssumption DEF Path
<1>2. Place(tree, q) = q /\ Canon(tree, Parent(q)) = Parent(q) BY PlaceFree, TreeLinked
<1>3. ASSUME q \in DOMAIN tree, tree[q].kind # "symlink" PROVE Canon(tree, q) = q
  <2>1. ASSUME NEW r \in DOMAIN tree, r = q \/ Below(q, r) PROVE tree[r].kind # "symlink"
    <3>1. r \in Path BY TreeLinked
    <3> QED BY <1>3, <2>1, <3>1, BelowParent DEF Free
  <2>2. Free(tree, q) BY <2>1 DEF Free
  <2>3. Reached(tree, q) BY <1>3, BelowParent DEF Reached
  <2> QED BY <2>2, <2>3, FreeCanon, TreeLinked
<1> QED BY <1>1, <1>2, <1>3 DEF MayCreate, MayRemove, Exists

-----------------------------------------------------------------------------
\* The first directory that is missing, in one that is there.
LEMMA FirstMissing ==
    ASSUME TypeInv, LostInv, Straight, IsDir(tree, <<>>), MakeParent
    PROVE  \E q \in Path :
             /\ q # <<>> /\ Below(E.path, q) /\ ~Exists(tree, q)
             /\ Parent(q) \in DOMAIN tree /\ Free(tree, Parent(q))
             /\ cur \in Made
             /\ IF MayCreate(tree, q) THEN Make(q, NewDir) /\ pc' = "parents" ELSE pc' = "failed"
<1> DEFINE M == Missing(E.path)
           n == CHOOSE n \in M : \A m \in M : n <= m
           q == SubSeq(E.path, 1, n)
<1>0. pc = "parents" /\ pc \in EntryStages BY DEF MakeParent, EntryStages
<1>1. /\ E.path \in Path /\ E.path # <<>> /\ Free(tree, Parent(E.path))
      /\ Len(E.path) \in Nat /\ (cur \in Made \/ Len(E.path) = 1)
  BY <1>0, EntryNow
<1>2. M \in SUBSET (1 .. Len(E.path) - 1) /\ M # {} BY DEF Missing, MakeParent
<1>3. n \in M /\ \A m \in M : n <= m
  <2> HIDE DEF M
  <2>1. M \in SUBSET Nat BY <1>1, <1>2
  <2>2. \E i \in M : \A m \in M : i <= m BY <1>2, <2>1, LeastNumber
  <2> QED BY <2>2
<1>4. n \in 1 .. Len(E.path) - 1 /\ ~Exists(tree, q) BY <1>2, <1>3 DEF Missing
<1>5. cur \in Made
  <2> HIDE DEF n
  <2>1. Len(E.path) # 1 BY <1>1, <1>4, NotOne
  <2> QED BY <1>1, <2>1
<1>6. IF MayCreate(tree, q) THEN Make(q, NewDir) /\ pc' = "parents" ELSE pc' = "failed"
  BY DEF MakeParent, Go, Fail
<1>7. n - 1 \notin M
  <2>1. \A m \in M : n <= m BY <1>3
  <2> HIDE DEF n, M
  <2> QED BY <1>1, <1>4, <2>1
<1> HIDE DEF n, M
<1>8. /\ q \in Path /\ q # <<>> /\ Below(E.path, q)
      /\ n = 1 => Parent(q) = <<>>
      /\ n # 1 => Parent(q) = SubSeq(E.path, 1, n - 1) /\ n - 1 \in 1 .. Len(E.path) - 1
  BY <1>1, <1>4, PrefixPath
<1> HIDE DEF q
<1>9. Free(tree, Parent(q)) BY <1>1, <1>8, FreeAbove, TreeLinked
<1>10. Parent(q) \in DOMAIN tree
  <2>1. CASE n = 1 BY <1>8, <2>1 DEF IsDir
  <2>2. CASE n # 1
    <3> DEFINE r == Parent(q)
    <3>1. r = SubSeq(E.path, 1, n - 1) /\ n - 1 \in 1 .. Len(E.path) - 1 BY <1>8, <2>2
    <3>2. r \in Path /\ r # <<>> /\ Below(E.path, r) BY <1>1, <3>1, PrefixPath
    <3>3. Exists(tree, r) BY <1>7, <3>1 DEF M, Missing
    <3> HIDE DEF r
    <3>4. Free(tree, Parent(r)) BY <1>1, <3>2, FreeAbove, TreeLinked
    <3>5. r \in DOMAIN tree BY <3>2, <3>3, <3>4, PlaceFree, TreeLinked DEF Exists
    <3> QED BY <3>5 DEF r
  <2> QED BY <2>1, <2>2
<1> QED BY <1>4, <1>5, <1>6, <1>8, <1>9, <1>10 DEF q

\* When no directory is missing any more the parent is there.
LEMMA ParentThere ==
    ASSUME TypeInv, LostInv, Straight, IsDir(tree, <<>>), pc \in EntryStages,
           Missing(E.path) = {}
    PROVE  Parent(E.path) \in DOMAIN tree
<1> DEFINE l == Len(E.path)
           P == Parent(E.path)
<1>1. /\ E.path \in Path /\ E.path # <<>> /\ Free(tree, P) /\ l \in Nat
  BY EntryNow
<1>2. P \in Path /\ Len(P) = l - 1 /\ P = SubSeq(E.path, 1, l - 1) BY <1>1, ParentPath DEF Parent
<1>3. l # 0 BY <1>1 DEF Path
<1> HIDE DEF P
<1>4. CASE l = 1
  <2>1. P = <<>> BY <1>2, <1>4 DEF Path
  <2> QED BY <2>1 DEF IsDir, P
<1>5. CASE l # 1
  <2>1. l - 1 \in 1 .. l - 1
    <3> HIDE DEF l
    <3> QED BY <1>1, <1>3, <1>5
  <2>2. Exists(tree, P) BY <1>2, <2>1 DEF Missing
  <2>3. P # <<>> /\ Below(E.path, P) BY <1>1, <1>2, <2>1, PrefixPath
  <2>4. Free(tree, Parent(P)) BY <1>1, <1>2, <2>3, FreeAbove, TreeLinked DEF P
  <2>5. P \in DOMAIN tree BY <1>2, <2>2, <2>3, <2>4, PlaceFree, TreeLinked DEF Exists
  <2> QED BY <2>5 DEF P
<1> QED BY <1>4, <1>5

\* A hard link that is not bad finds its file.
LEMMA LinkFound ==
    ASSUME TypeInv, LostInv, WinsInv, Undisturbed, Going, pc = "hardlink", cur \in Made,
           ~Bad(cur)
    PROVE  /\ E.link \notin {None, <<>>} /\ Canon(tree, E.link) # None
           /\ tree[Place(tree, E.link)].kind # "dir"
<1>1. E.kind = "hardlink" /\ pc \in EntryStages BY DEF LostInv, Kinds, EntryStages
<1>2. /\ E.link \notin {None, <<>>}
      /\ \E m \in Made : LinkedTo(cur, m) /\ archive[m].kind \notin DirKinds
  BY <1>1 DEF Bad, BadLink, E
<1>3. E.link \in Path BY <1>1, <1>2, EntryType1
<1>4. PICK m \in Made : /\ archive[m].path = E.link /\ Before(m, cur)
                        /\ archive[m].kind \notin DirKinds
  BY <1>2 DEF LinkedTo, E
<1>5. m \in Past BY <1>1, <1>4, PastBefore DEF WinsInv
<1>6. E.link \in DOMAIN tree /\ tree[E.link].kind # "dir"
  BY <1>4, <1>5 DEF Going, Present, Pending
<1>7. ~Bends(E.link) /\ Direct
  <2>1. Direct BY DEF Undisturbed, Straight
  <2>2. cur \in DOMAIN archive BY DEF Made
  <2> QED BY <1>1, <2>1, <2>2 DEF Direct, E
<1>8. \A r \in DOMAIN tree : tree[r].kind = "symlink" => r # E.link /\ ~Below(E.link, r)
  BY <1>2, <1>7 DEF LostInv, LinksKnown, Bends
<1>9. ASSUME NEW r \in DOMAIN tree, Below(E.link, r) PROVE MaySearch(tree, r)
  <2>1. IsDir(tree, r)
    <3>1. IsRooted(tree) /\ r \in Path BY TreeLinked DEF TypeInv, TypeOK
    <3> QED BY <1>6, <1>9, <3>1, AboveDir
  <2>2. ASSUME "x" \notin tree[r].perm PROVE FALSE
    <3>1. PICK n \in Past :
             /\ archive[n].path = r /\ archive[n].kind \in DirKinds /\ archive[n].mode # None
             /\ "x" \notin archive[n].mode \ set.mask
             /\ n \in Made /\ Before(n, cur)
             /\ \A i \in Made : Before(n, i) /\ Before(i, cur) /\ archive[i].path = r =>
                    archive[i].mode = None
      BY <1>1, <2>1, <2>2, ShutBy DEF IsDir
    <3>2. Closed(n, cur) BY <1>1, <1>2, <1>9, <3>1 DEF Closed, E
    <3> QED BY <3>1, <3>2 DEF Bad
  <2> QED BY <2>1, <2>2 DEF MaySearch
<1>10. Parent(E.link) \in Path /\ Below(E.link, Parent(E.link))
       /\ Parent(E.link) \in DOMAIN tree
  <2>1. Parent(E.link) \in DOMAIN tree BY <1>2, <1>6 DEF TypeInv, TypeOK, IsRooted
  <2> QED BY <1>2, <1>3, <2>1, ParentPath, BelowParent
<1>11. Free(tree, Parent(E.link))
  <2> SUFFICES ASSUME NEW r \in DOMAIN tree, r = Parent(E.link) \/ Below(Parent(E.link), r)
               PROVE  tree[r].kind # "symlink"
    BY DEF Free
  <2>1. r \in Path BY TreeLinked
  <2>2. Below(E.link, r) BY <1>2, <1>3, <2>1, BelowParent
  <2> QED BY <1>8, <2>2
<1>12. Reached(tree, Parent(E.link)) /\ MaySearch(tree, Parent(E.link))
  <2> SUFFICES ASSUME NEW r \in Path, Below(Parent(E.link), r) PROVE MaySearch(tree, r)
    BY <1>9, <1>10 DEF Reached
  <2>1. Below(E.link, r) BY <1>3, <1>10, BelowBelow
  <2>2. r \in DOMAIN tree
    <3>1. IsRooted(tree) BY DEF TypeInv, TypeOK
    <3> QED BY <1>6, <2>1, <3>1, AboveDir DEF IsDir
  <2> QED BY <1>9, <2>1, <2>2
<1>13. Place(tree, E.link) = E.link /\ Canon(tree, E.link) = E.link /\ E.link # None
  BY <1>2, <1>3, <1>6, <1>8, <1>11, <1>12, HereIs
<1> QED BY <1>2, <1>6, <1>13

\* An entry that is not bad is unpacked without an error.
LEMMA NoFailure ==
    ASSUME TypeInv, LostInv, WinsInv, Undisturbed, Going, EntryStep, cur \in Made, ~Bad(cur)
    PROVE  pc' # "failed"
<1> DEFINE P == Parent(E.path)
<1>1. pc \in EntryStages /\ Straight BY EntryKeeps DEF Undisturbed
<1>2. /\ Direct /\ E \in EntryType
      /\ E.path \in Path /\ E.path # <<>> /\ E.path # None /\ Free(tree, P)
  BY <1>1, EntryNow
<1>3. Below(E.path, P) /\ P \in Path BY <1>2, ParentPath, BelowParent
<1>4. IsDir(tree, <<>>) BY DEF Going
<1>5. ASSUME P \in DOMAIN tree
      PROVE  /\ Place(tree, E.path) = E.path /\ Canon(tree, P) = P
             /\ MayCreate(tree, E.path) <=> E.path \notin DOMAIN tree /\ MayWrite(tree, P)
             /\ Exists(tree, E.path) <=> E.path \in DOMAIN tree
             /\ MayRemove(tree, E.path) <=>
                    E.path \in DOMAIN tree /\ tree[E.path].kind # "dir" /\ MayWrite(tree, P)
             /\ E.path \in DOMAIN tree /\ tree[E.path].kind # "symlink" =>
                    Canon(tree, E.path) = E.path
  <2>1. Reached(tree, P) /\ MaySearch(tree, P) BY <1>1, <1>2, <1>5, ReachedAbove
  <2> QED BY <1>2, <2>1, HereIs
<1>6. ASSUME P \in DOMAIN tree, E.path \notin DOMAIN tree \/ E.kind \notin DirKinds
      PROVE  MayWrite(tree, P)
  BY <1>1, <1>2, <1>6, MayMake
<1>7. pc # "parents" => P \in DOMAIN tree BY <1>1 DEF Going, Reaching, Reached
<1>8. pc \in {"parents", "mkdir", "open", "remove", "hardlink", "symlink", "unlink"}
      /\ E.path \in DOMAIN tree =>
        /\ tree[E.path].kind = "dir" <=> E.kind \in DirKinds
        /\ E.kind \notin DirKinds => set.overwrite /\ E.kind # "hardlink"
  BY <1>1, Meets DEF Bad
<1>9. CASE MakeParent
  <2>1. PICK q \in Path :
             /\ q # <<>> /\ Below(E.path, q) /\ ~Exists(tree, q)
             /\ Parent(q) \in DOMAIN tree /\ Free(tree, Parent(q))
             /\ IF MayCreate(tree, q) THEN Make(q, NewDir) /\ pc' = "parents" ELSE pc' = "failed"
    BY <1>1, <1>4, <1>9, FirstMissing
  <2>2. Reached(tree, Parent(q)) /\ MaySearch(tree, Parent(q)) BY <1>1, <2>1, ReachedAbove
  <2>3. q \notin DOMAIN tree BY <2>1, <2>2, HereIs
  <2>4. MayWrite(tree, Parent(q)) BY <1>1, <2>1, <2>3, MayMake
  <2>5. MayCreate(tree, q) BY <2>1, <2>2, <2>3, <2>4, HereIs
  <2> QED BY <2>1, <2>5
<1>10. CASE Validate
  <2>1. Missing(E.path) = {} /\ pc' = IF Canon(tree, P) = None THEN "failed" ELSE FirstCall(E.kind)
    BY <1>10 DEF Validate, Go
  <2>2. P \in DOMAIN tree BY <1>1, <1>4, <2>1, ParentThere
  <2>3. Canon(tree, P) # None BY <1>3, <1>5, <2>2, TreeAssumption DEF Path
  <2> QED BY <1>2, <2>1, <2>3, FirstCalls
<1>11. CASE pc = "mkdir"
  <2>1. E.kind \in DirKinds BY <1>11 DEF LostInv, Kinds
  <2>2. MakeDir /\ P \in DOMAIN tree BY <1>7, <1>11, StepOf
  <2>3. CASE E.path \in DOMAIN tree
    <3>1. tree[E.path].kind = "dir" BY <1>8, <1>11, <2>1, <2>3
    <3>2. Exists(tree, E.path) /\ DenotesDir(tree, E.path)
      BY <1>5, <2>2, <2>3, <3>1 DEF DenotesDir, IsDir
    <3> QED BY <2>2, <3>2 DEF MakeDir, Go, AfterDir
  <2>4. CASE E.path \notin DOMAIN tree
    <3>1. MayCreate(tree, E.path) BY <1>5, <1>6, <2>2, <2>4
    <3> QED BY <2>2, <3>1 DEF MakeDir, Go, AfterDir
  <2> QED BY <2>3, <2>4
<1>12. CASE pc = "chmod"
  <2>1. SetDirPerms /\ P \in DOMAIN tree BY <1>7, <1>12, StepOf
  <2>2. IsDir(tree, E.path) BY <1>12 DEF Going, Reaching
  <2>3. Canon(tree, E.path) = E.path BY <1>5, <2>1, <2>2 DEF IsDir
  <2>4. E.path # None BY <2>2, TreeLinked DEF IsDir
  <2> QED BY <2>1, <2>2, <2>3, <2>4 DEF SetDirPerms, Go
<1>13. CASE pc = "open"
  <2>1. E.kind \notin DirKinds BY <1>13 DEF LostInv, Kinds, DirKinds
  <2>2. Open /\ P \in DOMAIN tree BY <1>7, <1>13, StepOf
  <2>3. MayWrite(tree, P) BY <1>6, <2>1, <2>2
  <2>4. MayCreate(tree, E.path) \/ (Exists(tree, E.path) /\ set.overwrite)
    BY <1>5, <1>8, <1>13, <2>1, <2>2, <2>3
  <2> QED BY <2>2, <2>4 DEF Open, CreateNew, Go
<1>14. CASE pc \in {"remove", "unlink"}
  <2>1. E.kind \notin DirKinds BY <1>14 DEF LostInv, Kinds, DirKinds
  <2>2. (Remove \/ Unlink) /\ P \in DOMAIN tree BY <1>7, <1>14, StepOf
  <2>3. MayWrite(tree, P) BY <1>6, <2>1, <2>2
  <2>4. E.path \in DOMAIN tree BY <1>14 DEF Going, Reaching
  <2>5. MayRemove(tree, E.path) BY <1>5, <1>8, <1>14, <2>1, <2>2, <2>3, <2>4
  <2> QED BY <2>2, <2>5 DEF Remove, Unlink, Go
<1>15. CASE pc \in {"reopen", "relink"}
  <2>1. MayCreate(tree, E.path) BY <1>2, <1>15 DEF Undisturbed, LostInv, Ready
  <2> QED BY <1>15, <2>1, StepOf DEF Reopen, Relink, CreateNew, Go, AfterLink
<1>16. CASE pc \in {"copy", "fchmod"}
  BY <1>16, StepOf DEF Copy, SetFilePerms, Go, AfterFile
<1>17. CASE pc = "utimes"
  <2>1. E.path \in DOMAIN tree /\ tree[E.path] = File(f)
    BY <1>17 DEF WinsInv, Stages
  <2>2. Canon(tree, E.path) = E.path BY <1>5, <1>7, <1>17, <2>1 DEF File
  <2> QED BY <1>2, <1>17, <2>2, StepOf DEF SetTimes, Go
<1>18. CASE pc = "hardlink"
  <2>1. E.kind = "hardlink" /\ E.kind \notin DirKinds BY <1>18 DEF LostInv, Kinds, DirKinds
  <2>2. HardLink /\ P \in DOMAIN tree BY <1>7, <1>18, StepOf
  <2>3. MayCreate(tree, E.path) BY <1>5, <1>6, <1>8, <1>18, <2>1, <2>2
  <2>4. /\ E.link \notin {None, <<>>} /\ Canon(tree, E.link) # None
        /\ tree[Place(tree, E.link)].kind # "dir"
    BY <1>18, LinkFound
  <2> QED BY <2>2, <2>3, <2>4 DEF HardLink, Go
<1>19. CASE pc = "symlink"
  <2>1. E.kind = "symlink" /\ E.kind \notin DirKinds BY <1>19 DEF LostInv, Kinds, DirKinds
  <2>2. E.link \notin {None, <<>>} BY <2>1 DEF Bad, BadLink, E
  <2>3. SymLink /\ P \in DOMAIN tree BY <1>7, <1>19, StepOf
  <2>4. MayWrite(tree, P) BY <1>6, <2>1, <2>3
  <2>5. MayCreate(tree, E.path) \/ (Exists(tree, E.path) /\ set.overwrite)
    BY <1>5, <1>8, <1>19, <2>1, <2>3, <2>4
  <2> QED BY <2>2, <2>3, <2>5 DEF SymLink, Go, AfterLink
<1>20. CASE pc = "lutimes"
  <2>1. E.path \in DOMAIN tree BY <1>20 DEF WinsInv, Stages
  <2>2. Exists(tree, E.path) BY <1>5, <1>7, <1>20, <2>1
  <2> QED BY <1>20, <2>2, StepOf DEF SetLinkTimes, Go
<1>21. pc = "parents" => MakeParent \/ Validate BY StepOf
<1> QED BY <1>1, <1>9, <1>10, <1>11, <1>12, <1>13, <1>14, <1>15, <1>16, <1>17, <1>18, <1>19, <1>20,
           <1>21 DEF EntryStages

\* Nor is one that makes nothing.
LEMMA NothingFails ==
    ASSUME TypeInv, LostInv, WinsInv, Undisturbed, Going, EntryStep, cur \notin Made
    PROVE  pc = "parents" /\ pc' = "next" /\ tree' = tree
<1>1. pc \in EntryStages /\ Straight /\ IsDir(tree, <<>>)
  BY EntryKeeps DEF Undisturbed, Going
<1>2. pc = "parents" /\ E.kind = "meta" /\ E.path \in Path /\ E.path # <<>> /\ Len(E.path) = 1
  BY <1>1, EntryNow
<1>3. ~MakeParent BY <1>1, FirstMissing
<1>4. Validate BY <1>2, <1>3, StepOf
<1>5. Parent(E.path) = <<>>
  <2>1. Parent(E.path) \in Path /\ Len(Parent(E.path)) = 0 BY <1>2, ParentPath
  <2> QED BY <2>1 DEF Path
<1>6. Canon(tree, <<>>) # None
  <2>1. Canon(tree, <<>>) = <<>> BY TreeLinked, CanonStep
  <2>2. <<>> \in Seq(Names) OBVIOUS
  <2> QED BY <2>1, <2>2, TreeAssumption
<1>7. E \in EntryType BY <1>1, EntryType1
<1> QED BY <1>2, <1>4, <1>5, <1>6, <1>7, FirstCalls DEF Validate, Go

-----------------------------------------------------------------------------
\* What clashing means, without the set of truth values.
LEMMA ClashMeans ==
    ASSUME NEW n, NEW m, Clash(n, m)
    PROVE  /\ Before(n, m)
           /\ \/ /\ archive[n].path = archive[m].path
                 /\ archive[n].kind \in DirKinds <=> archive[m].kind \notin DirKinds
              \/ /\ archive[n].path = archive[m].path
                 /\ archive[n].kind \notin DirKinds /\ archive[m].kind \notin DirKinds
                 /\ ~set.overwrite \/ archive[m].kind = "hardlink"
              \/ Below(archive[m].path, archive[n].path) /\ archive[n].kind \notin DirKinds
              \/ Below(archive[n].path, archive[m].path) /\ archive[m].kind \notin DirKinds
<1> DEFINE a == archive[n].kind \in DirKinds
           b == archive[m].kind \in DirKinds
<1>1. /\ Before(n, m)
      /\ \/ archive[n].path = archive[m].path /\ {a, b} = {TRUE, FALSE}
         \/ archive[n].path = archive[m].path /\ {a, b} = {FALSE} /\ (~set.overwrite \/ archive[m].kind = "hardlink")
         \/ Below(archive[m].path, archive[n].path) /\ archive[n].kind \notin DirKinds
         \/ Below(archive[n].path, archive[m].path) /\ archive[m].kind \notin DirKinds
  BY DEF Clash, a, b
<1>2. a \in BOOLEAN /\ b \in BOOLEAN OBVIOUS
<1>3. {a, b} = {TRUE, FALSE} => (a <=> ~b)
  <2> HIDE DEF a, b
  <2>1. CASE a = TRUE /\ b = TRUE BY <2>1
  <2>2. CASE a = FALSE /\ b = FALSE BY <2>2
  <2>3. CASE a = TRUE /\ b = FALSE BY <2>3
  <2>4. CASE a = FALSE /\ b = TRUE BY <2>4
  <2> QED BY <1>2, <2>1, <2>2, <2>3, <2>4
<1>4. {a, b} = {FALSE} => ~a /\ ~b
  <2> HIDE DEF a, b
  <2>1. CASE a = TRUE BY <2>1
  <2>2. CASE b = TRUE BY <2>2
  <2> QED BY <1>2, <2>1, <2>2
<1> QED BY <1>1, <1>3, <1>4

\* What is known of the tree before the call that completes an entry.
LEMMA AtEnd ==
    ASSUME TypeInv, LostInv, WinsInv, Undisturbed, Going, EntryStep, cur \in Made, pc' = "next"
    PROVE  LET P == Parent(E.path)
           IN  /\ pc \in {"mkdir", "chmod", "fchmod", "hardlink", "symlink", "relink", "lutimes"}
               /\ E.path \in Path /\ E.path # <<>> /\ Free(tree, P)
               /\ Reached(tree, P) /\ MaySearch(tree, P) /\ Place(tree, E.path) = E.path
               /\ E.path \in DOMAIN tree =>
                    /\ tree[E.path].kind = "dir" <=> E.kind \in DirKinds
                    /\ pc \in {"mkdir", "chmod", "fchmod", "lutimes"}
               /\ E.path \notin DOMAIN tree \/ E.kind \notin DirKinds => MayWrite(tree, P)
               /\ E.path \notin DOMAIN tree => pc \in {"mkdir", "hardlink", "symlink", "relink"}
<1> DEFINE P == Parent(E.path)
<1>1. pc \in EntryStages /\ Straight BY EntryKeeps DEF Undisturbed
<1>2. E \in EntryType /\ E.path \in Path /\ E.path # <<>> /\ E.path # None /\ Free(tree, P)
  BY <1>1, EntryNow
<1>3. pc \in {"mkdir", "chmod", "fchmod", "hardlink", "symlink", "relink", "lutimes"}
  <2>1. pc # "parents"
    <3>1. FirstCall(E.kind) = "next" => E.kind = "meta" BY <1>2, FirstCalls
    <3> QED BY <3>1, EntryGoes DEF Made, E
  <2> QED BY <2>1, EntryGoes
<1>4. Reached(tree, P) BY <1>3 DEF Going, Reaching, EntryStages
<1>5. Place(tree, E.path) = IF MaySearch(tree, P) THEN E.path ELSE None
  BY <1>2, <1>4, PlaceFree, TreeLinked
<1>6. Canon(tree, P) = P BY <1>2, <1>4, PlaceFree, TreeLinked
<1>7. pc = "mkdir" => MayCreate(tree, E.path) \/ (Exists(tree, E.path) /\ DenotesDir(tree, E.path))
  BY StepOf DEF MakeDir, Go
<1>8. pc \in {"hardlink", "symlink", "relink"} => MayCreate(tree, E.path)
  BY StepOf DEF HardLink, SymLink, Relink, Go, Fail
<1>9. MaySearch(tree, P)
  <2>1. CASE pc \in {"mkdir", "hardlink", "symlink", "relink"}
    BY <1>2, <1>5, <1>7, <1>8, <2>1 DEF MayCreate, Exists
  <2>2. CASE pc \in {"chmod", "fchmod", "lutimes"}
    BY <2>2 DEF Going, Reaching, EntryStages
  <2> QED BY <1>3, <2>1, <2>2
<1>10. /\ Place(tree, E.path) = E.path
       /\ MayCreate(tree, E.path) <=> E.path \notin DOMAIN tree /\ MayWrite(tree, P)
       /\ Exists(tree, E.path) <=> E.path \in DOMAIN tree
       /\ E.path \in DOMAIN tree /\ tree[E.path].kind # "symlink" => Canon(tree, E.path) = E.path
  BY <1>2, <1>4, <1>9, HereIs
<1>11. /\ pc = "chmod" => E.path \in DOMAIN tree /\ tree[E.path].kind = "dir" /\ E.kind \in DirKinds
       /\ pc = "fchmod" => E.path \in DOMAIN tree /\ tree[E.path].kind = "file"
                            /\ E.kind \notin DirKinds /\ MayWrite(tree, P)
       /\ pc = "lutimes" => E.path \in DOMAIN tree /\ tree[E.path].kind = "symlink"
                             /\ E.kind \notin DirKinds /\ MayWrite(tree, P)
  <2>1. /\ pc = "chmod" => E.kind \in DirKinds
        /\ pc \in {"fchmod", "lutimes"} => E.kind \notin DirKinds
    BY DEF LostInv, Kinds, DirKinds
  <2>2. /\ pc = "fchmod" => E.path \in DOMAIN tree /\ tree[E.path] = File(f)
        /\ pc = "lutimes" => E.path \in DOMAIN tree /\ tree[E.path] = Symlink(E.link)
    BY DEF WinsInv, Stages
  <2> QED BY <2>1, <2>2 DEF Going, Reaching, IsDir, File, Symlink
<1>12. pc = "mkdir" =>
         /\ E.kind \in DirKinds
         /\ E.path \notin DOMAIN tree => MayWrite(tree, P)
         /\ E.path \in DOMAIN tree => tree[E.path].kind = "dir"
  <2> SUFFICES ASSUME pc = "mkdir"
               PROVE  /\ E.kind \in DirKinds
                      /\ E.path \notin DOMAIN tree => MayWrite(tree, P)
                      /\ E.path \in DOMAIN tree => tree[E.path].kind = "dir"
    OBVIOUS
  <2>1. E.kind \in DirKinds BY DEF LostInv, Kinds
  <2>2. Canon(tree, E.path) \in {None, E.path} BY <1>1, <2>1, OwnPlace DEF LostInv
  <2>3. None \notin DOMAIN tree BY TreeLinked
  <2> QED BY <1>7, <1>10, <2>1, <2>2, <2>3 DEF DenotesDir, IsDir
<1> QED BY <1>2, <1>3, <1>4, <1>8, <1>9, <1>10, <1>11, <1>12

\* An entry that has been unpacked clashes with none.
LEMMA NotClashing ==
    ASSUME TypeInv, LostInv, WinsInv, Undisturbed, Going, EntryStep, cur \in Made, pc' = "next",
           NEW n \in Made
    PROVE  ~Clash(n, cur)
<1> DEFINE P == Parent(E.path)
<1> SUFFICES ASSUME Clash(n, cur) PROVE FALSE OBVIOUS
<1>1. /\ pc \in {"mkdir", "chmod", "fchmod", "hardlink", "symlink", "relink", "lutimes"}
      /\ E.path \in Path /\ E.path # <<>>
      /\ Reached(tree, P)
      /\ E.path \in DOMAIN tree =>
           /\ tree[E.path].kind = "dir" <=> E.kind \in DirKinds
           /\ pc \in {"mkdir", "chmod", "fchmod", "lutimes"}
      /\ E.path \notin DOMAIN tree => pc \in {"mkdir", "hardlink", "symlink", "relink"}
      /\ MaySearch(tree, P)
  BY AtEnd
<1>2. pc \in EntryStages BY EntryKeeps
<1>3. n \in Past /\ Before(n, cur) BY <1>2, ClashMeans, PastBefore DEF WinsInv
<1>4. \/ /\ archive[n].path \in DOMAIN tree
         /\ tree[archive[n].path].kind = "dir" <=> archive[n].kind \in DirKinds
      \/ archive[n].path = E.path /\ pc = "relink" /\ archive[n].kind \notin DirKinds
  BY <1>1, <1>3 DEF Going, Present, Pending
<1>5. /\ pc = "hardlink" => E.kind = "hardlink"
      /\ pc \in {"symlink", "relink", "lutimes"} => E.kind = "symlink"
      /\ pc = "fchmod" => E.kind = "file"
      /\ pc \in {"mkdir", "chmod"} => E.kind \in DirKinds
  BY DEF LostInv, Kinds
<1>6. pc \in {"relink", "fchmod", "lutimes"} => set.overwrite \/ archive[n].path # E.path
  BY <1>3 DEF Going, Reaching
<1>7. CASE archive[n].path = E.path
  <2>1. ~Below(E.path, archive[n].path) /\ ~Below(archive[n].path, E.path) BY <1>1, <1>7, BelowParent
  <2>2. \/ archive[n].kind \in DirKinds <=> E.kind \notin DirKinds
        \/ /\ archive[n].kind \notin DirKinds /\ E.kind \notin DirKinds
           /\ ~set.overwrite \/ E.kind = "hardlink"
    BY <1>7, <2>1, ClashMeans DEF E
  <2>3. CASE pc = "relink" BY <1>4, <1>5, <1>6, <1>7, <1>1, <2>2, <2>3 DEF DirKinds
  <2>4. CASE pc # "relink"
    <3>1. E.path \in DOMAIN tree /\ (archive[n].kind \in DirKinds <=> E.kind \in DirKinds)
      BY <1>1, <1>4, <1>7, <2>4
    <3>2. pc \in {"fchmod", "lutimes"} BY <1>1, <1>5, <2>2, <3>1
    <3> QED BY <1>5, <1>6, <1>7, <2>2, <3>1, <3>2
  <2> QED BY <2>3, <2>4
<1>8. CASE archive[n].path # E.path
  <2>1. \/ Below(E.path, archive[n].path) /\ archive[n].kind \notin DirKinds
        \/ Below(archive[n].path, E.path) /\ E.kind \notin DirKinds
    BY <1>8, ClashMeans DEF E
  <2>2. archive[n].path \in DOMAIN tree /\ (tree[archive[n].path].kind = "dir" <=> archive[n].kind \in DirKinds)
    BY <1>4, <1>8
  <2>3. archive[n].path \in Path BY <2>2, TreeLinked
  <2>4. CASE Below(E.path, archive[n].path) /\ archive[n].kind \notin DirKinds
    <3>1. MaySearch(tree, archive[n].path) BY <1>1, <2>3, <2>4, BelowParent DEF Reached
    <3> QED BY <2>2, <2>4, <3>1 DEF MaySearch, IsDir
  <2>5. CASE Below(archive[n].path, E.path) /\ E.kind \notin DirKinds
    <3>1. IsDir(tree, E.path)
      <4>1. IsRooted(tree) BY DEF TypeInv, TypeOK
      <4> QED BY <1>1, <2>2, <2>5, <4>1, AboveDir
    <3> QED BY <1>1, <2>5, <3>1 DEF IsDir
  <2> QED BY <2>1, <2>4, <2>5
<1> QED BY <1>7, <1>8

\* The way from a directory to what is below it.
LEMMA ChildOf ==
    ASSUME NEW p \in Path, NEW d \in Path, Below(p, d)
    PROVE  LET c == SubSeq(p, 1, Len(d) + 1)
           IN  /\ c \in Path /\ c # <<>> /\ Parent(c) = d
               /\ c = p \/ Below(p, c)
               /\ Below(c, d)
<1> DEFINE n == Len(d) + 1
           c == SubSeq(p, 1, n)
<1>1. p \in Seq(Names) /\ d \in Seq(Names) BY DEF Path
<1>2. Len(p) \in Nat /\ Len(d) \in Nat /\ Len(p) > Len(d) /\ d = SubSeq(p, 1, Len(d))
  BY <1>1 DEF Below
<1>3. n \in 1 .. Len(p) /\ n \in Nat /\ n # 0 BY <1>2
<1>4. p # <<>>
  <2>1. Len(p) # 0 BY <1>2
  <2> QED BY <2>1
<1>5. c \in Path /\ c # <<>> /\ (c = p \/ Below(p, c))
  <2>1. CASE n = Len(p)
    <3>1. c = p BY <1>1, <2>1
    <3> QED BY <1>4, <3>1
  <2>2. CASE n # Len(p)
    <3>1. n \in 1 .. Len(p) - 1 BY <1>2, <1>3, <2>2
    <3> HIDE DEF n
    <3> QED BY <1>4, <3>1, PrefixPath
  <2> QED BY <2>1, <2>2
<1>6. Parent(c) = d
  <2>1. c = [i \in 1 .. n |-> p[i]] /\ Len(c) = n BY <1>1, <1>3
  <2>2. Parent(c) = SubSeq(c, 1, Len(d)) BY <1>2, <2>1 DEF Parent
  <2>3. SubSeq(c, 1, Len(d)) = [i \in 1 .. Len(d) |-> c[i]]
    <3>1. c \in Seq(Names) BY <1>5 DEF Path
    <3> HIDE DEF c
    <3> QED BY <1>2, <2>1, <3>1
  <2>4. SubSeq(p, 1, Len(d)) = [i \in 1 .. Len(d) |-> p[i]] BY <1>1, <1>2
  <2>5. \A i \in 1 .. Len(d) : c[i] = p[i] BY <1>2, <2>1
  <2> QED BY <1>2, <2>2, <2>3, <2>4, <2>5
<1>7. Below(c, d) BY <1>5, <1>6, BelowParent
<1> QED BY <1>5, <1>6, <1>7

\* The directory that closes an entry has its bits.
LEMMA ClosedShut ==
    ASSUME TypeInv, WinsInv, Going, pc \in EntryStages, NEW n \in Made, Closed(n, cur)
    PROVE  LET d == archive[n].path
           IN  /\ n \in Past /\ d \in DOMAIN tree /\ d \in Path /\ d # <<>>
               /\ \A x \in {"w", "x"} : x \notin archive[n].mode \ set.mask => x \notin tree[d].perm
<1> DEFINE d == archive[n].path
<1>1. n \in Past /\ archive[n].kind \in DirKinds /\ archive[n].mode # None
  BY PastBefore DEF Closed, WinsInv
<1>2. d \in DOMAIN tree /\ tree[d].kind = "dir" BY <1>1 DEF Going, Present
<1>3. ASSUME NEW x \in {"w", "x"}, x \notin archive[n].mode \ set.mask PROVE x \notin tree[d].perm
  <2>1. ASSUME NEW i \in Past, archive[i].path = archive[n].path, archive[i].mode # None
        PROVE  i = n \/ Before(i, n)
    <3>1. i \in Made /\ Before(i, cur) BY PastBefore DEF WinsInv, Past
    <3>2. i \in Nat /\ n \in Nat BY <3>1, Numbers
    <3>3. ~Before(n, i) BY <2>1, <3>1 DEF Closed
    <3> QED BY <3>2, <3>3, BeforeOrder
  <2>2. Shuts(n, x) BY <1>1, <1>3, <2>1 DEF Shuts
  <2> QED BY <1>1, <1>2, <2>2 DEF Going, Bits
<1>4. d \in Path /\ d # <<>> BY <1>2, TreeLinked DEF Made
<1> QED BY <1>1, <1>2, <1>3, <1>4

\* No directory was closed to an entry that has been unpacked.
LEMMA NotClosed ==
    ASSUME TypeInv, LostInv, WinsInv, Undisturbed, Going, EntryStep, cur \in Made, pc' = "next",
           NEW n \in Made
    PROVE  ~Closed(n, cur)
<1> DEFINE P == Parent(E.path)
           d == archive[n].path
           bits == archive[n].mode \ set.mask
           c == SubSeq(E.path, 1, Len(d) + 1)
<1> SUFFICES ASSUME Closed(n, cur) PROVE FALSE OBVIOUS
<1>1. /\ pc \in {"mkdir", "chmod", "fchmod", "hardlink", "symlink", "relink", "lutimes"}
      /\ E.path \in Path /\ E.path # <<>> /\ Free(tree, P)
      /\ Reached(tree, P) /\ MaySearch(tree, P)
      /\ E.path \notin DOMAIN tree \/ E.kind \notin DirKinds => MayWrite(tree, P)
  BY AtEnd
<1>2. pc \in EntryStages BY EntryKeeps
<1>3. /\ n \in Past /\ d \in DOMAIN tree /\ d \in Path /\ d # <<>>
      /\ \A x \in {"w", "x"} : x \notin bits => x \notin tree[d].perm
  BY <1>2, ClosedShut
<1>4. Below(E.path, d) => MaySearch(tree, d)
  BY <1>1, <1>3, BelowParent DEF Reached
<1>5. CASE "x" \notin bits /\ E.kind = "hardlink" /\ E.link # None /\ Below(E.link, d)
  <2>1. pc = "hardlink" BY <1>1, <1>5 DEF LostInv, Kinds, DirKinds
  <2>2. E.link \notin {None, <<>>} /\ Canon(tree, E.link) # None
    BY <2>1, StepOf DEF HardLink, Fail, Go
  <2>3. E.link \in Path BY <1>2, <2>2, EntryType1
  <2>4. ~Bends(E.link)
    <3>1. Direct /\ cur \in DOMAIN archive BY DEF Undisturbed, Straight, Made
    <3> QED BY <1>5, <3>1 DEF Direct, E
  <2>5. Free(tree, E.link)
    <3>1. Direct BY DEF Undisturbed, Straight
    <3> QED BY <2>2, <2>4, <3>1 DEF LostInv, LinksKnown, Bends, Free
  <2>6. Reached(tree, E.link) BY <2>2, <2>3, <2>5, FreeCanon, TreeLinked
  <2>7. MaySearch(tree, d) BY <1>3, <1>5, <2>6 DEF Reached
  <2> QED BY <1>3, <1>5, <2>7 DEF MaySearch
<1>6. CASE "x" \notin bits /\ Below(E.path, d)
  BY <1>3, <1>4, <1>6 DEF MaySearch
<1>7. CASE /\ "w" \notin bits /\ Below(E.path, d)
           /\ \/ c = E.path /\ E.kind \notin DirKinds
              \/ ~\E i \in Made : Before(i, n) /\ Makes(i, c)
  <2>1. c \in Path /\ c # <<>> /\ Parent(c) = d /\ (c = E.path \/ Below(E.path, c)) /\ Below(c, d)
    BY <1>1, <1>3, <1>7, ChildOf
  <2>2. ~MayWrite(tree, d) BY <1>3, <1>7 DEF MayWrite
  <2>3. ~(c = E.path /\ E.kind \notin DirKinds) BY <1>1, <2>1, <2>2
  <2>4. c \in DOMAIN tree
    <3>1. CASE c = E.path BY <1>1, <2>1, <2>2, <3>1
    <3>2. CASE Below(E.path, c)
      <4>1. c = P \/ Below(P, c) BY <1>1, <2>1, <3>2, BelowParent
      <4> QED BY <1>1, <2>1, <4>1 DEF Reached, MaySearch, IsDir
    <3> QED BY <2>1, <3>1, <3>2
  <2> HIDE DEF c
  <2>5. PICK i \in Past : Makes(i, c) BY <2>1, <2>2, <2>4 DEF Going, Whose
  <2>6. i \in Made /\ Before(i, cur) BY <1>2, PastBefore DEF WinsInv, Past
  <2>7. archive[i].path \in Path
    <3>1. archive[i] \in EntryType BY <2>6, Numbers DEF Made
    <3> QED BY <2>6, <3>1 DEF EntryType, Made
  <2>8. Below(archive[i].path, d) BY <1>3, <2>1, <2>5, <2>7, BelowBelow DEF Makes
  <2>9. SubSeq(archive[i].path, 1, Len(d) + 1) = c BY <2>1, <2>5, <2>7, ChildOnWay DEF Makes
  <2>10. i # n BY <1>3, <2>8, BelowParent
  <2>11. i \in Nat /\ n \in Nat /\ cur \in Nat BY <2>6, Numbers
  <2>12. Before(n, i) BY <1>7, <2>3, <2>5, <2>6, <2>10, <2>11, BeforeOrder
  <2>13. ASSUME NEW j \in Made, Before(n, j), Before(j, i), archive[j].path = d
         PROVE  archive[j].mode = None
    <3>1. j \in Nat BY Numbers
    <3>2. Before(j, cur) BY <2>6, <2>11, <2>13, <3>1, BeforeBefore
    <3> QED BY <2>13, <3>2 DEF Closed
  <2>14. Closed(n, i)
    <3>1. archive[n].kind \in DirKinds /\ archive[n].mode # None BY DEF Closed
    <3>2. ~\E j \in Made : Before(j, n) /\ Makes(j, c) BY <1>7, <2>3
    <3> QED BY <1>7, <2>8, <2>9, <2>12, <2>13, <3>1, <3>2 DEF Closed
  <2> QED BY <2>14 DEF Going, Sofar, Bad
<1> QED BY <1>5, <1>6, <1>7 DEF Closed, E

\* An entry that has been unpacked is no link to what is not there.
LEMMA NotBadLink ==
    ASSUME TypeInv, LostInv, WinsInv, Undisturbed, Going, EntryStep, cur \in Made, pc' = "next"
    PROVE  ~BadLink(cur)
<1>0. pc \in {"mkdir", "chmod", "fchmod", "hardlink", "symlink", "relink", "lutimes"}
  BY AtEnd
<1>1. pc \in EntryStages BY EntryKeeps
<1>2. ASSUME E.kind = "symlink" PROVE E.link \notin {None, <<>>}
  <2>1. pc \in {"symlink", "relink", "lutimes"} BY <1>0, <1>2 DEF LostInv, Kinds, DirKinds
  <2>2. CASE pc = "symlink" BY <2>2, StepOf DEF SymLink, Fail, Go
  <2>3. CASE pc = "relink" BY <2>3 DEF TypeInv, Staged
  <2>4. CASE pc = "lutimes" BY <2>4 DEF Going, Reaching
  <2> QED BY <2>1, <2>2, <2>3, <2>4
<1>3. ASSUME E.kind = "hardlink"
      PROVE  /\ E.link \notin {None, <<>>}
             /\ \E m \in Made : LinkedTo(cur, m) /\ archive[m].kind \notin DirKinds
  <2>1. pc = "hardlink" BY <1>0, <1>3 DEF LostInv, Kinds, DirKinds
  <2>2. /\ E.link \notin {None, <<>>} /\ Canon(tree, E.link) # None
        /\ tree[Place(tree, E.link)].kind # "dir"
    BY <2>1, StepOf DEF HardLink, Fail, Go
  <2>3. E.link \in Path /\ E.link \in DOMAIN tree /\ tree[E.link].kind # "dir"
    BY <2>1, <2>2, DirectLink DEF LostInv, Undisturbed, Straight
  <2>4. \A n \in Past : /\ archive[n].path \in DOMAIN tree
                        /\ tree[archive[n].path].kind = "dir" <=> archive[n].kind \in DirKinds
    BY <2>1 DEF Going, Present, Pending
  <2> DEFINE T == {m \in Made : archive[m].path = E.link /\ Before(m, cur)}
  <2>5. \A m \in T : m \in Past /\ archive[m].kind \notin DirKinds
    BY <1>1, <2>3, <2>4, PastBefore DEF WinsInv
  <2>6. T # {}
    <3>1. PICK n \in Past : Makes(n, E.link) BY <2>1, <2>2, <2>3 DEF Going, Whose
    <3>2. ~Below(archive[n].path, E.link)
      <4>1. IsRooted(tree) BY DEF TypeInv, TypeOK
      <4> QED BY <2>3, <2>4, <4>1, AboveDir DEF IsDir
    <3>3. n \in T BY <1>1, <3>1, <3>2, PastBefore DEF Makes, WinsInv, Past
    <3> QED BY <3>3
  <2>7. Len(archive) \in Nat /\ T \in SUBSET (1 .. Len(archive)) BY Numbers
  <2>8. PICK m \in T : \A i \in T : i <= m
    <3> HIDE DEF T
    <3> QED BY <2>6, <2>7, GreatestNumber
  <2>9. \A i \in T : i = m \/ Before(i, m)
    <3> SUFFICES ASSUME NEW i \in T PROVE i = m \/ Before(i, m) OBVIOUS
    <3>1. i \in Nat /\ m \in Nat /\ i <= m BY <2>7, <2>8
    <3>2. archive[i].kind # "dir" /\ archive[m].kind # "dir" BY <2>5 DEF DirKinds
    <3> QED BY <3>1, <3>2 DEF Before
  <2>10. LinkedTo(cur, m) BY <2>8, <2>9 DEF LinkedTo, E
  <2> QED BY <2>2, <2>5, <2>10
<1> QED BY <1>2, <1>3 DEF BadLink, E

\* An entry that has been unpacked is not bad.
LEMMA NotBad ==
    ASSUME TypeInv, LostInv, WinsInv, Undisturbed, Going, EntryStep, cur \in Made, pc' = "next"
    PROVE  ~Bad(cur)
BY NotClashing, NotClosed, NotBadLink DEF Bad

-----------------------------------------------------------------------------
\* It leaves the tree as it is.
LeftAlone ==
    /\ tree' = tree /\ pc' # "parents"
    /\ pc = "mkdir" => IsDir(tree, E.path) /\ MaySearch(tree, Parent(E.path))
    /\ pc \in {"parents", "mkdir", "open", "symlink", "copy", "utimes", "fchmod", "lutimes"}
    /\ pc = "parents" => Reached(tree, Parent(E.path))
    /\ pc \in {"open", "symlink"} =>
            /\ E.path \in DOMAIN tree /\ MaySearch(tree, Parent(E.path))
            /\ set.overwrite /\ pc' \in {"remove", "unlink"}

\* It makes a directory on the way, which may be written where that is.
MadeAbove ==
    /\ pc = "parents" /\ pc' = "parents" /\ cur \in Made
    /\ \E q \in Path :
        /\ q # <<>> /\ q \notin DOMAIN tree /\ Below(E.path, q) /\ MayWrite(tree, Parent(q))
        /\ tree' = With(tree, q, NewDir)

\* It makes what the entry says, where nothing is.
MadeHere ==
    /\ pc \in {"mkdir", "open", "reopen", "hardlink", "symlink", "relink"}
    /\ E.path \notin DOMAIN tree /\ MayWrite(tree, Parent(E.path))
    /\ pc' \in {"chmod", "copy", "lutimes", "next"}
    /\ \E node : /\ tree' = With(tree, E.path, node)
                 /\ node.kind = "dir" <=> E.kind \in DirKinds
                 /\ E.kind \in DirKinds => node = NewDir

\* It removes what is to be replaced.
RemovedHere ==
    /\ pc \in {"remove", "unlink"} /\ pc' \in {"reopen", "relink"}
    /\ E.path \in DOMAIN tree /\ tree[E.path].kind # "dir"
    /\ tree' = Without(tree, E.path)

\* It gives a directory its permissions.
ChangedHere ==
    /\ pc = "chmod" /\ pc' = "next" /\ IsDir(tree, E.path)
    /\ E.kind \in DirKinds /\ E.mode # None
    /\ tree' = With(tree, E.path, Dir(Perms(E)))

\* A step of an entry that does not fail does one of these to the tree.
LEMMA StepShape ==
    ASSUME TypeInv, LostInv, WinsInv, Undisturbed, Going, EntryStep, cur \in Made,
           pc' # "failed"
    PROVE  LeftAlone \/ MadeAbove \/ MadeHere \/ RemovedHere \/ ChangedHere
<1> DEFINE P == Parent(E.path)
<1>1. pc \in EntryStages /\ Straight BY EntryKeeps DEF Undisturbed
<1>2. E \in EntryType /\ E.path \in Path /\ E.path # <<>> /\ E.path # None /\ Free(tree, P)
  BY <1>1, EntryNow
<1>3. P \in Path BY <1>2, ParentPath
<1>4. pc # "parents" => Reached(tree, P) BY <1>1 DEF Going, Reaching
<1>5. Place(tree, E.path) = (IF Reached(tree, P) /\ MaySearch(tree, P) THEN E.path ELSE None)
      /\ Canon(tree, P) = IF Reached(tree, P) THEN P ELSE None
  BY <1>2, PlaceFree, TreeLinked
<1>6. ASSUME Place(tree, E.path) # None
      PROVE  /\ Place(tree, E.path) = E.path /\ Reached(tree, P) /\ MaySearch(tree, P)
             /\ MayCreate(tree, E.path) <=> E.path \notin DOMAIN tree /\ MayWrite(tree, P)
             /\ Exists(tree, E.path) <=> E.path \in DOMAIN tree
             /\ MayRemove(tree, E.path) <=>
                    E.path \in DOMAIN tree /\ tree[E.path].kind # "dir" /\ MayWrite(tree, P)
             /\ E.path \in DOMAIN tree /\ tree[E.path].kind # "symlink" =>
                    Canon(tree, E.path) = E.path
  <2>1. Reached(tree, P) /\ MaySearch(tree, P) BY <1>5, <1>6
  <2> QED BY <1>2, <2>1, HereIs
<1>7. ASSUME NEW node, MayCreate(tree, E.path), Make(E.path, node),
             pc \in {"mkdir", "open", "reopen", "hardlink", "symlink", "relink"},
             pc' \in {"chmod", "copy", "lutimes", "next"},
             node.kind = "dir" <=> E.kind \in DirKinds,
             E.kind \in DirKinds => node = NewDir
      PROVE  MadeHere
  <2>1. Place(tree, E.path) # None BY <1>7 DEF MayCreate
  <2> QED BY <1>6, <1>7, <2>1 DEF MadeHere, Make
<1>8. CASE MakeParent
  <2>1. IsDir(tree, <<>>) BY DEF Going
  <2>2. PICK q \in Path :
             /\ q # <<>> /\ Below(E.path, q) /\ ~Exists(tree, q)
             /\ Parent(q) \in DOMAIN tree /\ Free(tree, Parent(q))
             /\ cur \in Made
             /\ IF MayCreate(tree, q) THEN Make(q, NewDir) /\ pc' = "parents" ELSE pc' = "failed"
    BY <1>1, <1>8, <2>1, FirstMissing
  <2>3. MayCreate(tree, q) /\ Make(q, NewDir) /\ pc' = "parents" BY <2>2
  <2>4. Place(tree, q) # None BY <2>3 DEF MayCreate
  <2>5. Reached(tree, Parent(q)) /\ MaySearch(tree, Parent(q)) BY <2>2, <2>4, PlaceFree, TreeLinked
  <2>6. Place(tree, q) = q /\ q \notin DOMAIN tree /\ MayWrite(tree, Parent(q))
    BY <2>2, <2>3, <2>5, HereIs
  <2> QED BY <1>8, <2>2, <2>3, <2>6 DEF MadeAbove, Make, MakeParent
<1>9. CASE Validate
  <2>1. tree' = tree /\ Canon(tree, P) # None /\ pc' = FirstCall(E.kind) /\ pc = "parents"
    BY <1>9 DEF Validate, Go
  <2>2. Reached(tree, P) BY <1>5, <2>1
  <2>3. pc' # "parents" BY <1>2, <2>1, FirstCalls
  <2> QED BY <2>1, <2>2, <2>3 DEF LeftAlone
<1>10. CASE pc = "mkdir"
  <2>1. E.kind \in DirKinds BY <1>10 DEF LostInv, Kinds
  <2>2. MakeDir BY <1>10, StepOf
  <2>3. CASE MayCreate(tree, E.path)
    <3>1. Make(E.path, NewDir) /\ pc' \in {"chmod", "next"} BY <2>2, <2>3 DEF MakeDir, Go, AfterDir
    <3>2. NewDir.kind = "dir" BY DEF NewDir, Dir
    <3> QED BY <1>7, <1>10, <2>1, <2>3, <3>1, <3>2
  <2>4. CASE ~MayCreate(tree, E.path)
    <3>1. tree' = tree /\ Exists(tree, E.path) /\ DenotesDir(tree, E.path) /\ pc' # "parents"
      BY <2>2, <2>4 DEF MakeDir, Go, AfterDir
    <3>2. Canon(tree, E.path) \in {None, E.path} BY <1>1, <2>1, OwnPlace DEF LostInv
    <3>3. None \notin DOMAIN tree BY TreeLinked
    <3>4. IsDir(tree, E.path) BY <3>1, <3>2, <3>3 DEF DenotesDir, IsDir
    <3>5. MaySearch(tree, P) BY <1>6, <3>1 DEF Exists
    <3> QED BY <1>10, <3>1, <3>4, <3>5 DEF LeftAlone
  <2> QED BY <2>3, <2>4
<1>11. CASE pc = "chmod"
  <2>1. E.kind \in DirKinds /\ E.mode # None BY <1>11 DEF LostInv, Kinds, TypeInv, Staged
  <2>2. SetDirPerms BY <1>11, StepOf
  <2>3. IsDir(tree, E.path) /\ Reached(tree, P) /\ MaySearch(tree, P)
    BY <1>4, <1>11 DEF Going, Reaching, EntryStages
  <2>4. Canon(tree, E.path) = E.path BY <1>2, <1>5, <1>6, <2>3 DEF IsDir
  <2>5. E.path # None BY <2>3, TreeLinked DEF IsDir
  <2> QED BY <1>11, <2>1, <2>2, <2>3, <2>4, <2>5 DEF SetDirPerms, Go, ChangedHere
<1>12. CASE pc \in {"open", "reopen"}
  <2>1. E.kind \notin DirKinds BY <1>12 DEF LostInv, Kinds, DirKinds
  <2>2. CASE CreateNew
    <3>1. MayCreate(tree, E.path) /\ Make(E.path, File(Len(disk) + 1)) /\ pc' = "copy"
      BY <2>2 DEF CreateNew, Go
    <3>2. File(Len(disk) + 1).kind = "file" BY DEF File
    <3> QED BY <1>7, <1>12, <2>1, <3>1, <3>2
  <2>3. CASE ~CreateNew
    <3>1. pc = "open" /\ tree' = tree /\ pc' = "remove" /\ Exists(tree, E.path) /\ set.overwrite
      BY <1>12, <2>3, StepOf DEF Open, Reopen, Fail, Go
    <3>2. E.path \in DOMAIN tree /\ MaySearch(tree, P) BY <1>6, <3>1 DEF Exists
    <3> QED BY <3>1, <3>2 DEF LeftAlone
  <2> QED BY <2>2, <2>3
<1>13. CASE pc \in {"remove", "unlink"}
  <2>1. MaySearch(tree, P) /\ E.path \in DOMAIN tree BY <1>13 DEF Going, Reaching, EntryStages
  <2>2. Place(tree, E.path) = E.path /\ Exists(tree, E.path) BY <1>2, <1>4, <1>5, <1>6, <1>13, <2>1
  <2>3. MayRemove(tree, E.path) /\ tree' = Without(tree, E.path) /\ pc' \in {"reopen", "relink"}
    BY <1>13, <2>2, StepOf DEF Remove, Unlink, Go
  <2> QED BY <1>13, <2>1, <2>2, <2>3 DEF RemovedHere, MayRemove, Exists
<1>14. CASE pc \in {"symlink", "relink"}
  <2>1. E.kind \notin DirKinds BY <1>14 DEF LostInv, Kinds, DirKinds
  <2>2. CASE MayCreate(tree, E.path)
    <3>1. Make(E.path, Symlink(E.link)) /\ pc' \in {"lutimes", "next"}
      BY <1>14, <2>2, StepOf DEF SymLink, Relink, Fail, Go, AfterLink
    <3>2. Symlink(E.link).kind = "symlink" BY DEF Symlink
    <3> QED BY <1>7, <1>14, <2>1, <2>2, <3>1, <3>2
  <2>3. CASE ~MayCreate(tree, E.path)
    <3>1. pc = "symlink" /\ tree' = tree /\ pc' = "unlink" /\ Exists(tree, E.path) /\ set.overwrite
      BY <1>14, <2>3, StepOf DEF SymLink, Relink, Fail, Go
    <3>2. E.path \in DOMAIN tree /\ MaySearch(tree, P) BY <1>6, <3>1 DEF Exists
    <3> QED BY <3>1, <3>2 DEF LeftAlone
  <2> QED BY <2>2, <2>3
<1>15. CASE pc = "hardlink"
  <2>1. E.kind \notin DirKinds BY <1>15 DEF LostInv, Kinds, DirKinds
  <2>2. /\ MayCreate(tree, E.path) /\ pc' = "next" /\ Make(E.path, tree[Place(tree, E.link)])
        /\ tree[Place(tree, E.link)].kind # "dir"
    BY <1>15, StepOf DEF HardLink, Fail, Go
  <2> QED BY <1>7, <1>15, <2>1, <2>2
<1>16. CASE pc \in {"copy", "utimes", "fchmod", "lutimes"}
  <2>1. tree' = tree /\ pc' # "parents"
    BY <1>16, StepOf DEF Copy, SetTimes, SetFilePerms, SetLinkTimes, Fail, Go, AfterFile
  <2> QED BY <1>16, <2>1 DEF LeftAlone
<1>17. pc = "parents" => MakeParent \/ Validate BY StepOf
<1> QED BY <1>1, <1>8, <1>9, <1>10, <1>11, <1>12, <1>13, <1>14, <1>15, <1>16, <1>17 DEF EntryStages

\* What that means for one node.
LEMMA NodeNow ==
    ASSUME LeftAlone \/ MadeAbove \/ MadeHere \/ RemovedHere \/ ChangedHere,
           ~Below(E.path, E.path),
           NEW p \in DOMAIN tree
    PROVE  /\ p # E.path => p \in DOMAIN tree' /\ tree'[p] = tree[p]
           /\ p = E.path =>
                \/ p \in DOMAIN tree' /\ tree'[p] = tree[p] /\ (LeftAlone \/ MadeAbove)
                \/ RemovedHere /\ p \notin DOMAIN tree'
                \/ ChangedHere /\ p \in DOMAIN tree' /\ tree'[p] = Dir(Perms(E))
<1>1. CASE LeftAlone BY <1>1 DEF LeftAlone
<1>2. CASE MadeAbove BY <1>2 DEF MadeAbove, With
<1>3. CASE MadeHere BY <1>3 DEF MadeHere, With
<1>4. CASE RemovedHere BY <1>4 DEF RemovedHere, Without
<1>5. CASE ChangedHere BY <1>5 DEF ChangedHere, With
<1> QED BY <1>1, <1>2, <1>3, <1>4, <1>5

\* Where something new comes from.
LEMMA NodeNew ==
    ASSUME LeftAlone \/ MadeAbove \/ MadeHere \/ RemovedHere \/ ChangedHere,
           NEW p \in DOMAIN tree', p \notin DOMAIN tree
    PROVE  \/ /\ MadeAbove /\ p # <<>> /\ p \in Path /\ Below(E.path, p)
              /\ MayWrite(tree, Parent(p)) /\ tree'[p] = NewDir
           \/ /\ MadeHere /\ p = E.path /\ MayWrite(tree, Parent(p))
              /\ tree'[p].kind = "dir" <=> E.kind \in DirKinds
              /\ E.kind \in DirKinds => tree'[p] = NewDir
<1>1. ~LeftAlone BY DEF LeftAlone
<1>2. ~RemovedHere BY DEF RemovedHere, Without
<1>3. ~ChangedHere BY DEF ChangedHere, With, IsDir
<1>4. CASE MadeAbove BY <1>4 DEF MadeAbove, With
<1>5. CASE MadeHere BY <1>5 DEF MadeHere, With
<1> QED BY <1>1, <1>2, <1>3, <1>4, <1>5

\* Either the entry is not yet done, or it is one of the past now.
LEMMA PastNow ==
    ASSUME TypeInv, Queue, EntryStep, cur \in Made, pc' # "failed"
    PROVE  /\ \/ pc' \in EntryStages /\ Past' = Past
              \/ pc' = "next" /\ Past' = Past \cup {cur}
           /\ UNCHANGED <<archive, set, first, meddles, attempts, cur>> /\ E' = E
           /\ Made' = Made /\ DirKinds' = DirKinds /\ pc \in EntryStages /\ cur \notin Past
           /\ \A n, m : Before(n, m)' <=> Before(n, m)
<1>1. /\ UNCHANGED <<archive, set, first, meddles, attempts, cur>> /\ E' = E
      /\ pc \in EntryStages
  BY EntryKeeps
<1>2. pc' \in EntryStages \cup {"next"}
  <2>1. E \in EntryType BY <1>1, EntryType1
  <2> QED BY <2>1, EntryGoes, FirstCalls DEF EntryStages
<1>3. DirKinds' = DirKinds BY DEF DirKinds
<1> QED BY <1>1, <1>2, <1>3, PastGrows

\* A step of an entry that does not fail keeps Present.
LEMMA PresentStep ==
    ASSUME TypeInv, LostInv, WinsInv, Undisturbed, Going, EntryStep, cur \in Made,
           pc' # "failed"
    PROVE  Present'
<1>1. /\ \/ pc' \in EntryStages /\ Past' = Past
         \/ pc' = "next" /\ Past' = Past \cup {cur}
      /\ archive' = archive /\ E' = E /\ DirKinds' = DirKinds /\ pc \in EntryStages
  BY PastNow DEF WinsInv
<1>2. LeftAlone \/ MadeAbove \/ MadeHere \/ RemovedHere \/ ChangedHere BY StepShape
<1>3. ~Below(E.path, E.path) BY <1>1, EntryNow, BelowParent DEF Undisturbed
<1>4. Pending' = IF pc' \in {"reopen", "relink"} THEN {E.path} ELSE {} BY <1>1 DEF Pending
<1>5. ASSUME NEW n \in Past
      PROVE  \/ /\ archive[n].path \in DOMAIN tree'
                /\ tree'[archive[n].path].kind = "dir" <=> archive[n].kind \in DirKinds
             \/ archive[n].path \in Pending' /\ archive[n].kind \notin DirKinds
  <2> DEFINE p == archive[n].path
  <2>1. CASE p \in DOMAIN tree /\ (tree[p].kind = "dir" <=> archive[n].kind \in DirKinds)
    <3>1. CASE p \in DOMAIN tree' /\ tree'[p] = tree[p] BY <2>1, <3>1
    <3>2. CASE p = E.path /\ RemovedHere
      BY <1>4, <2>1, <3>2 DEF RemovedHere
    <3>3. CASE p = E.path /\ ChangedHere /\ p \in DOMAIN tree' /\ tree'[p] = Dir(Perms(E))
      BY <2>1, <3>3 DEF ChangedHere, IsDir, Dir
    <3> QED BY <1>2, <1>3, <2>1, <3>1, <3>2, <3>3, NodeNow
  <2>2. CASE p \in Pending /\ archive[n].kind \notin DirKinds
    <3>1. pc \in {"reopen", "relink"} /\ p = E.path BY <2>2 DEF Pending
    <3>2. E.kind \notin DirKinds BY <3>1 DEF LostInv, Kinds, DirKinds
    <3>3. MadeHere BY <1>2, <3>1 DEF LeftAlone, MadeAbove, RemovedHere, ChangedHere
    <3>4. E.path \in DOMAIN tree' /\ tree'[E.path].kind # "dir"
      BY <3>2, <3>3 DEF MadeHere, With
    <3> QED BY <2>2, <3>1, <3>4
  <2> QED BY <2>1, <2>2 DEF Going, Present
<1>6. ASSUME pc' = "next"
      PROVE  E.path \in DOMAIN tree' /\ (tree'[E.path].kind = "dir" <=> E.kind \in DirKinds)
  <2>1. /\ pc \in {"mkdir", "chmod", "fchmod", "hardlink", "symlink", "relink", "lutimes"}
        /\ E.path \in DOMAIN tree => (tree[E.path].kind = "dir" <=> E.kind \in DirKinds)
        /\ E.path \notin DOMAIN tree => pc \in {"mkdir", "hardlink", "symlink", "relink"}
    BY <1>6, AtEnd
  <2>2. CASE LeftAlone
    <3>1. tree' = tree BY <2>2 DEF LeftAlone
    <3>2. E.path \in DOMAIN tree BY <1>6, <2>1, <2>2 DEF LeftAlone, IsDir
    <3> QED BY <2>1, <3>1, <3>2
  <2>3. CASE MadeHere BY <2>3 DEF MadeHere, With
  <2>4. CASE ChangedHere BY <2>4 DEF ChangedHere, With, Dir
  <2> QED BY <1>2, <1>6, <2>2, <2>3, <2>4 DEF MadeAbove, RemovedHere
<1>7. \A n \in Past' :
         \/ /\ archive[n].path \in DOMAIN tree'
            /\ tree'[archive[n].path].kind = "dir" <=> archive[n].kind \in DirKinds
         \/ archive[n].path \in Pending' /\ archive[n].kind \notin DirKinds
  BY <1>1, <1>5, <1>6 DEF E
<1> QED BY <1>1, <1>7 DEF Present

\* A step of an entry that does not fail keeps Whose.
LEMMA WhoseStep ==
    ASSUME TypeInv, LostInv, WinsInv, Undisturbed, Going, EntryStep, cur \in Made,
           pc' # "failed"
    PROVE  Whose'
<1>1. /\ \/ pc' \in EntryStages /\ Past' = Past
         \/ pc' = "next" /\ Past' = Past \cup {cur}
      /\ archive' = archive /\ E' = E /\ cur' = cur /\ Made' = Made /\ pc \in EntryStages
  BY PastNow DEF WinsInv
<1>2. LeftAlone \/ MadeAbove \/ MadeHere \/ RemovedHere \/ ChangedHere BY StepShape
<1>3. /\ E.path \in Path /\ E.path # <<>> BY <1>1, EntryNow DEF Undisturbed
<1>4. ~Below(E.path, E.path) /\ Below(E.path, Parent(E.path)) /\ Parent(E.path) # E.path
  BY <1>3, ParentPath, BelowParent
<1>6. ASSUME NEW r, MayWrite(tree, r), r # E.path PROVE MayWrite(tree', r)
  <2>1. r \in DOMAIN tree /\ tree[r].kind = "dir" BY <1>6 DEF MayWrite, MaySearch, IsDir
  <2>2. r \in DOMAIN tree' /\ tree'[r] = tree[r] BY <1>2, <1>4, <1>6, <2>1, NodeNow
  <2> QED BY <1>6, <2>2 DEF MayWrite, MaySearch, IsDir
<1>7. ASSUME NEW p \in DOMAIN tree', p # <<>>
      PROVE  \/ \E n \in Past' : Makes(n, p)
             \/ /\ pc' \in EntryStages /\ MayWrite(tree', Parent(p))
                /\ \/ p = E.path /\ pc' \in {"chmod", "copy", "utimes", "fchmod", "lutimes"}
                   \/ Below(E.path, p) /\ tree'[p].kind = "dir"
  <2>1. CASE pc' = "next" /\ (p = E.path \/ Below(E.path, p))
    <3>1. Makes(cur, p) /\ cur \in Past' BY <1>1, <2>1 DEF Makes, E, EntryStages
    <3> QED BY <3>1
  <2>2. CASE p \notin DOMAIN tree /\ pc' \in EntryStages
    <3>1. CASE MadeAbove /\ p # <<>> /\ p \in Path /\ Below(E.path, p)
               /\ MayWrite(tree, Parent(p)) /\ tree'[p] = NewDir
      <4>1. Below(E.path, Parent(p)) BY <1>3, <3>1, ChildOnWay
      <4>2. MayWrite(tree', Parent(p)) BY <1>4, <1>6, <3>1, <4>1
      <4> QED BY <2>2, <3>1, <4>2 DEF NewDir, Dir
    <3>2. CASE MadeHere /\ p = E.path /\ MayWrite(tree, Parent(p))
      <4>1. MayWrite(tree', Parent(p)) BY <1>4, <1>6, <3>2
      <4> QED BY <2>2, <3>2, <4>1 DEF MadeHere, EntryStages
    <3> QED BY <1>2, <2>2, <3>1, <3>2, NodeNew
  <2>3. CASE p \in DOMAIN tree /\ \E n \in Past : Makes(n, p) BY <1>1, <2>3
  <2>4. CASE /\ p \in DOMAIN tree /\ MayWrite(tree, Parent(p))
             /\ pc' \in EntryStages
             /\ \/ p = E.path /\ pc \in {"chmod", "copy", "utimes", "fchmod", "lutimes"}
                \/ Below(E.path, p) /\ tree[p].kind = "dir"
    <3>1. p \in Path BY <2>4, TreeLinked
    <3>2. Below(E.path, Parent(p)) BY <1>3, <1>7, <2>4, <3>1, ChildOnWay
    <3>3. MayWrite(tree', Parent(p)) BY <1>4, <1>6, <2>4, <3>2
    <3>4. Below(E.path, p) => tree'[p].kind = tree[p].kind BY <1>2, <1>4, <2>4, NodeNow
    <3>5. pc \in {"chmod", "copy", "utimes", "fchmod", "lutimes"} => pc' \in {"utimes", "fchmod"}
      BY <2>4, EntryGoes DEF EntryStages
    <3> QED BY <2>4, <3>3, <3>4, <3>5
  <2>5. CASE p \in DOMAIN tree
    <3>1. \/ \E n \in Past : Makes(n, p)
          \/ /\ MayWrite(tree, Parent(p))
             /\ \/ p = E.path /\ pc \in {"chmod", "copy", "utimes", "fchmod", "lutimes"}
                \/ Below(E.path, p) /\ tree[p].kind = "dir"
      BY <1>7, <2>5 DEF Going, Whose
    <3> QED BY <1>1, <2>1, <2>3, <2>4, <2>5, <3>1
  <2>6. CASE p \notin DOMAIN tree
    <3>1. p = E.path \/ Below(E.path, p) BY <1>2, <2>6, NodeNew
    <3> QED BY <1>1, <2>1, <2>2, <2>6, <3>1
  <2> QED BY <2>5, <2>6
<1>8. \A p \in DOMAIN tree' :
        \/ p = <<>>
        \/ \E n \in Past' : archive[n].path = p \/ Below(archive[n].path, p)
        \/ /\ pc' \in EntryStages /\ cur \in Made /\ MayWrite(tree', Parent(p))
           /\ \/ p = E.path /\ pc' \in {"chmod", "copy", "utimes", "fchmod", "lutimes"}
              \/ Below(E.path, p) /\ tree'[p].kind = "dir"
  BY <1>7 DEF Makes
<1> QED BY <1>1, <1>8 DEF Whose, Makes, EntryStages, Below, MayWrite, MaySearch, IsDir

\* A step of an entry that does not fail keeps Bits.
LEMMA BitsStep ==
    ASSUME TypeInv, LostInv, WinsInv, Undisturbed, Going, EntryStep, cur \in Made,
           pc' # "failed"
    PROVE  Bits'
<1> DEFINE Last(C, n) == \A i \in C : archive[i].path = archive[n].path /\ archive[i].mode # None =>
                                        i = n \/ Before(i, n)
           Takes(n, x) == /\ archive[n].kind \in DirKinds /\ archive[n].mode # None
                          /\ x \notin archive[n].mode \ set.mask
<1>1. /\ \/ pc' \in EntryStages /\ Past' = Past
         \/ pc' = "next" /\ Past' = Past \cup {cur}
      /\ UNCHANGED <<archive, set>> /\ E' = E /\ DirKinds' = DirKinds /\ pc \in EntryStages
      /\ cur \notin Past
      /\ \A n, m : Before(n, m)' <=> Before(n, m)
  BY PastNow DEF WinsInv
<1>2. LeftAlone \/ MadeAbove \/ MadeHere \/ RemovedHere \/ ChangedHere BY StepShape
<1>3. /\ E.path \in Path /\ E.path # <<>> /\ ~Below(E.path, E.path)
  BY <1>1, EntryNow, BelowParent DEF Undisturbed
<1>4. \A n, x : Shuts(n, x) <=> Takes(n, x) /\ Last(Past, n) BY DEF Shuts
<1>5. \A n, x : Shuts(n, x)' <=> Takes(n, x) /\ Last(Past', n) BY <1>1 DEF Shuts
<1>6. NewDir.kind = "dir" /\ NewDir.perm = {"w", "x"} BY DEF NewDir, Dir
<1>7. \A n \in Past : Takes(n, "w") \/ Takes(n, "x") => archive[n].path \in DOMAIN tree
  BY DEF Going, Present
<1>8. \A n \in Past : n \in Nat /\ cur \in Nat /\ Before(n, cur) /\ ~Before(cur, n)
  <2> SUFFICES ASSUME NEW n \in Past
               PROVE  n \in Nat /\ cur \in Nat /\ Before(n, cur) /\ ~Before(cur, n)
    OBVIOUS
  <2>1. n \in Made BY DEF Past
  <2>2. n \in Nat /\ cur \in Nat BY <2>1, Numbers
  <2>3. Before(n, cur) BY <1>1, <2>1, PastBefore DEF WinsInv
  <2> QED BY <2>2, <2>3, BeforeOrder
<1> HIDE DEF Takes
<1> SUFFICES ASSUME NEW p \in DOMAIN tree', tree'[p].kind = "dir", NEW x \in {"w", "x"}
             PROVE  x \notin tree'[p].perm <=>
                        \E n \in Past' : archive[n].path = p /\ Takes(n, x) /\ Last(Past', n)
  BY <1>1, <1>5 DEF Bits
<1>9. ASSUME p \in DOMAIN tree, tree'[p] = tree[p]
      PROVE  x \notin tree'[p].perm <=>
                        \E n \in Past : archive[n].path = p /\ Takes(n, x) /\ Last(Past, n)
  BY <1>4, <1>9 DEF Going, Bits
<1>10. ASSUME p \notin DOMAIN tree
       PROVE  tree'[p] = NewDir /\ \A n \in Past : archive[n].path = p => ~Takes(n, x)
  <2>1. tree'[p] = NewDir BY <1>2, <1>10, NodeNew
  <2> QED BY <1>7, <1>10, <2>1
<1>11. CASE pc' # "next"
  <2>1. Past' = Past BY <1>1, <1>11
  <2>2. ~ChangedHere BY <1>11 DEF ChangedHere
  <2>3. p \in DOMAIN tree => tree'[p] = tree[p] BY <1>2, <1>3, <2>2, NodeNow
  <2> QED BY <1>6, <1>9, <1>10, <2>1, <2>3
<1>12. CASE pc' = "next" /\ p # E.path
  <2>1. Past' = Past \cup {cur} BY <1>1, <1>12 DEF EntryStages
  <2>2. p \in DOMAIN tree BY <1>2, <1>12, NodeNew DEF MadeAbove
  <2>3. tree'[p] = tree[p] BY <1>2, <1>3, <1>12, <2>2, NodeNow
  <2>4. archive[cur].path # p BY <1>12 DEF E
  <2>5. \A n \in Past : archive[n].path = p => (Last(Past', n) <=> Last(Past, n))
    BY <2>1, <2>4
  <2> QED BY <1>9, <2>1, <2>2, <2>3, <2>4, <2>5
<1>13. CASE pc' = "next" /\ p = E.path
  <2>1. Past' = Past \cup {cur} BY <1>1, <1>13 DEF EntryStages
  <2>2. pc \in {"mkdir", "chmod"} /\ E.kind \in DirKinds
    <3>1. /\ pc \in {"mkdir", "chmod", "fchmod", "hardlink", "symlink", "relink", "lutimes"}
          /\ E.path \in DOMAIN tree => (tree[E.path].kind = "dir" <=> E.kind \in DirKinds)
      BY <1>13, AtEnd
    <3>2. E.kind \in DirKinds
      <4>1. CASE p \in DOMAIN tree
        <5>1. tree[p].kind = "dir" BY <1>2, <1>3, <1>13, <4>1, NodeNow DEF ChangedHere, IsDir
        <5> QED BY <1>13, <3>1, <4>1, <5>1
      <4>2. CASE p \notin DOMAIN tree
        <5>1. MadeHere /\ (tree'[p].kind = "dir" <=> E.kind \in DirKinds)
          BY <1>2, <1>13, <4>2, NodeNew DEF MadeAbove
        <5> QED BY <5>1
      <4> QED BY <4>1, <4>2
    <3> QED BY <3>1, <3>2 DEF LostInv, Kinds, DirKinds
  <2>3. CASE pc = "mkdir"
    <3>1. E.mode = None BY <1>13, <2>3, StepOf DEF MakeDir, Go, AfterDir
    <3>2. archive[cur].mode = None /\ ~Takes(cur, x) BY <3>1 DEF E, Takes
    <3>3. \A n \in Past : Last(Past', n) <=> Last(Past, n) BY <2>1, <3>2
    <3>4. ~ChangedHere BY <2>3 DEF ChangedHere
    <3>5. p \in DOMAIN tree => tree'[p] = tree[p] BY <1>2, <1>3, <3>4, NodeNow
    <3> QED BY <1>6, <1>9, <1>10, <2>1, <3>2, <3>3, <3>5
  <2>4. CASE pc = "chmod"
    <3>1. ChangedHere BY <1>2, <2>4 DEF LeftAlone, MadeAbove, MadeHere, RemovedHere
    <3>2. E.mode # None /\ tree'[p] = Dir(Perms(E)) BY <1>13, <3>1 DEF ChangedHere, With
    <3>3. x \notin tree'[p].perm <=> Takes(cur, x)
      <4>1. tree'[p].perm = Perms(E) BY <3>2 DEF Dir
      <4>2. x # "s" OBVIOUS
      <4>3. x \in Perms(E) <=> x \in E.mode \ set.mask BY <4>2 DEF Perms
      <4> QED BY <2>2, <3>2, <4>1, <4>3 DEF Takes, E
    <3>4. Last(Past', cur) BY <1>8, <2>1
    <3>5. ASSUME NEW n \in Past, archive[n].path = p PROVE ~Last(Past', n)
      <4>1. archive[cur].path = archive[n].path /\ archive[cur].mode # None /\ cur \in Past'
        BY <1>13, <2>1, <3>2, <3>5 DEF E
      <4>2. cur # n /\ ~Before(cur, n) BY <1>1, <1>8
      <4> QED BY <4>1, <4>2
    <3>6. archive[cur].path = p BY <1>13 DEF E
    <3> HIDE DEF Last
    <3> QED BY <2>1, <3>3, <3>4, <3>5, <3>6
  <2> QED BY <2>2, <2>3, <2>4
<1> QED BY <1>11, <1>12, <1>13

\* A step of an entry that does not fail keeps Reaching.
LEMMA ReachingStep ==
    ASSUME TypeInv, LostInv, WinsInv, Undisturbed, Going, EntryStep, cur \in Made,
           pc' # "failed"
    PROVE  Reaching'
<1> DEFINE P == Parent(E.path)
<1>1. /\ \/ pc' \in EntryStages /\ Past' = Past
         \/ pc' = "next" /\ Past' = Past \cup {cur}
      /\ UNCHANGED <<archive, set>> /\ E' = E /\ pc \in EntryStages
  BY PastNow DEF WinsInv
<1>2. LeftAlone \/ MadeAbove \/ MadeHere \/ RemovedHere \/ ChangedHere BY StepShape
<1>3. E \in EntryType /\ E.path \in Path /\ E.path # <<>> BY <1>1, EntryNow DEF Undisturbed
<1>4. ~Below(E.path, E.path) /\ P # E.path /\ P \in Path /\ Below(E.path, P)
  BY <1>3, ParentPath, BelowParent
<1>5. ASSUME NEW r, r # E.path
      PROVE  /\ r \in DOMAIN tree => r \in DOMAIN tree' /\ tree'[r] = tree[r]
             /\ MaySearch(tree, r) => MaySearch(tree', r)
             /\ MayWrite(tree, r) => MayWrite(tree', r)
  <2>1. r \in DOMAIN tree => r \in DOMAIN tree' /\ tree'[r] = tree[r]
    BY <1>2, <1>4, <1>5, NodeNow
  <2> QED BY <2>1 DEF MayWrite, MaySearch, IsDir
<1>6. ASSUME pc' \in EntryStages \ {"parents"} PROVE Reached(tree', P)
  <2>1. Reached(tree, P)
    <3>1. CASE pc = "parents" BY <1>2, <1>6, <3>1 DEF LeftAlone, MadeAbove, MadeHere, RemovedHere, ChangedHere
    <3>2. CASE pc # "parents" BY <1>1, <3>2 DEF Going, Reaching
    <3> QED BY <3>1, <3>2
  <2>2. \A q \in Path : Below(P, q) => Below(E.path, q) /\ q # E.path
    BY <1>3, <1>4, BelowBelow
  <2> QED BY <1>4, <1>5, <2>1, <2>2 DEF Reached
<1>7. ASSUME pc' \in EntryStages \ {"parents", "mkdir", "open", "symlink", "hardlink"}
      PROVE  MaySearch(tree', P)
  <2>1. MaySearch(tree, P)
    <3>1. CASE pc \in {"parents", "mkdir", "open", "symlink", "hardlink"}
      <4>1. pc # "parents" /\ pc # "hardlink"
        BY <1>3, <1>7, EntryGoes, FirstCalls DEF EntryStages
      <4> QED BY <1>2, <3>1, <4>1 DEF LeftAlone, MadeAbove, MadeHere, RemovedHere, ChangedHere, MayWrite
    <3>2. CASE pc \notin {"parents", "mkdir", "open", "symlink", "hardlink"}
      BY <1>1, <3>2 DEF Going, Reaching
    <3> QED BY <3>1, <3>2
  <2> QED BY <1>4, <1>5, <2>1
<1>8. ASSUME pc' \in {"copy", "utimes", "fchmod", "lutimes"} PROVE MayWrite(tree', P)
  <2>1. pc \in {"open", "reopen", "symlink", "relink", "copy", "utimes"}
    BY <1>3, <1>8, EntryGoes, FirstCalls
  <2>2. MayWrite(tree, P)
    <3>1. CASE pc \in {"copy", "utimes"} BY <3>1 DEF Going, Reaching
    <3>2. CASE pc \notin {"copy", "utimes"}
      BY <1>2, <1>8, <2>1, <3>2 DEF LeftAlone, MadeAbove, MadeHere, RemovedHere, ChangedHere
    <3> QED BY <3>1, <3>2
  <2> QED BY <1>4, <1>5, <2>2
<1>9. ASSUME pc' = "chmod" PROVE IsDir(tree', E.path)
  <2>1. pc = "mkdir" BY <1>3, <1>9, EntryGoes, FirstCalls
  <2>2. E.kind \in DirKinds BY <2>1 DEF LostInv, Kinds
  <2>3. CASE LeftAlone BY <2>1, <2>3 DEF LeftAlone, IsDir
  <2>4. CASE MadeHere BY <2>2, <2>4 DEF MadeHere, With, IsDir
  <2> QED BY <1>2, <2>1, <2>3, <2>4 DEF MadeAbove, RemovedHere, ChangedHere
<1>10. ASSUME pc' \in {"remove", "unlink"} PROVE E.path \in DOMAIN tree'
  <2>1. pc \in {"open", "symlink"} BY <1>3, <1>10, EntryGoes, FirstCalls
  <2> QED BY <1>2, <1>10, <2>1 DEF LeftAlone, MadeAbove, MadeHere, RemovedHere, ChangedHere
<1>11. ASSUME pc' \in {"remove", "unlink", "reopen", "relink", "copy", "utimes", "fchmod", "lutimes"}
       PROVE  set.overwrite \/ \A n \in Past : archive[n].path # E.path
  <2>1. pc \in {"open", "symlink", "remove", "unlink", "reopen", "relink", "copy", "utimes"}
    BY <1>3, <1>11, EntryGoes, FirstCalls
  <2>2. CASE pc \in {"remove", "unlink", "reopen", "relink", "copy", "utimes"}
    BY <2>2 DEF Going, Reaching
  <2>3. CASE pc \in {"open", "symlink"}
    <3>1. CASE LeftAlone BY <2>3, <3>1 DEF LeftAlone
    <3>2. CASE MadeHere
      <4>1. E.path \notin DOMAIN tree BY <3>2 DEF MadeHere
      <4> QED BY <2>3, <4>1 DEF Going, Present, Pending
    <3> QED BY <1>2, <2>3, <3>1, <3>2 DEF MadeAbove, RemovedHere, ChangedHere
  <2> QED BY <2>1, <2>2, <2>3
<1>12. ASSUME pc' = "lutimes" PROVE E.link \notin {None, <<>>}
  <2>1. pc \in {"symlink", "relink"} BY <1>3, <1>12, EntryGoes, FirstCalls
  <2>2. CASE pc = "symlink" BY <1>12, <2>2, StepOf DEF SymLink, Fail, Go
  <2>3. CASE pc = "relink" BY <2>3 DEF TypeInv, Staged
  <2> QED BY <2>1, <2>2, <2>3
<1>13. pc' \in EntryStages => Past' = Past BY <1>1 DEF EntryStages
<1> QED BY <1>1, <1>6, <1>7, <1>8, <1>9, <1>10, <1>11, <1>12, <1>13 DEF Reaching, EntryStages

\* What is bad depends on the archive and on the settings.
LEMMA SameBad ==
    ASSUME UNCHANGED <<archive, set>>
    PROVE  /\ \A m : Bad(m)' <=> Bad(m)
           /\ Made' = Made /\ DirKinds' = DirKinds
           /\ \A n, m : Before(n, m)' <=> Before(n, m)
<1>1. Made' = Made /\ DirKinds' = DirKinds BY DEF Made, DirKinds
<1>2. \A n, m : Before(n, m)' <=> Before(n, m) BY DEF Before
<1>3. \A n, m : Clash(n, m)' <=> Clash(n, m)
  <2> SUFFICES ASSUME NEW n, NEW m PROVE Clash(n, m)' <=> Clash(n, m) OBVIOUS
  <2> QED BY <1>1, <1>2 DEF Clash
<1>4. \A n, m : Closed(n, m)' <=> Closed(n, m)
  <2> SUFFICES ASSUME NEW n, NEW m PROVE Closed(n, m)' <=> Closed(n, m) OBVIOUS
  <2> QED BY <1>1, <1>2 DEF Closed, Makes
<1>5. \A n, m : LinkedTo(n, m)' <=> LinkedTo(n, m) BY <1>1, <1>2 DEF LinkedTo
<1>6. \A m : BadLink(m)' <=> BadLink(m) BY <1>1, <1>5 DEF BadLink
<1>7. \A m : Bad(m)' <=> Bad(m)
  <2> SUFFICES ASSUME NEW m PROVE Bad(m)' <=> Bad(m) OBVIOUS
  <2> QED BY <1>1, <1>3, <1>4, <1>6 DEF Bad
<1> QED BY <1>1, <1>2, <1>7

\* A step of an entry that does not fail keeps Sofar.
LEMMA SofarStep ==
    ASSUME TypeInv, LostInv, WinsInv, Undisturbed, Going, EntryStep, cur \in Made,
           pc' # "failed"
    PROVE  Sofar'
<1>1. /\ \/ pc' \in EntryStages /\ Past' = Past
         \/ pc' = "next" /\ Past' = Past \cup {cur}
      /\ UNCHANGED <<archive, set>>
  BY PastNow DEF WinsInv
<1>2. \A m : Bad(m)' <=> Bad(m) BY <1>1, SameBad
<1>3. pc' = "next" => ~Bad(cur) BY NotBad
<1>4. \A m \in Past' : ~Bad(m) BY <1>1, <1>3 DEF Going, Sofar, EntryStages
<1> QED BY <1>2, <1>4 DEF Sofar

\* Where the tree and what has been unpacked are as they were.
LEMMA GoingStays ==
    ASSUME Going, UNCHANGED <<archive, set, tree>>, Past' = Past,
           pc \in {"next", "waits"} \/ cur \notin Made,
           pc \notin {"reopen", "relink"}, pc' \in {"next", "waits", "parents", "ok"}
    PROVE  Going'
<1>1. /\ \A m : Bad(m)' <=> Bad(m)
      /\ Made' = Made /\ DirKinds' = DirKinds
      /\ \A n, m : Before(n, m)' <=> Before(n, m)
  BY SameBad
<1>2. IsDir(tree, <<>>)' BY DEF Going, IsDir
<1>3. Sofar' BY <1>1 DEF Going, Sofar
<1>4. Present'
  <2>1. Pending = {} /\ Pending' = {} BY DEF Pending
  <2> QED BY <1>1, <2>1 DEF Going, Present
<1>5. Whose' BY DEF Going, Whose, Makes, EntryStages
<1>6. \A n, x : Shuts(n, x)' <=> Shuts(n, x) BY <1>1 DEF Shuts
<1>7. Bits' BY <1>6 DEF Going, Bits
<1>8. Reaching' BY DEF Reaching, EntryStages
<1> QED BY <1>2, <1>3, <1>4, <1>5, <1>7, <1>8 DEF Going

\* Fair depends on what was there first, on meddling and on attempts.
LEMMA FairStays ==
    ASSUME UNCHANGED <<archive, first, meddles, attempts>>
    PROVE  Fair' = Fair
<1>1. NewDir' = NewDir BY DEF NewDir, Dir
<1>2. Fresh' = Fresh BY <1>1 DEF Fresh
<1>3. Undisturbed' = Undisturbed BY SameUndisturbed
<1> QED BY <1>2, <1>3 DEF Fair

\* FailInv holds at first.
LEMMA FailInit == TripInit => FailInv
<1> SUFFICES ASSUME TripInit, Fresh PROVE pc # "failed" /\ Going
  BY DEF FailInv, Fair
<1>1. tree = first /\ pc \in {"next", "waits"} /\ k = 0 BY DEF TripInit, InitUnpack
<1>2. DOMAIN tree = {<<>>} /\ tree[<<>>] = NewDir BY <1>1 DEF Fresh
<1>3. NewDir.kind = "dir" /\ NewDir.perm = {"w", "x"} BY DEF NewDir, Dir
<1>4. Past = {}
  <2>1. TypeInv BY TypeInit
  <2>2. \A n \in Made : n \in Nat /\ n # 0 BY <2>1, Numbers
  <2> QED BY <1>1, <2>2 DEF Past, Completed, Touched
<1>5. Sofar /\ Present BY <1>4 DEF Sofar, Present
<1>6. Whose BY <1>2 DEF Whose
<1>7. Bits BY <1>2, <1>3, <1>4 DEF Bits
<1>8. Reaching BY <1>1 DEF Reaching, EntryStages
<1> QED BY <1>1, <1>2, <1>3, <1>5, <1>6, <1>7, <1>8 DEF Going, IsDir

\* A step of the walk keeps FailInv: nothing has been unpacked yet.
LEMMA FailWalk ==
    ASSUME TypeInv, TypeInv', LostInv, WalkStep
    PROVE  FailInv'
<1>1. pc' \in {"waits", "next"} BY WalkLoses DEF LostInv
<1>2. UNCHANGED <<first, tree, k>> /\ tree = first /\ k = 0
  BY DEF LostInv, Counting, WalkStep, W!WalkNext, W!WalkDir, W!WalkLink, W!WalkFile, W!WalkDone,
         TypeInv, Walking
<1> SUFFICES ASSUME Fresh' PROVE Going'
  BY <1>1 DEF FailInv, Fair
<1>3. NewDir' = NewDir /\ NewDir.kind = "dir" /\ NewDir.perm = {"w", "x"} BY DEF NewDir, Dir
<1>4. DOMAIN tree' = {<<>>} /\ tree'[<<>>] = NewDir BY <1>2, <1>3 DEF Fresh
<1>5. Past' = {}
  <2>1. DOMAIN archive' = 1 .. Len(archive') /\ Len(archive') \in Nat
    BY DEF TypeInv, TypeOK
  <2>2. \A n \in Made' : n \in Nat /\ n # 0 BY <2>1 DEF Made
  <2> QED BY <1>2, <2>2 DEF Past, Completed, Touched
<1>6. Sofar' /\ Present' BY <1>5 DEF Sofar, Present
<1>7. Whose' BY <1>4 DEF Whose
<1>8. Bits' BY <1>3, <1>4, <1>5 DEF Bits
<1>9. Reaching' BY <1>1 DEF Reaching, EntryStages
<1> QED BY <1>3, <1>4, <1>6, <1>7, <1>8, <1>9 DEF Going, IsDir

\* A step of an entry keeps FailInv.
LEMMA FailEntry ==
    ASSUME TypeInv, LostInv, WinsInv, FailInv, EntryStep
    PROVE  FailInv'
<1>1. /\ UNCHANGED <<archive, set, first, meddles, attempts>> /\ pc \in EntryStages
      /\ Queue /\ UNCHANGED cur
  BY EntryKeeps DEF WinsInv
<1>2. Fair' = Fair /\ Made' = Made /\ \A m : Bad(m)' <=> Bad(m) BY <1>1, FairStays, SameBad
<1> SUFFICES ASSUME Fair
             PROVE  /\ pc' = "failed" => \E m \in Made : Bad(m)
                    /\ pc' # "failed" => Going'
  BY <1>2 DEF FailInv
<1>3. Undisturbed /\ Going BY <1>1 DEF FailInv, Fair, EntryStages
<1>4. CASE cur \notin Made
  <2>1. pc = "parents" /\ pc' = "next" /\ tree' = tree BY <1>3, <1>4, NothingFails
  <2>2. Past' = Past BY <1>1, <1>4, <2>1, PastGrows
  <2> QED BY <1>1, <1>3, <1>4, <2>1, <2>2, GoingStays
<1>5. CASE cur \in Made /\ pc' = "failed" BY <1>3, <1>5, NoFailure
<1>6. CASE cur \in Made /\ pc' # "failed"
  <2>1. Sofar' /\ Present' /\ Whose' /\ Bits' /\ Reaching'
    BY <1>3, <1>6, SofarStep, PresentStep, WhoseStep, BitsStep, ReachingStep
  <2>2. IsDir(tree, <<>>)'
    <3>1. LeftAlone \/ MadeAbove \/ MadeHere \/ RemovedHere \/ ChangedHere BY <1>3, <1>6, StepShape
    <3>2. E.path # <<>> /\ ~Below(E.path, E.path)
      BY <1>1, <1>3, EntryNow, BelowParent DEF Undisturbed
    <3>3. <<>> \in DOMAIN tree /\ tree[<<>>].kind = "dir" BY <1>3 DEF Going, IsDir
    <3>4. <<>> \in DOMAIN tree' /\ tree'[<<>>] = tree[<<>>] BY <3>1, <3>2, <3>3, NodeNow
    <3> QED BY <3>3, <3>4 DEF IsDir
  <2> QED BY <1>6, <2>1, <2>2 DEF Going
<1> QED BY <1>4, <1>5, <1>6

\* Every step keeps FailInv.
LEMMA FailStep ==
    ASSUME TypeInv, TypeInv', LostInv, WinsInv, FailInv, [TripNext]_tripVars
    PROVE  FailInv'
<1>1. CASE UNCHANGED tripVars
  <2>1. UNCHANGED <<archive, set, first, meddles, attempts, tree, pc, cur, k>>
    BY <1>1 DEF tripVars, vars, fixed, counts
  <2>2. Fair' = Fair /\ Made' = Made /\ DirKinds' = DirKinds
        /\ (\A m : Bad(m)' <=> Bad(m)) /\ (\A n, m : Before(n, m)' <=> Before(n, m))
    BY <2>1, FairStays, SameBad
  <2>3. Past' = Past BY <2>1, <2>2 DEF Past, Completed, Touched, IsLate, EntryStages
  <2>4. E' = E /\ Pending' = Pending BY <2>1 DEF E, Pending
  <2>5. Going => Going'
    <3> SUFFICES ASSUME Going PROVE Going' OBVIOUS
    <3>1. Sofar' /\ Present' BY <2>1, <2>2, <2>3, <2>4 DEF Going, Sofar, Present
    <3>2. Whose'
      <4>1. \A n, p : Makes(n, p)' <=> archive[n].path = p' \/ Below(archive[n].path, p')
        BY <2>1 DEF Makes, Below
      <4> QED BY <2>1, <2>2, <2>3, <2>4 DEF Going, Whose, Makes, Below, MayWrite, MaySearch, IsDir
    <3>3. \A n, x : Shuts(n, x)' <=> Shuts(n, x) BY <2>1, <2>2, <2>3 DEF Shuts
    <3>4. Bits' BY <2>1, <2>3, <3>3 DEF Going, Bits
    <3>5. Reaching' BY <2>1, <2>3, <2>4 DEF Going, Reaching, Reached, MayWrite, MaySearch, IsDir, EntryStages
    <3> QED BY <2>1, <3>1, <3>2, <3>4, <3>5 DEF Going, IsDir
  <2> QED BY <2>1, <2>2, <2>5 DEF FailInv
<1>2. CASE WalkStep BY <1>2, FailWalk
<1>3. CASE PutOff \/ NextEntry \/ NextDirectory \/ Unpacked
  <2>1. /\ UNCHANGED <<archive, set, first, meddles, tree>> /\ pc' \in {"next", "parents", "ok"}
    BY <1>3, Bookkeeping
  <2>2. pc = "next" /\ UNCHANGED attempts
    BY <1>3 DEF PutOff, NextEntry, NextDirectory, Unpacked, Start, Go, counts
  <2>3. Past' = Past BY <1>3, PastStays DEF WinsInv
  <2>4. Fair' = Fair BY <2>1, <2>2, FairStays
  <2>5. Going => Going' BY <2>1, <2>2, <2>3, GoingStays
  <2> QED BY <2>1, <2>2, <2>4, <2>5 DEF FailInv
<1>4. CASE Again
  <2>1. attempts' # 1 BY <1>4 DEF Again, LostInv, Counting
  <2> QED BY <2>1 DEF FailInv, Fair
<1>5. CASE CutShort
  <2>1. pc' = "cut" BY <1>5 DEF CutShort
  <2> QED BY <2>1 DEF FailInv
<1>6. CASE Meddle
  <2>1. meddles' # 0 BY <1>6 DEF Meddle, LostInv, Counting
  <2> QED BY <2>1 DEF FailInv, Fair, Undisturbed
<1>7. CASE EntryStep BY <1>7, FailEntry
<1> QED BY <1>1, <1>2, <1>3, <1>4, <1>5, <1>6, <1>7 DEF TripNext, UnpackStep, UnpackNext

\* FailInv always holds.
LEMMA FailAlways == TripSpec => [](TypeInv /\ LostInv /\ WinsInv /\ FailInv)
<1>1. TypeInv /\ TypeInv' /\ LostInv /\ WinsInv /\ FailInv /\ [TripNext]_tripVars => FailInv'
  BY FailStep
<1> QED BY FailInit, WinsAlways, <1>1, PTL DEF TripSpec

\* After a call that succeeds all entries have been unpacked.
LEMMA AllPast ==
    ASSUME TypeInv, Finished, Queue, pc = "ok"
    PROVE  Past = Made
<1>1. Len(archive) \in Nat /\ k = Len(archive) /\ directories = <<>> BY Numbers DEF Finished
<1> SUFFICES ASSUME NEW n \in Made PROVE Completed(n) BY DEF Past
<1>2. n \in 1 .. k /\ n \in Nat /\ n <= k BY <1>1, Numbers
<1>3. DOMAIN directories = {} BY <1>1
<1>4. IsLate(n) => IsLate(cur) /\ n <= cur BY <1>2, <1>3 DEF Queue
<1> QED BY <1>2, <1>4 DEF Completed, Touched, EntryStages

\* Into a new directory unpack succeeds only if no two entries clash and no
\* link is bad, and fails only then, or if a directory is closed before
\* something is to be made below it.
THEOREM FailsWhenItMustCorrect == TripSpec => []FailsWhenItMust
<1>1. TypeInv /\ LostInv /\ WinsInv /\ FailInv => FailsWhenItMust
  <2> DEFINE wrong == \/ \E n, m \in Made : Clash(n, m)
                      \/ \E n \in Made : BadLink(n)
  <2> SUFFICES ASSUME TypeInv, LostInv, WinsInv, FailInv, Fair
               PROVE  /\ pc = "ok" => ~wrong
                      /\ pc = "failed" => wrong \/ \E n, m \in Made : Closed(n, m)
    BY DEF FailsWhenItMust, Fair
  <2>1. /\ wrong => \E m \in Made : Bad(m)
        /\ (\E m \in Made : Bad(m)) => wrong \/ \E n, m \in Made : Closed(n, m)
    BY DEF Bad
  <2>2. pc = "ok" => \A m \in Made : ~Bad(m)
    BY AllPast DEF FailInv, Going, Sofar, LostInv, WinsInv
  <2>3. pc = "failed" => \E m \in Made : Bad(m) BY DEF FailInv
  <2> QED BY <2>1, <2>2, <2>3
<1> QED BY <1>1, FailAlways, PTL

=============================================================================
