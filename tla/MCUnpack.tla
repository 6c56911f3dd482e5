------------------------------ MODULE MCUnpack ------------------------------
(***************************************************************************)
(* TreeTrip for TLC: names a to d, archives of up to four entries, and     *)
(* destinations that are new, have files, links or closed directories.     *)
(***************************************************************************)
EXTENDS TreeTrip, TLC

Entry(kind, path, link, perm) == [kind |-> kind, path |-> path, link |-> link, mode |-> perm]

F(path)       == Entry("file", path, None, {"w"})
D(path, perm) == Entry("dir", path, None, perm)
B(path, perm) == Entry("bsd", path, None, perm)
L(path, link) == Entry("symlink", path, link, {"w"})
H(path, link) == Entry("hardlink", path, link, {"w"})
M(path)       == Entry("meta", path, None, {"w"})

a == <<"a">>
b == <<"b">>
c == <<"c">>
d == <<"d">>
aa == <<"a", "a">>
ab == <<"a", "b">>
ac == <<"a", "c">>
ba == <<"b", "a">>
cc == <<"c", "c">>
da == <<"d", "a">>
aaa == <<"a", "a", "a">>

RW == {"w", "x"}
RO == {"x"}

\* Directories before and after what is in them, and without.
DirArchives == {
    <<D(a, RO), F(ab), D(aa, RW), F(aaa)>>,
    <<D(a, RO), F(ab), D(aa, RW)>>,
    <<D(aa, RO), D(a, RO), F(aaa)>>,
    <<D(a, {"w"}), D(ab, None), F(b)>>,
    <<D(a, RO), D(a, RW), D(ab, RO)>>,
    <<B(a, RO), F(ab)>>,
    <<F(ab), B(a, {"s", "w"}), H(b, ab)>>,
    <<D(aa, {"s", "w", "x"}), B(aa, RO), F(ab)>>
}

\* Files and links over one another, entries that are passed over, and names
\* that lead through links an entry replaces.
LinkArchives == {
    <<F(a), H(b, a), F(a)>>,
    <<F(a), L(b, a), H(ab, b)>>,
    <<L(a, b), F(a), L(a, a)>>,
    <<F(b), L(a, b), F(a)>>,
    <<H(a, b), F(b)>>,
    <<F(a), F(ab)>>,
    <<F(ab), F(a)>>,
    <<L(a, None)>>,
    <<M(a), [F(b) EXCEPT !.path = None], [F(a) EXCEPT !.path = <<>>], F(ab), M(b)>>,
    <<D(b, RW), L(a, b), F(ab), D(a, RO)>>,
    <<L(a, b), D(a, RO), D(b, RW)>>,
    <<F(aa), L(b, a)>>,
    <<H(b, c), F(ba)>>,
    <<L(ac, b), L(a, c), F(<<"c", "c", "a">>)>>,
    <<[F(a) EXCEPT !.mode = {"s", "w", "x"}], [F(b) EXCEPT !.mode = None]>>
}

AllArchives == DirArchives \cup LinkArchives

\* Those whose directories are all put off.
PutOffArchives == {ar \in DirArchives : \A n \in DOMAIN ar : ar[n].kind # "bsd"}

-----------------------------------------------------------------------------
Foreign(perm) == [maker |-> 0, data |-> 0, perm |-> perm, dated |-> FALSE]

Disk(t, inodes) == [tree |-> (<<>> :> Dir(RW)) @@ t, disk |-> inodes]

AllDisks == {
    Disk(<<>>, <<>>),
    Disk(a :> File(1) @@ b :> File(2), <<Foreign({"w"}), Foreign(RW)>>),
    Disk(a :> Symlink(b) @@ b :> File(1), <<Foreign({"w"})>>),
    Disk(a :> Symlink(<<>>) @@ b :> File(1), <<Foreign({"w"})>>),
    Disk(a :> Dir(RW) @@ ab :> File(1) @@ b :> File(1), <<Foreign({"w"})>>),
    Disk(c :> Symlink(a) @@ a :> Symlink(<<>>), <<>>),
    Disk(a :> Symlink(b) @@ b :> Dir(RW) @@ c :> Dir(RW) @@ cc :> Symlink(d)
            @@ d :> Dir(RW) @@ da :> File(1), <<Foreign({"w"})>>)
}

Setting(overwrite, mask, preserve, mtime) ==
    [overwrite |-> overwrite, mask |-> mask, preserve |-> preserve, mtime |-> mtime]

AllSettings == {
    Setting(TRUE, {}, FALSE, TRUE), Setting(TRUE, {"w"}, TRUE, FALSE),
    Setting(FALSE, {}, TRUE, FALSE)
}

-----------------------------------------------------------------------------
Special(kind) == [kind |-> kind]

AllSources == {
    Disk(a :> Dir(RO) @@ aa :> Dir(RW) @@ ab :> File(1), <<Foreign({"w"})>>),
    Disk(a :> Dir(RW) @@ aa :> Dir(RO) @@ aaa :> File(1) @@ b :> Symlink(a), <<Foreign(RW)>>),
    Disk(a :> Symlink(b) @@ b :> Dir({"s", "w", "x"}) @@ <<"b", "a">> :> Special("fifo"), <<>>),
    Disk(a :> Dir(RW) @@ ab :> Symlink(a), <<>>),
    Disk(a :> Symlink(b), <<>>),
    Disk(a :> Special("socket") @@ b :> Special("fifo"), <<>>),
    Disk(a :> Dir({"w"}) @@ ab :> File(1), <<Foreign({"w"})>>)
}

\* No path of a source, not even one through its links, is longer than MaxDepth.
ASSUME SourcesShallow ==
    \A s \in Sources : \A p \in [1 .. MaxDepth + 1 -> Names] :
        Canon(s.tree, p) = None /\ p \notin DOMAIN s.tree

AllBases == {<<>>, b}
Places == {a, ab}
=============================================================================
