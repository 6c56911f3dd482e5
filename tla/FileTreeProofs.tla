--------------------------- MODULE FileTreeProofs ---------------------------
(***************************************************************************)
(* Facts about FileTree.  A lookup is a function that is defined by        *)
(* itself, on the links that may still be followed and on the path: it     *)
(* exists, its values are paths or None, and where no link is on the way   *)
(* it finds the place of that name.  The theorems on induction that the    *)
(* library has take an operator; those here take a set.  Trees stay trees  *)
(* when something is made in a directory, or removed that is none.         *)
(***************************************************************************)
EXTENDS FileTree, WellFoundedInduction, NaturalsInduction, TLAPS

-----------------------------------------------------------------------------
(***************************************************************************)
(* Least numbers, and functions on the naturals defined step by step       *)
(***************************************************************************)

\* A set of numbers that is not empty has a least one.
LEMMA LeastNumber ==
    ASSUME NEW T \in SUBSET Nat, T # {}
    PROVE  \E n \in T : \A m \in T : n <= m
<1> DEFINE R == OpToRel(<, Nat)
<1>1. IsWellFoundedOn(R, Nat)
  BY NatLessThanWellFounded
<1>2. \E x \in T : \A y \in T : ~ (<<y, x>> \in R)
  <2> HIDE DEF R
  <2> QED BY <1>1, WFMin
<1>3. ASSUME NEW x \in Nat, NEW y \in Nat, ~(<<y, x>> \in R) PROVE x <= y
  BY <1>3 DEF OpToRel
<1> QED BY <1>2, <1>3

\* A set of numbers of entries that is not empty has a greatest one.
LEMMA GreatestNumber ==
    ASSUME NEW l \in Nat, NEW T \in SUBSET (1 .. l), T # {}
    PROVE  \E m \in T : \A i \in T : i <= m
<1> DEFINE U == {j \in Nat : l - j \in T}
<1>1. U \in SUBSET Nat OBVIOUS
<1>2. U # {}
  <2>1. PICK i \in T : TRUE OBVIOUS
  <2>2. i \in 1 .. l BY <2>1
  <2>3. l - i \in Nat /\ l - (l - i) = i BY <2>2
  <2>4. l - i \in U BY <2>1, <2>3
  <2> QED BY <2>4
<1>3. PICK j \in U : \A h \in U : j <= h
  <2> HIDE DEF U
  <2> QED BY <1>1, <1>2, LeastNumber
<1>4. j \in Nat /\ l - j \in T OBVIOUS
<1>5. ASSUME NEW i \in T PROVE i <= l - j
  <2>1. i \in 1 .. l OBVIOUS
  <2>2. l - i \in Nat /\ l - (l - i) = i BY <2>1
  <2>3. l - i \in U BY <2>2
  <2>4. j <= l - i BY <1>3, <2>3
  <2> QED BY <1>4, <2>1, <2>4
<1> QED BY <1>4, <1>5

\* What holds of 0, and of n + 1 if it does of n, holds of all numbers.
LEMMA Inductive ==
    ASSUME NEW T, 0 \in T, \A n \in Nat : n \in T => n + 1 \in T
    PROVE  Nat \subseteq T
<1> DEFINE U == Nat \ T
<1>1. ASSUME U # {} PROVE FALSE
  <2>1. PICK n \in U : \A m \in U : n <= m BY <1>1, LeastNumber
  <2>2. n - 1 \in Nat /\ n - 1 \in T BY <2>1
  <2>3. (n - 1) + 1 \in T BY <2>2
  <2> QED BY <2>1, <2>3
<1> QED BY <1>1

\* What holds of n if it does of all smaller numbers holds of all numbers.
LEMMA StrongInductive ==
    ASSUME NEW T, \A n \in Nat : (\A m \in 0 .. n - 1 : m \in T) => n \in T
    PROVE  Nat \subseteq T
<1> DEFINE U == Nat \ T
<1>1. ASSUME U # {} PROVE FALSE
  <2>1. PICK n \in U : \A m \in U : n <= m BY <1>1, LeastNumber
  <2>2. \A m \in 0 .. n - 1 : m \in T BY <2>1
  <2> QED BY <2>1, <2>2
<1> QED BY <1>1

\* g follows F from x up to m.
Follows(g, m, x, F) == g[0] = x /\ \A n \in 0 .. m - 1 : g[n + 1] = F[n][g[n]]

\* Two that follow F from x agree as far as both go.
LEMMA FollowsOne ==
    ASSUME NEW x, NEW F, NEW g, NEW h, NEW m \in Nat, NEW l \in Nat,
           Follows(g, m, x, F), Follows(h, l, x, F)
    PROVE  \A n \in 0 .. m : n <= l => g[n] = h[n]
<1> DEFINE T == {n \in Nat : n <= m /\ n <= l => g[n] = h[n]}
<1>1. 0 \in T BY DEF Follows
<1>2. ASSUME NEW n \in Nat, n \in T PROVE n + 1 \in T
  <2>1. SUFFICES ASSUME n + 1 <= m, n + 1 <= l PROVE g[n + 1] = h[n + 1] OBVIOUS
  <2>2. n \in 0 .. m - 1 /\ n \in 0 .. l - 1 BY <2>1
  <2>3. g[n] = h[n] BY <1>2, <2>1
  <2> QED BY <2>2, <2>3 DEF Follows
<1>3. Nat \subseteq T
  <2> HIDE DEF T
  <2> QED BY <1>1, <1>2, Inductive
<1> QED BY <1>3

\* f starts with x and goes on as F says.
Recursive(f, S, x, F) ==
    f \in [Nat -> S] /\ f[0] = x /\ \A n \in Nat : f[n + 1] = F[n][f[n]]

\* There is a function on the naturals that starts with x and follows F.
LEMMA RecursionExists ==
    ASSUME NEW S, NEW x \in S, NEW F \in [Nat -> [S -> S]]
    PROVE  \E f : Recursive(f, S, x, F)
<1> DEFINE Has(m) == \E g \in [0 .. m -> S] : Follows(g, m, x, F)
           T == {m \in Nat : Has(m)}
<1>1. 0 \in T
  <2>1. [n \in 0 .. 0 |-> x] \in [0 .. 0 -> S] OBVIOUS
  <2>2. Follows([n \in 0 .. 0 |-> x], 0, x, F) BY DEF Follows
  <2> QED BY <2>1, <2>2
<1>2. ASSUME NEW m \in Nat, m \in T PROVE m + 1 \in T
  <2>1. PICK g \in [0 .. m -> S] : Follows(g, m, x, F) BY <1>2
  <2> DEFINE h == [n \in 0 .. m + 1 |-> IF n = m + 1 THEN F[m][g[m]] ELSE g[n]]
  <2>2. g[m] \in S /\ F[m][g[m]] \in S BY <2>1
  <2>3. h \in [0 .. m + 1 -> S] BY <2>1, <2>2
  <2>4. ASSUME NEW n \in 0 .. (m + 1) - 1 PROVE h[n + 1] = F[n][h[n]]
    <3>1. n \in Nat /\ n <= m /\ n \in 0 .. m + 1 /\ n + 1 \in 0 .. m + 1 OBVIOUS
    <3>2. h[n] = g[n] BY <3>1
    <3>3. CASE n = m BY <3>1, <3>2, <3>3
    <3>4. CASE n # m
      <4>1. n \in 0 .. m - 1 /\ n + 1 # m + 1 BY <3>1, <3>4
      <4>2. h[n + 1] = g[n + 1] BY <3>1, <4>1
      <4> QED BY <2>1, <3>2, <4>1, <4>2 DEF Follows
    <3> QED BY <3>3, <3>4
  <2>5. h[0] = x BY <2>1 DEF Follows
  <2>6. Follows(h, m + 1, x, F)
    <3> HIDE DEF h
    <3> QED BY <2>4, <2>5 DEF Follows
  <2> HIDE DEF h
  <2> QED BY <2>3, <2>6
<1>3. \A m \in Nat : Has(m)
  <2>1. Nat \subseteq T
    <3> HIDE DEF T
    <3> QED BY <1>1, <1>2, Inductive
  <2> QED BY <2>1
<1> DEFINE G(m) == CHOOSE g \in [0 .. m -> S] : Follows(g, m, x, F)
           f == [n \in Nat |-> G(n)[n]]
<1>4. ASSUME NEW m \in Nat PROVE G(m) \in [0 .. m -> S] /\ Follows(G(m), m, x, F)
  BY <1>3
<1> HIDE DEF G
<1>5. f \in [Nat -> S]
  <2>1. ASSUME NEW n \in Nat PROVE G(n)[n] \in S BY <1>4
  <2> QED BY <2>1
<1>6. f[0] = x
  <2>1. f[0] = G(0)[0] OBVIOUS
  <2>2. Follows(G(0), 0, x, F) BY <1>4
  <2> QED BY <2>1, <2>2 DEF Follows
<1>7. ASSUME NEW n \in Nat PROVE f[n + 1] = F[n][f[n]]
  <2>1. f[n + 1] = G(n + 1)[n + 1] /\ f[n] = G(n)[n] OBVIOUS
  <2>2. Follows(G(n + 1), n + 1, x, F) /\ Follows(G(n), n, x, F) BY <1>4
  <2>3. G(n + 1)[n + 1] = F[n][G(n + 1)[n]] BY <2>2 DEF Follows
  <2>4. G(n + 1)[n] = G(n)[n] BY <2>2, FollowsOne
  <2> QED BY <2>1, <2>3, <2>4
<1> HIDE DEF f
<1> QED BY <1>5, <1>6, <1>7 DEF Recursive

-----------------------------------------------------------------------------
(***************************************************************************)
(* Lookup                                                                  *)
(***************************************************************************)

\* The links of a tree name paths.
Linked(tree) ==
    /\ DOMAIN tree \subseteq Path
    /\ \A p \in DOMAIN tree : tree[p].kind = "symlink" => tree[p].target \in Path

\* What a lookup with n links results in.
Found(n) == [at : Path \cup {None}, left : 0 .. n]

\* What Hop gives when there is nothing to go on with.
Nothing == [at |-> None, left |-> 0]

\* The lookup goes on from d to the name x in it; w looks up what links denote.
Hop(tree, w, d, x) ==
    IF ~MaySearch(tree, d.at) \/ Append(d.at, x) \notin DOMAIN tree THEN Nothing
    ELSE IF tree[Append(d.at, x)].kind # "symlink" THEN [at |-> Append(d.at, x), left |-> d.left]
    ELSE IF d.left = 0 THEN Nothing
    ELSE w[<<d.left - 1, tree[Append(d.at, x)].target>>]

\* w looks up paths with n links as Lookup does.
Looks(tree, w, n) ==
    \A p \in Path :
        /\ w[<<n, p>>] \in Found(n)
        /\ w[<<n, p>>] = IF p = <<>> THEN [at |-> <<>>, left |-> n]
                     ELSE Hop(tree, w, w[<<n, Parent(p)>>], Name(p))

-----------------------------------------------------------------------------
\* A path is its parent and its name.
LEMMA ParentPath ==
    ASSUME NEW p \in Path, p # <<>>
    PROVE  /\ Parent(p) \in Path /\ Name(p) \in Names
           /\ Len(Parent(p)) = Len(p) - 1 /\ Len(p) - 1 \in Nat
           /\ p = Append(Parent(p), Name(p))
<1>1. p \in Seq(Names) /\ Len(p) \in Nat /\ Len(p) # 0 BY DEF Path
<1> DEFINE n == Len(p) - 1
<1>2. n \in Nat /\ n <= Len(p) BY <1>1
<1>5. SubSeq(p, 1, n) \in Seq(Names) /\ Len(SubSeq(p, 1, n)) = n
  <2>1. \A i \in 1 .. n : p[i] \in Names BY <1>1, <1>2
  <2>2. SubSeq(p, 1, n) = [i \in 1 .. n |-> p[i]] BY <1>1, <1>2
  <2> DEFINE s == [i \in 1 .. n |-> p[i]]
  <2> HIDE DEF n
  <2>3. s \in Seq(Names) /\ Len(s) = n BY <1>2, <2>1
  <2> QED BY <2>2, <2>3
<1>3. Name(p) \in Names BY <1>1 DEF Name
<1>4. p = Append(Parent(p), Name(p)) BY <1>1 DEF Parent, Name
<1> QED BY <1>2, <1>3, <1>4, <1>5 DEF Parent, Path

\* What is in a directory has that directory as its parent.
LEMMA ChildPath ==
    ASSUME NEW p \in Path, NEW x \in Names
    PROVE  /\ Append(p, x) \in Path /\ Append(p, x) # <<>>
           /\ Parent(Append(p, x)) = p /\ Name(Append(p, x)) = x
BY DEF Path, Parent, Name

\* One hop stays among the values that a lookup may have.
LEMMA HopFinds ==
    ASSUME NEW tree, Linked(tree), NEW n \in Nat, NEW w, NEW d \in Found(n), NEW x,
           \A m \in 0 .. n - 1 : \A p \in Path : w[<<m, p>>] \in Found(m)
    PROVE  Hop(tree, w, d, x) \in Found(n)
<1> DEFINE q == Append(d.at, x)
<1>1. Nothing \in Found(n) BY DEF Nothing, Found
<1>2. d.left \in 0 .. n BY DEF Found
<1>3. ASSUME q \in DOMAIN tree PROVE [at |-> q, left |-> d.left] \in Found(n)
  <2>1. q \in Path BY <1>3 DEF Linked
  <2> HIDE DEF q
  <2> QED BY <1>2, <2>1 DEF Found
<1>4. ASSUME q \in DOMAIN tree, tree[q].kind = "symlink", d.left # 0
      PROVE w[<<d.left - 1, tree[q].target>>] \in Found(n)
  <2> DEFINE m == d.left - 1
  <2>1. m \in 0 .. n - 1 /\ tree[q].target \in Path BY <1>2, <1>4 DEF Linked
  <2>2. w[<<m, tree[q].target>>] \in Found(m) BY <2>1
  <2>3. 0 .. m \subseteq 0 .. n BY <2>1
  <2>4. Found(m) \subseteq Found(n) BY <2>3 DEF Found
  <2> QED BY <2>2, <2>4
<1> QED BY <1>1, <1>3, <1>4 DEF Hop

\* For one number of links the lookup is defined along the path.
LEMMA OneBudget ==
    ASSUME NEW tree, Linked(tree), NEW n \in Nat, NEW w,
           \A m \in 0 .. n - 1 : \A p \in Path : w[<<m, p>>] \in Found(m)
    PROVE  \E h \in [Path -> Found(n)] :
             \A p \in Path : h[p] = IF p = <<>> THEN [at |-> <<>>, left |-> n]
                                    ELSE Hop(tree, w, h[Parent(p)], Name(p))
<1> DEFINE R == Found(n)
           S == [Path -> R]
           root == [at |-> <<>>, left |-> n]
           x == [p \in Path |-> root]
           next(g) == [p \in Path |-> IF p = <<>> THEN root ELSE Hop(tree, w, g[Parent(p)], Name(p))]
           F == [l \in Nat |-> [g \in S |-> next(g)]]
<1>1. root \in R
  <2>1. <<>> \in Path BY DEF Path
  <2> QED BY <2>1 DEF Found
<1>2. x \in S BY <1>1
<1>3. ASSUME NEW g \in S PROVE next(g) \in S
  <2>1. ASSUME NEW p \in Path, p # <<>> PROVE Hop(tree, w, g[Parent(p)], Name(p)) \in R
    <3>1. g[Parent(p)] \in R BY <2>1, ParentPath
    <3> QED BY <3>1, HopFinds
  <2> QED BY <1>1, <2>1
<1>4. F \in [Nat -> [S -> S]]
  <2> HIDE DEF S, next
  <2> QED BY <1>3
<1>5. PICK f : Recursive(f, S, x, F)
  <2> HIDE DEF S, x, F
  <2> QED BY <1>2, <1>4, RecursionExists
<1>6. ASSUME NEW l \in Nat PROVE f[l] \in S /\ f[l + 1] = next(f[l])
  <2>1. f[l] \in S
    <3> HIDE DEF S
    <3> QED BY <1>5 DEF Recursive
  <2>2. f[l + 1] = F[l][f[l]] BY <1>5 DEF Recursive
  <2> HIDE DEF S, next
  <2> QED BY <2>1, <2>2
<1> DEFINE h == [p \in Path |-> f[Len(p)][p]]
<1>7. h \in [Path -> R]
  <2>1. ASSUME NEW p \in Path PROVE f[Len(p)][p] \in R
    <3>1. Len(p) \in Nat BY DEF Path
    <3>2. f[Len(p)] \in S BY <1>6, <3>1
    <3> QED BY <3>2
  <2> QED BY <2>1
<1>8. ASSUME NEW p \in Path
      PROVE  h[p] = IF p = <<>> THEN root ELSE Hop(tree, w, h[Parent(p)], Name(p))
  <2>1. CASE p = <<>>
    <3>1. h[p] = f[0][p] BY <2>1
    <3>2. f[0] = x BY <1>5 DEF Recursive
    <3> QED BY <2>1, <3>1, <3>2
  <2>2. CASE p # <<>>
    <3> DEFINE l == Len(p) - 1
    <3>1. Parent(p) \in Path /\ Len(Parent(p)) = l /\ l \in Nat /\ Len(p) = l + 1
      BY <2>2, ParentPath DEF Path
    <3>2. h[p] = f[l + 1][p] /\ h[Parent(p)] = f[l][Parent(p)]
      <4> HIDE DEF l
      <4> QED BY <3>1
    <3>3. f[l + 1] = next(f[l]) BY <1>6, <3>1
    <3>4. f[l + 1][p] = Hop(tree, w, f[l][Parent(p)], Name(p)) BY <2>2, <3>3
    <3> QED BY <2>2, <3>2, <3>4
  <2> QED BY <2>1, <2>2
<1> HIDE DEF h
<1> QED BY <1>7, <1>8

\* There is a function as Lookup describes it.
LEMMA LookupExists ==
    ASSUME NEW tree, Linked(tree), NEW n \in Nat
    PROVE  \E w : \A m \in 0 .. n : Looks(tree, w, m)
<1> DEFINE Good(k) == \E w : \A m \in 0 .. k - 1 : Looks(tree, w, m)
           T == {k \in Nat : Good(k)}
<1>1. 0 \in T OBVIOUS
<1>2. ASSUME NEW k \in Nat, k \in T PROVE k + 1 \in T
  <2>1. PICK w : \A m \in 0 .. k - 1 : Looks(tree, w, m) BY <1>2
  <2>2. \A m \in 0 .. k - 1 : \A p \in Path : w[<<m, p>>] \in Found(m) BY <2>1 DEF Looks
  <2>3. PICK h \in [Path -> Found(k)] :
             \A p \in Path : h[p] = IF p = <<>> THEN [at |-> <<>>, left |-> k]
                                    ELSE Hop(tree, w, h[Parent(p)], Name(p))
    BY <2>2, OneBudget
  <2> DEFINE v == [a \in (0 .. k) \X Path |-> IF a[1] = k THEN h[a[2]] ELSE w[a]]
  <2>4. /\ \A p \in Path : v[<<k, p>>] = h[p]
        /\ \A m \in 0 .. k - 1 : \A p \in Path : v[<<m, p>>] = w[<<m, p>>]
    OBVIOUS
  <2> HIDE DEF v
  <2>5. ASSUME NEW d, d.left \in 0 .. k, NEW x
        PROVE  Hop(tree, v, d, x) = Hop(tree, w, d, x)
    <3> DEFINE q == Append(d.at, x)
    <3>1. ASSUME q \in DOMAIN tree, tree[q].kind = "symlink", d.left # 0
          PROVE  v[<<d.left - 1, tree[q].target>>] = w[<<d.left - 1, tree[q].target>>]
      <4>1. d.left - 1 \in 0 .. k - 1 BY <2>5, <3>1
      <4>2. tree[q].target \in Path BY <3>1 DEF Linked
      <4> QED BY <2>4, <4>1, <4>2
    <3> QED BY <3>1 DEF Hop
  <2>6. ASSUME NEW m \in 0 .. k PROVE Looks(tree, v, m)
    <3> SUFFICES ASSUME NEW p \in Path
                 PROVE  /\ v[<<m, p>>] \in Found(m)
                        /\ v[<<m, p>>] = IF p = <<>> THEN [at |-> <<>>, left |-> m]
                                     ELSE Hop(tree, v, v[<<m, Parent(p)>>], Name(p))
      BY DEF Looks
    <3>1. p # <<>> => Parent(p) \in Path BY ParentPath
    <3>2. CASE m = k
      <4>1. v[<<m, p>>] = h[p] /\ (p # <<>> => v[<<m, Parent(p)>>] = h[Parent(p)]) BY <2>4, <3>1, <3>2
      <4>2. h[p] \in Found(m) /\ (p # <<>> => h[Parent(p)] \in Found(m)) BY <2>3, <3>1, <3>2
      <4>3. p # <<>> => h[Parent(p)].left \in 0 .. k BY <3>2, <4>2 DEF Found
      <4>4. p # <<>> => Hop(tree, v, h[Parent(p)], Name(p)) = Hop(tree, w, h[Parent(p)], Name(p))
        BY <2>5, <4>3
      <4> QED BY <2>3, <3>2, <4>1, <4>2, <4>4
    <3>3. CASE m # k
      <4>1. m \in 0 .. k - 1 BY <3>3
      <4>2. v[<<m, p>>] = w[<<m, p>>] /\ (p # <<>> => v[<<m, Parent(p)>>] = w[<<m, Parent(p)>>]) BY <2>4, <3>1, <4>1
      <4>3. w[<<m, p>>] \in Found(m) /\ (p # <<>> => w[<<m, Parent(p)>>] \in Found(m)) BY <2>2, <3>1, <4>1
      <4>4. p # <<>> => w[<<m, Parent(p)>>].left \in 0 .. k BY <4>1, <4>3 DEF Found
      <4>5. p # <<>> => Hop(tree, v, w[<<m, Parent(p)>>], Name(p)) = Hop(tree, w, w[<<m, Parent(p)>>], Name(p))
        BY <2>5, <4>4
      <4>6. w[<<m, p>>] = IF p = <<>> THEN [at |-> <<>>, left |-> m]
                      ELSE Hop(tree, w, w[<<m, Parent(p)>>], Name(p))
        BY <2>1, <4>1 DEF Looks
      <4> QED BY <4>2, <4>3, <4>5, <4>6
    <3> QED BY <3>2, <3>3
  <2>7. Good(k + 1)
    <3>1. 0 .. (k + 1) - 1 = 0 .. k OBVIOUS
    <3> QED BY <2>6, <3>1
  <2> QED BY <2>7
<1>3. Good(n + 1)
  <2>1. Nat \subseteq T
    <3> HIDE DEF T
    <3> QED BY <1>1, <1>2, Inductive
  <2>2. n + 1 \in T
    <3> HIDE DEF T
    <3> QED BY <2>1
  <2> QED BY <2>2
<1>4. 0 .. (n + 1) - 1 = 0 .. n OBVIOUS
<1> QED BY <1>3, <1>4

\* Lookup looks up paths as it is meant to.
LEMMA LookupLooks ==
    ASSUME NEW tree, Linked(tree), NEW n \in 0 .. MaxLinks
    PROVE  Looks(tree, Lookup(tree), n)
<1> DEFINE D == (0 .. MaxLinks) \X Path
           B(w) == [a \in D |->
                LET m == a[1]
                    p == a[2]
                    d == w[<<m, Parent(p)>>]
                    q == Append(d.at, Name(p))
                IN  IF p = <<>> THEN [at |-> <<>>, left |-> m]
                    ELSE IF ~MaySearch(tree, d.at) \/ q \notin DOMAIN tree
                    THEN [at |-> None, left |-> 0]
                    ELSE IF tree[q].kind # "symlink" THEN [at |-> q, left |-> d.left]
                    ELSE IF d.left = 0 THEN [at |-> None, left |-> 0]
                    ELSE w[<<d.left - 1, tree[q].target>>]]
<1>0. MaxLinks \in Nat BY TreeAssumption
<1>1. Lookup(tree) = CHOOSE w : w = B(w) BY DEF Lookup
<1>2. ASSUME NEW w, NEW m \in 0 .. MaxLinks, NEW p \in Path
      PROVE  B(w)[<<m, p>>] = IF p = <<>> THEN [at |-> <<>>, left |-> m]
                              ELSE Hop(tree, w, w[<<m, Parent(p)>>], Name(p))
  <2>1. <<m, p>> \in D /\ <<m, p>>[1] = m /\ <<m, p>>[2] = p OBVIOUS
  <2> QED BY <2>1 DEF Hop, Nothing
<1>3. \E w : w = B(w)
  <2>1. PICK w : \A m \in 0 .. MaxLinks : Looks(tree, w, m) BY <1>0, LookupExists
  <2> DEFINE v == [a \in D |-> w[a]]
  <2>2. \A m \in 0 .. MaxLinks : \A p \in Path : v[<<m, p>>] = w[<<m, p>>] OBVIOUS
  <2>3. ASSUME NEW m \in 0 .. MaxLinks, NEW p \in Path PROVE v[<<m, p>>] = B(v)[<<m, p>>]
    <3> HIDE DEF v, B
    <3>1. w[<<m, p>>] = IF p = <<>> THEN [at |-> <<>>, left |-> m]
                        ELSE Hop(tree, w, w[<<m, Parent(p)>>], Name(p))
      BY <2>1 DEF Looks
    <3>2. ASSUME p # <<>>
          PROVE  Hop(tree, v, v[<<m, Parent(p)>>], Name(p)) = Hop(tree, w, w[<<m, Parent(p)>>], Name(p))
      <4>1. Parent(p) \in Path BY <3>2, ParentPath
      <4>2. v[<<m, Parent(p)>>] = w[<<m, Parent(p)>>] BY <2>2, <4>1
      <4>3. w[<<m, Parent(p)>>] \in Found(m) BY <2>1, <4>1 DEF Looks
      <4> DEFINE d == w[<<m, Parent(p)>>]
                 q == Append(d.at, Name(p))
      <4>4. ASSUME q \in DOMAIN tree, tree[q].kind = "symlink", d.left # 0
            PROVE  v[<<d.left - 1, tree[q].target>>] = w[<<d.left - 1, tree[q].target>>]
        <5>1. d.left - 1 \in 0 .. MaxLinks BY <1>0, <4>3, <4>4 DEF Found
        <5>2. tree[q].target \in Path BY <4>4 DEF Linked
        <5> QED BY <2>2, <5>1, <5>2
      <4> QED BY <4>2, <4>4 DEF Hop
    <3> QED BY <1>2, <2>2, <3>1, <3>2
  <2>4. \A a \in D : v[a] = B(v)[a]
    <3> SUFFICES ASSUME NEW a \in D PROVE v[a] = B(v)[a] OBVIOUS
    <3>1. PICK m \in 0 .. MaxLinks, p \in Path : a = <<m, p>> OBVIOUS
    <3> HIDE DEF v, B
    <3> QED BY <2>3, <3>1
  <2>5. v = B(v)
    <3>1. v = [a \in D |-> v[a]] OBVIOUS
    <3> HIDE DEF v
    <3>2. B(v) = [a \in D |-> B(v)[a]] BY SMTT(60)
    <3> HIDE DEF B
    <3> QED BY <2>4, <3>1, <3>2
  <2> QED BY <2>5
<1> DEFINE f == Lookup(tree)
<1> HIDE DEF B
<1>4. f = B(f) BY <1>1, <1>3
<1> HIDE DEF f
<1>5. \A m \in 0 .. MaxLinks : \A p \in Path :
        f[<<m, p>>] = IF p = <<>> THEN [at |-> <<>>, left |-> m]
                      ELSE Hop(tree, f, f[<<m, Parent(p)>>], Name(p))
  <2> SUFFICES ASSUME NEW m \in 0 .. MaxLinks, NEW p \in Path
               PROVE  f[<<m, p>>] = IF p = <<>> THEN [at |-> <<>>, left |-> m]
                                    ELSE Hop(tree, f, f[<<m, Parent(p)>>], Name(p))
    OBVIOUS
  <2> DEFINE g == B(f)
  <2>1. g[<<m, p>>] = IF p = <<>> THEN [at |-> <<>>, left |-> m]
                      ELSE Hop(tree, f, f[<<m, Parent(p)>>], Name(p))
    BY <1>2
  <2>2. f = g BY <1>4
  <2> HIDE DEF g
  <2> QED BY <2>1, <2>2
\* What it finds, by induction on the links and then on the path.
<1> DEFINE T == {m \in Nat : m <= MaxLinks => \A p \in Path : f[<<m, p>>] \in Found(m)}
<1>6. ASSUME NEW m \in Nat, \A i \in 0 .. m - 1 : i \in T PROVE m \in T
  <2> SUFFICES ASSUME m <= MaxLinks PROVE \A p \in Path : f[<<m, p>>] \in Found(m) OBVIOUS
  <2>1. ASSUME NEW i \in 0 .. m - 1 PROVE \A p \in Path : f[<<i, p>>] \in Found(i)
    <3>1. i \in T BY <1>6
    <3>2. i <= MaxLinks BY <1>0
    <3> QED BY <3>1, <3>2
  <2>2. m \in 0 .. MaxLinks BY <1>0
  <2> DEFINE U == {l \in Nat : \A p \in Path : Len(p) = l => f[<<m, p>>] \in Found(m)}
  <2>3. 0 \in U
    <3> SUFFICES ASSUME NEW p \in Path, Len(p) = 0 PROVE f[<<m, p>>] \in Found(m) OBVIOUS
    <3>1. p = <<>> BY DEF Path
    <3>2. f[<<m, p>>] = [at |-> <<>>, left |-> m] BY <1>5, <2>2, <3>1
    <3>3. m \in 0 .. m OBVIOUS
    <3> QED BY <3>1, <3>2, <3>3 DEF Found
  <2>4. ASSUME NEW l \in Nat, l \in U PROVE l + 1 \in U
    <3> SUFFICES ASSUME NEW p \in Path, Len(p) = l + 1 PROVE f[<<m, p>>] \in Found(m) OBVIOUS
    <3>1. p # <<>> BY DEF Path
    <3>2. Parent(p) \in Path /\ Len(Parent(p)) = l BY <3>1, ParentPath DEF Path
    <3>3. f[<<m, Parent(p)>>] \in Found(m) BY <2>4, <3>2
    <3>4. Hop(tree, f, f[<<m, Parent(p)>>], Name(p)) \in Found(m) BY <2>1, <3>3, HopFinds
    <3> QED BY <1>5, <2>2, <3>1, <3>4
  <2>5. Nat \subseteq U
    <3> HIDE DEF U
    <3> QED BY <2>3, <2>4, Inductive
  <2>6. \A p \in Path : Len(p) \in Nat BY DEF Path
  <2> QED BY <2>5, <2>6
<1>7. Nat \subseteq T
  <2> HIDE DEF T
  <2> QED BY <1>6, StrongInductive
<1>8. n \in Nat /\ n <= MaxLinks BY <1>0
<1>9. \A p \in Path : f[<<n, p>>] \in Found(n) BY <1>7, <1>8
<1> QED BY <1>5, <1>9 DEF Looks, f

-----------------------------------------------------------------------------
(***************************************************************************)
(* What canonicalize and the calls on names make of it                     *)
(***************************************************************************)

\* A path denotes nothing or something that is there, and no link.
LEMMA CanonThere ==
    ASSUME NEW tree, Linked(tree), <<>> \in DOMAIN tree, NEW p \in Path
    PROVE  \/ Canon(tree, p) = None
           \/ /\ Canon(tree, p) \in DOMAIN tree
              /\ Canon(tree, p) = <<>> \/ tree[Canon(tree, p)].kind # "symlink"
<1> DEFINE f == Lookup(tree)
           Ends(x) == \/ x = None
                      \/ x \in DOMAIN tree /\ (x = <<>> \/ tree[x].kind # "symlink")
           There(m) == \A q \in Path : Ends(f[<<m, q>>].at)
           T == {m \in Nat : m <= MaxLinks => There(m)}
<1>0. MaxLinks \in Nat BY TreeAssumption
<1>1. ASSUME NEW m \in Nat, \A i \in 0 .. m - 1 : i \in T PROVE m \in T
  <2> SUFFICES ASSUME m <= MaxLinks, NEW q \in Path
               PROVE  Ends(f[<<m, q>>].at)
    OBVIOUS
  <2> HIDE DEF f
  <2>1. m \in 0 .. MaxLinks BY <1>0
  <2>2. Looks(tree, f, m) BY <2>1, LookupLooks DEF f
  <2>3. CASE q = <<>>
    <3>1. f[<<m, q>>] = [at |-> <<>>, left |-> m] BY <2>2, <2>3 DEF Looks
    <3> QED BY <3>1
  <2>4. CASE q # <<>>
    <3> DEFINE d == f[<<m, Parent(q)>>]
               r == Append(d.at, Name(q))
    <3>1. f[<<m, q>>] = Hop(tree, f, d, Name(q)) BY <2>2, <2>4 DEF Looks
    <3>2. d \in Found(m) BY <2>2, <2>4, ParentPath DEF Looks
    <3> HIDE DEF d
    <3>3. ASSUME r \in DOMAIN tree, tree[r].kind = "symlink", d.left # 0
          PROVE  There(d.left - 1)
      <4>1. d.left - 1 \in 0 .. m - 1 /\ d.left - 1 <= MaxLinks BY <1>0, <2>1, <3>2, <3>3 DEF Found
      <4>2. d.left - 1 \in T BY <1>1, <4>1
      <4> QED BY <4>1, <4>2
    <3>4. CASE ~MaySearch(tree, d.at) \/ r \notin DOMAIN tree
      <4>1. f[<<m, q>>] = Nothing BY <3>1, <3>4 DEF Hop
      <4> QED BY <4>1 DEF Nothing
    <3>5. CASE MaySearch(tree, d.at) /\ r \in DOMAIN tree /\ tree[r].kind # "symlink"
      <4>1. f[<<m, q>>] = [at |-> r, left |-> d.left] BY <3>1, <3>5 DEF Hop
      <4> QED BY <3>5, <4>1
    <3>6. CASE MaySearch(tree, d.at) /\ r \in DOMAIN tree /\ tree[r].kind = "symlink"
      <4>1. CASE d.left = 0
        <5>1. f[<<m, q>>] = Nothing BY <3>1, <3>6, <4>1 DEF Hop
        <5> QED BY <5>1 DEF Nothing
      <4>2. CASE d.left # 0
        <5>1. f[<<m, q>>] = f[<<d.left - 1, tree[r].target>>] BY <3>1, <3>6, <4>2 DEF Hop
        <5>2. tree[r].target \in Path BY <3>6 DEF Linked
        <5>3. There(d.left - 1) BY <3>3, <3>6, <4>2
        <5> QED BY <5>1, <5>2, <5>3
      <4> QED BY <4>1, <4>2
    <3> QED BY <3>4, <3>5, <3>6
  <2> QED BY <2>3, <2>4
<1>2. Nat \subseteq T
  <2> HIDE DEF T
  <2> QED BY <1>1, StrongInductive
<1>3. There(MaxLinks) BY <1>0, <1>2
<1> QED BY <1>3 DEF Canon

\* The root is denoted by the empty path, and a name is looked for in what its
\* parent denotes.
LEMMA CanonStep ==
    ASSUME NEW tree, Linked(tree)
    PROVE  /\ Canon(tree, <<>>) = <<>>
           /\ \A p \in Path : p # <<>> /\ Canon(tree, p) # None =>
                /\ MaySearch(tree, Canon(tree, Parent(p)))
                /\ Place(tree, p) = Append(Canon(tree, Parent(p)), Name(p))
                /\ Place(tree, p) \in DOMAIN tree
                /\ tree[Place(tree, p)].kind # "symlink" => Canon(tree, p) = Place(tree, p)
<1> DEFINE f == Lookup(tree)
<1> HIDE DEF f
<1>1. MaxLinks \in 0 .. MaxLinks BY TreeAssumption
<1>2. Looks(tree, f, MaxLinks) BY <1>1, LookupLooks DEF f
<1>3. Canon(tree, <<>>) = <<>>
  <2>1. <<>> \in Path BY DEF Path
  <2>2. f[<<MaxLinks, <<>> >>] = [at |-> <<>>, left |-> MaxLinks] BY <1>2, <2>1 DEF Looks
  <2> QED BY <2>2 DEF Canon, f
<1>4. ASSUME NEW p \in Path, p # <<>>, Canon(tree, p) # None
      PROVE  /\ MaySearch(tree, Canon(tree, Parent(p)))
             /\ Place(tree, p) = Append(Canon(tree, Parent(p)), Name(p))
             /\ Place(tree, p) \in DOMAIN tree
             /\ tree[Place(tree, p)].kind # "symlink" => Canon(tree, p) = Place(tree, p)
  <2> DEFINE d == f[<<MaxLinks, Parent(p)>>]
             r == Append(d.at, Name(p))
  <2>1. f[<<MaxLinks, p>>] = Hop(tree, f, d, Name(p)) BY <1>2, <1>4 DEF Looks
  <2>2. f[<<MaxLinks, p>>].at # None BY <1>4 DEF Canon, f
  <2>3. d.at = Canon(tree, Parent(p)) BY DEF Canon, f
  <2> HIDE DEF d
  <2>4. Nothing.at = None BY DEF Nothing
  <2>5. MaySearch(tree, d.at) /\ r \in DOMAIN tree BY <2>1, <2>2, <2>4 DEF Hop
  <2>6. Place(tree, p) = r BY <1>4, <2>3, <2>5 DEF Place
  <2>7. ASSUME tree[r].kind # "symlink" PROVE Canon(tree, p) = r
    <3>1. f[<<MaxLinks, p>>] = [at |-> r, left |-> d.left] BY <2>1, <2>5, <2>7 DEF Hop
    <3> QED BY <3>1 DEF Canon, f
  <2> QED BY <2>3, <2>5, <2>6, <2>7
<1> QED BY <1>3, <1>4

-----------------------------------------------------------------------------
(***************************************************************************)
(* Paths without links on the way                                          *)
(***************************************************************************)

\* Below a path is below its parent or its parent itself.
LEMMA BelowParent ==
    ASSUME NEW p \in Path, p # <<>>, NEW q \in Path
    PROVE  /\ Below(p, q) <=> q = Parent(p) \/ Below(Parent(p), q)
           /\ ~Below(p, p) /\ Below(p, <<>>)
<1> DEFINE n == Len(p) - 1
<1>1. p \in Seq(Names) /\ q \in Seq(Names) /\ n \in Nat /\ Len(p) = n + 1 /\ Len(q) \in Nat
  BY DEF Path
<1> HIDE DEF n
<1>2. Len(Parent(p)) = n /\ Parent(p) \in Seq(Names) /\ \A i \in 1 .. n : Parent(p)[i] = p[i]
  <2>1. Parent(p) \in Path /\ Len(Parent(p)) = n BY ParentPath DEF n
  <2>2. Parent(p) = SubSeq(p, 1, n) BY DEF Parent, n
  <2>3. SubSeq(p, 1, n) = [i \in 1 .. n |-> p[i]] BY <1>1
  <2> QED BY <2>1, <2>2, <2>3 DEF Path
<1>3. ASSUME NEW s \in Seq(Names), Len(s) >= Len(q)
      PROVE  SubSeq(s, 1, Len(q)) = q <=> \A i \in 1 .. Len(q) : s[i] = q[i]
  <2>1. SubSeq(s, 1, Len(q)) = [i \in 1 .. Len(q) |-> s[i]] BY <1>1, <1>3
  <2>2. q = [i \in 1 .. Len(q) |-> q[i]] BY <1>1
  <2> QED BY <2>1, <2>2
<1>4. Below(p, q) <=> Len(q) <= n /\ \A i \in 1 .. Len(q) : p[i] = q[i]
  BY <1>1, <1>3 DEF Below
<1>5. Below(Parent(p), q) <=> Len(q) < n /\ \A i \in 1 .. Len(q) : p[i] = q[i]
  <2>1. Len(q) < n => \A i \in 1 .. Len(q) : Parent(p)[i] = p[i] BY <1>1, <1>2
  <2> QED BY <1>1, <1>2, <1>3, <2>1 DEF Below
<1>6. q = Parent(p) <=> Len(q) = n /\ \A i \in 1 .. Len(q) : p[i] = q[i]
  <2>1. ASSUME Len(q) = n, \A i \in 1 .. n : p[i] = q[i] PROVE q = Parent(p)
    <3>1. q = [i \in 1 .. n |-> q[i]] BY <1>1, <2>1
    <3>2. Parent(p) = [i \in 1 .. n |-> Parent(p)[i]] BY <1>2
    <3> QED BY <1>2, <2>1, <3>1, <3>2
  <2> QED BY <1>1, <1>2, <2>1
<1>7. ~Below(p, p) BY <1>1 DEF Below
<1>8. Below(p, <<>>)
  <2>1. Len(p) > Len(<<>>) BY <1>1
  <2>2. SubSeq(p, 1, Len(<<>>)) = <<>> BY <1>1
  <2> QED BY <2>1, <2>2 DEF Below
<1> QED BY <1>1, <1>4, <1>5, <1>6, <1>7, <1>8

\* Neither p nor what is above it is a link.
Free(tree, p) ==
    \A q \in DOMAIN tree : q = p \/ Below(p, q) => tree[q].kind # "symlink"

\* p is there and everything above it may be searched.
Reached(tree, p) ==
    /\ p \in DOMAIN tree
    /\ \A q \in Path : Below(p, q) => MaySearch(tree, q)

\* Without links on the way a path denotes its own place or nothing.
LEMMA FreeCanon ==
    ASSUME NEW tree, Linked(tree), <<>> \in DOMAIN tree, NEW p \in Path, Free(tree, p)
    PROVE  Canon(tree, p) = IF Reached(tree, p) THEN p ELSE None
<1> DEFINE f == Lookup(tree)
           U == {l \in Nat : \A q \in Path :
                    Len(q) = l /\ Free(tree, q) =>
                        f[<<MaxLinks, q>>] = IF Reached(tree, q) THEN [at |-> q, left |-> MaxLinks]
                                             ELSE Nothing}
<1> HIDE DEF f
<1>1. MaxLinks \in 0 .. MaxLinks BY TreeAssumption
<1>2. Looks(tree, f, MaxLinks) BY <1>1, LookupLooks DEF f
<1>3. 0 \in U
  <2> SUFFICES ASSUME NEW q \in Path, Len(q) = 0
               PROVE  /\ f[<<MaxLinks, q>>] = [at |-> q, left |-> MaxLinks]
                      /\ Reached(tree, q)
    OBVIOUS
  <2>1. q = <<>> BY DEF Path
  <2>2. f[<<MaxLinks, q>>] = [at |-> q, left |-> MaxLinks] BY <1>2, <2>1 DEF Looks
  <2>3. \A r \in Path : ~Below(q, r) BY <2>1 DEF Below, Path
  <2> QED BY <2>1, <2>2, <2>3 DEF Reached
<1>4. ASSUME NEW l \in Nat, l \in U PROVE l + 1 \in U
  <2> SUFFICES ASSUME NEW q \in Path, Len(q) = l + 1, Free(tree, q)
               PROVE  f[<<MaxLinks, q>>] = IF Reached(tree, q) THEN [at |-> q, left |-> MaxLinks]
                                           ELSE Nothing
    OBVIOUS
  <2>1. q # <<>> BY DEF Path
  <2> DEFINE P == Parent(q)
             d == f[<<MaxLinks, P>>]
  <2>2. P \in Path /\ Len(P) = l /\ q = Append(P, Name(q)) BY <2>1, ParentPath DEF Path
  <2>3. Below(q, P) /\ \A r \in Path : Below(P, r) => Below(q, r) BY <2>1, <2>2, BelowParent
  <2>4. DOMAIN tree \subseteq Path BY DEF Linked
  <2>5. Free(tree, P) BY <2>3, <2>4 DEF Free
  <2>6. d = IF Reached(tree, P) THEN [at |-> P, left |-> MaxLinks] ELSE Nothing
    BY <1>4, <2>2, <2>5
  <2>7. f[<<MaxLinks, q>>] = Hop(tree, f, d, Name(q)) BY <1>2, <2>1 DEF Looks
  <2>8. Reached(tree, q) <=> Reached(tree, P) /\ MaySearch(tree, P) /\ q \in DOMAIN tree
    <3>1. \A r \in Path : Below(q, r) <=> r = P \/ Below(P, r) BY <2>1, BelowParent
    <3>2. MaySearch(tree, P) => P \in DOMAIN tree BY DEF MaySearch, IsDir
    <3> QED BY <2>2, <3>1, <3>2 DEF Reached
  <2>9. CASE Reached(tree, P)
    <3>1. d.at = P /\ d.left = MaxLinks BY <2>6, <2>9
    <3>2. q \in DOMAIN tree => tree[q].kind # "symlink" BY DEF Free
    <3> HIDE DEF P, d
    <3> QED BY <2>2, <2>7, <2>8, <2>9, <3>1, <3>2 DEF Hop
  <2>10. CASE ~Reached(tree, P)
    <3>1. d.at = None BY <2>6, <2>10 DEF Nothing
    <3>2. None \notin Path BY TreeAssumption DEF Path
    <3>3. ~MaySearch(tree, d.at) BY <2>4, <3>1, <3>2 DEF MaySearch, IsDir
    <3> HIDE DEF P, d
    <3> QED BY <2>7, <2>8, <2>10, <3>3 DEF Hop
  <2> QED BY <2>9, <2>10
<1>5. Nat \subseteq U
  <2> HIDE DEF U
  <2> QED BY <1>3, <1>4, Inductive
<1>6. f[<<MaxLinks, p>>] = IF Reached(tree, p) THEN [at |-> p, left |-> MaxLinks] ELSE Nothing
  <2>1. Len(p) \in Nat BY DEF Path
  <2> QED BY <1>5, <2>1
<1> QED BY <1>6 DEF Canon, f, Nothing

-----------------------------------------------------------------------------
(***************************************************************************)
(* Trees that stay trees                                                   *)
(***************************************************************************)

\* A tree whose files are among the first n inodes.
Sound(tree, n) == IsRooted(tree) /\ \A p \in DOMAIN tree : tree[p] \in NodeType(n)

\* What a node has, by its kind.
LEMMA NodeKinds ==
    ASSUME NEW n, NEW node \in NodeType(n)
    PROVE  /\ node.kind \in {"dir", "file", "symlink"}
           /\ node.kind = "dir" => node.perm \in Perm
           /\ node.kind = "file" => node.ino \in 1 .. n
           /\ node.kind = "symlink" => node.target \in Path
BY DEF NodeType

\* The nodes that calls make are nodes.
LEMMA NodesMade ==
    ASSUME NEW n
    PROVE  /\ \A perm \in Perm : Dir(perm) \in NodeType(n) /\ Dir(perm).kind = "dir"
           /\ \A ino \in 1 .. n : File(ino) \in NodeType(n) /\ File(ino).kind = "file"
           /\ \A target \in Path : Symlink(target) \in NodeType(n) /\ Symlink(target).kind = "symlink"
BY DEF NodeType, Dir, File, Symlink

\* What a sound tree has for lookups.
LEMMA SoundLinked ==
    ASSUME NEW tree, NEW n, Sound(tree, n)
    PROVE  /\ Linked(tree) /\ <<>> \in DOMAIN tree /\ DOMAIN tree \subseteq Path
           /\ None \notin DOMAIN tree
<1>1. \A p \in DOMAIN tree : tree[p].kind = "symlink" => tree[p].target \in Path
  BY NodeKinds DEF Sound
<1>2. None \notin Path BY TreeAssumption DEF Path
<1> QED BY <1>1, <1>2 DEF Linked, Sound, IsRooted

\* A tree stays sound when there are more files on the disk.
LEMMA SoundGrows ==
    ASSUME NEW tree, NEW n \in Nat, NEW m \in Nat, n <= m, Sound(tree, n)
    PROVE  Sound(tree, m)
<1>1. 1 .. n \subseteq 1 .. m OBVIOUS
<1>2. NodeType(n) \subseteq NodeType(m) BY <1>1 DEF NodeType
<1> QED BY <1>2 DEF Sound

\* The place of a name is in a directory that may be searched.
LEMMA PlaceIn ==
    ASSUME NEW tree, DOMAIN tree \subseteq Path, NEW p \in Path, p # <<>>
    PROVE  /\ MaySearch(tree, Canon(tree, Parent(p))) =>
                /\ Place(tree, p) = Append(Canon(tree, Parent(p)), Name(p))
                /\ Place(tree, p) \in Path /\ Place(tree, p) # <<>> /\ Place(tree, p) # None
                /\ Parent(Place(tree, p)) = Canon(tree, Parent(p))
                /\ Name(Place(tree, p)) = Name(p)
                /\ IsDir(tree, Canon(tree, Parent(p)))
           /\ ~MaySearch(tree, Canon(tree, Parent(p))) => Place(tree, p) = None
<1>1. Name(p) \in Names BY ParentPath
<1>2. None \notin Path BY TreeAssumption DEF Path
<1>3. ASSUME MaySearch(tree, Canon(tree, Parent(p)))
      PROVE  /\ Place(tree, p) = Append(Canon(tree, Parent(p)), Name(p))
             /\ Canon(tree, Parent(p)) \in Path
             /\ IsDir(tree, Canon(tree, Parent(p)))
  BY <1>3 DEF Place, MaySearch, IsDir
<1> QED BY <1>1, <1>2, <1>3, ChildPath DEF Place

\* Something new in a directory.
LEMMA MakeSound ==
    ASSUME NEW tree, NEW n, Sound(tree, n), NEW p \in Path, MayCreate(tree, p),
           NEW node \in NodeType(n)
    PROVE  Sound(With(tree, Place(tree, p), node), n)
<1> DEFINE q == Place(tree, p)
           u == With(tree, q, node)
<1>1. DOMAIN tree \subseteq Path /\ <<>> \in DOMAIN tree BY SoundLinked
<1>2. p # <<>> BY <1>1 DEF MayCreate, Place
<1>3. q \in Path /\ q # <<>> /\ IsDir(tree, Parent(q)) /\ q \notin DOMAIN tree
  BY <1>1, <1>2, PlaceIn DEF MayCreate
<1> HIDE DEF q
<1>4. DOMAIN u = DOMAIN tree \cup {q} /\ u[q] = node
      /\ \A r \in DOMAIN tree : u[r] = tree[r]
  BY <1>3 DEF With
<1> HIDE DEF u
<1>5. IsRooted(u) BY <1>1, <1>3, <1>4 DEF Sound, IsRooted, IsDir
<1> QED BY <1>4, <1>5 DEF Sound, q, u

\* Other bits for a directory.
LEMMA ChmodSound ==
    ASSUME NEW tree, NEW n, Sound(tree, n), NEW p, IsDir(tree, p), NEW perm \in Perm
    PROVE  Sound(With(tree, p, Dir(perm)), n)
<1> DEFINE u == With(tree, p, Dir(perm))
<1>1. DOMAIN u = DOMAIN tree /\ u[p] = Dir(perm) /\ \A r \in DOMAIN tree : r # p => u[r] = tree[r]
  BY DEF With, IsDir
<1>2. Dir(perm) \in NodeType(n) /\ Dir(perm).kind = "dir" BY NodesMade
<1> HIDE DEF u
<1>3. \A r \in DOMAIN tree : tree[r].kind = "dir" => u[r].kind = "dir" BY <1>1, <1>2
<1>4. IsRooted(u) BY <1>1, <1>3 DEF Sound, IsRooted, IsDir
<1> QED BY <1>1, <1>2, <1>4 DEF Sound, u

\* The root cannot be removed.
LEMMA RemovesBelowRoot ==
    ASSUME NEW tree, Linked(tree), NEW p \in Path, MayRemove(tree, p)
    PROVE  p # <<>> /\ Place(tree, p) # <<>>
<1>1. p # <<>>
  <2> SUFFICES ASSUME p = <<>> PROVE FALSE OBVIOUS
  <2>1. Place(tree, p) = <<>> BY DEF Place
  <2>2. Parent(p) = <<>>
    <3>1. Parent(p) = SubSeq(<<>>, 1, 0 - 1) BY DEF Parent
    <3> QED BY <3>1
  <2>3. Canon(tree, Parent(p)) = <<>> BY <2>2, CanonStep
  <2> QED BY <2>1, <2>3 DEF MayRemove, MayWrite, MaySearch, IsDir
<1>2. DOMAIN tree \subseteq Path BY DEF Linked
<1> QED BY <1>1, <1>2, PlaceIn DEF MayRemove, Exists

\* A file or a link is removed.
LEMMA RemoveSound ==
    ASSUME NEW tree, NEW n, Sound(tree, n), NEW p \in Path, MayRemove(tree, p)
    PROVE  Sound(Without(tree, Place(tree, p)), n)
<1> DEFINE q == Place(tree, p)
           u == Without(tree, q)
<1>1. DOMAIN tree \subseteq Path /\ <<>> \in DOMAIN tree /\ Linked(tree) BY SoundLinked
<1>2. q # <<>> /\ tree[q].kind # "dir" BY <1>1, RemovesBelowRoot DEF MayRemove
<1>3. DOMAIN u = DOMAIN tree \ {q} /\ \A r \in DOMAIN u : u[r] = tree[r] BY DEF Without
<1> HIDE DEF q, u
<1>4. IsRooted(u) BY <1>1, <1>2, <1>3 DEF Sound, IsRooted
<1> QED BY <1>3, <1>4 DEF Sound, u, q

-----------------------------------------------------------------------------
(***************************************************************************)
(* What a removal does to lookups                                          *)
(***************************************************************************)

\* Without a file or a link a path denotes what it did, or nothing.
LEMMA LookupShrinks ==
    ASSUME NEW tree, Linked(tree), NEW gone, tree[gone].kind # "dir",
           NEW n \in 0 .. MaxLinks, NEW p \in Path
    PROVE  Lookup(Without(tree, gone))[<<n, p>>] \in {Nothing, Lookup(tree)[<<n, p>>]}
<1> DEFINE u == Without(tree, gone)
           v == Lookup(tree)
           w == Lookup(u)
           T == {m \in Nat : m <= MaxLinks =>
                    \A q \in Path : w[<<m, q>>] \in {Nothing, v[<<m, q>>]}}
<1>0. MaxLinks \in Nat BY TreeAssumption
<1>1. DOMAIN u = DOMAIN tree \ {gone} /\ \A q \in DOMAIN u : u[q] = tree[q] BY DEF Without
<1> HIDE DEF u
<1>2. Linked(u) BY <1>1 DEF Linked
<1>3. \A d : MaySearch(u, d) => MaySearch(tree, d) BY <1>1 DEF MaySearch, IsDir
<1>4. \A m \in 0 .. MaxLinks : Looks(tree, v, m) /\ Looks(u, w, m) BY <1>2, LookupLooks
<1> HIDE DEF v, w
<1>5. ASSUME NEW m \in Nat, \A i \in 0 .. m - 1 : i \in T PROVE m \in T
  <2> SUFFICES ASSUME m <= MaxLinks
               PROVE  \A q \in Path : w[<<m, q>>] \in {Nothing, v[<<m, q>>]}
    OBVIOUS
  <2>0. m \in 0 .. MaxLinks BY <1>0
  <2>1. Looks(tree, v, m) /\ Looks(u, w, m) BY <1>4, <2>0
  <2> DEFINE U == {l \in Nat : \A q \in Path : Len(q) = l => w[<<m, q>>] \in {Nothing, v[<<m, q>>]}}
  <2>2. 0 \in U
    <3> SUFFICES ASSUME NEW q \in Path, Len(q) = 0 PROVE w[<<m, q>>] = v[<<m, q>>] OBVIOUS
    <3>1. q = <<>> BY DEF Path
    <3> QED BY <2>1, <3>1 DEF Looks
  <2>3. ASSUME NEW l \in Nat, l \in U PROVE l + 1 \in U
    <3> SUFFICES ASSUME NEW q \in Path, Len(q) = l + 1
                 PROVE  w[<<m, q>>] \in {Nothing, v[<<m, q>>]}
      OBVIOUS
    <3>1. q # <<>> BY DEF Path
    <3>2. Parent(q) \in Path /\ Len(Parent(q)) = l BY <3>1, ParentPath DEF Path
    <3> DEFINE d == v[<<m, Parent(q)>>]
               e == w[<<m, Parent(q)>>]
               x == Name(q)
               r == Append(d.at, x)
    <3>3. e \in {Nothing, d} /\ d \in Found(m) BY <2>1, <2>3, <3>2 DEF Looks
    <3>4. v[<<m, q>>] = Hop(tree, v, d, x) /\ w[<<m, q>>] = Hop(u, w, e, x)
      BY <2>1, <3>1 DEF Looks
    <3> HIDE DEF d, e, x
    <3>5. CASE e = Nothing
      <4>1. None \notin DOMAIN u BY <1>2, TreeAssumption DEF Linked, Path
      <4>2. ~MaySearch(u, e.at) BY <3>5, <4>1 DEF MaySearch, IsDir, Nothing
      <4> QED BY <3>4, <4>2 DEF Hop
    <3>6. CASE e = d
      <4>1. CASE ~MaySearch(u, d.at) \/ r \notin DOMAIN u BY <3>4, <3>6, <4>1 DEF Hop
      <4>2. CASE MaySearch(u, d.at) /\ r \in DOMAIN u
        <5>1. MaySearch(tree, d.at) /\ r \in DOMAIN tree /\ u[r] = tree[r]
          BY <1>1, <1>3, <4>2
        <5>2. CASE tree[r].kind # "symlink" \/ d.left = 0
          BY <3>4, <3>6, <4>2, <5>1, <5>2 DEF Hop
        <5>3. CASE tree[r].kind = "symlink" /\ d.left # 0
          <6> DEFINE i == d.left - 1
          <6>1. v[<<m, q>>] = v[<<i, tree[r].target>>] /\ w[<<m, q>>] = w[<<i, tree[r].target>>]
            BY <3>4, <3>6, <4>2, <5>1, <5>3 DEF Hop
          <6>2. i \in 0 .. m - 1 /\ i <= MaxLinks BY <1>0, <2>0, <3>3, <5>3 DEF Found
          <6>3. tree[r].target \in Path BY <5>1, <5>3 DEF Linked
          <6>4. i \in T BY <1>5, <6>2
          <6> QED BY <6>1, <6>2, <6>3, <6>4
        <5> QED BY <5>2, <5>3
      <4> QED BY <4>1, <4>2
    <3> QED BY <3>3, <3>5, <3>6
  <2>4. Nat \subseteq U
    <3> HIDE DEF U
    <3> QED BY <2>2, <2>3, Inductive
  <2>5. \A q \in Path : Len(q) \in Nat BY DEF Path
  <2> QED BY <2>4, <2>5
<1>6. Nat \subseteq T
  <2> HIDE DEF T
  <2> QED BY <1>5, StrongInductive
<1> QED BY <1>0, <1>6 DEF u, v, w

\* Without a node that is no directory a path leads where it led, or nowhere.
LEMMA PlaceShrinks ==
    ASSUME NEW tree, Linked(tree), NEW gone, tree[gone].kind # "dir", NEW p \in Path
    PROVE  Place(Without(tree, gone), p) \in {None, Place(tree, p)}
<1> DEFINE u == Without(tree, gone)
<1>0. MaxLinks \in 0 .. MaxLinks BY TreeAssumption
<1>1. CASE p = <<>> BY <1>1 DEF Place
<1>2. CASE p # <<>>
  <2>1. Parent(p) \in Path BY <1>2, ParentPath
  <2>2. Canon(u, Parent(p)) \in {None, Canon(tree, Parent(p))}
    BY <1>0, <2>1, LookupShrinks DEF Canon, Nothing
  <2>3. DOMAIN u = DOMAIN tree \ {gone} /\ \A q \in DOMAIN u : u[q] = tree[q] BY DEF Without
  <2> HIDE DEF u
  <2>4. \A d : MaySearch(u, d) => MaySearch(tree, d) BY <2>3 DEF MaySearch, IsDir
  <2>5. ~MaySearch(u, None)
    <3>1. None \notin DOMAIN u BY <2>3, TreeAssumption DEF Linked, Path
    <3> QED BY <3>1 DEF MaySearch, IsDir
  <2>6. Place(u, p) \in {None, Place(tree, p)} BY <1>2, <2>2, <2>4, <2>5 DEF Place
  <2> QED BY <2>6 DEF u
<1> QED BY <1>1, <1>2

\* With a new file or an empty directory a path denotes what it did, or if
\* that was nothing, the new node.
LEMMA LookupGrows ==
    ASSUME NEW tree, Linked(tree), NEW new \in Path, new \notin DOMAIN tree,
           \A x \in Names : Append(new, x) \notin DOMAIN tree,
           NEW node, node.kind # "symlink",
           NEW n \in 0 .. MaxLinks, NEW p \in Path
    PROVE  LET v == Lookup(tree)[<<n, p>>]
               w == Lookup(With(tree, new, node))[<<n, p>>]
           IN  w = v \/ (v = Nothing /\ w.at = new)
<1> DEFINE u == With(tree, new, node)
           v == Lookup(tree)
           w == Lookup(u)
           Like(x, y) == y = x \/ (x = Nothing /\ y.at = new)
           T == {m \in Nat : m <= MaxLinks =>
                    \A q \in Path : Like(v[<<m, q>>], w[<<m, q>>])}
<1>0. MaxLinks \in Nat BY TreeAssumption
<1>1. DOMAIN u = DOMAIN tree \cup {new} /\ u[new] = node
      /\ \A q \in DOMAIN tree : u[q] = tree[q]
  BY DEF With
<1> HIDE DEF u
<1>2. Linked(u) BY <1>1 DEF Linked
<1>3. \A d : d # new => (MaySearch(u, d) <=> MaySearch(tree, d)) BY <1>1 DEF MaySearch, IsDir
<1>4. \A m \in 0 .. MaxLinks : Looks(tree, v, m) /\ Looks(u, w, m) BY <1>2, LookupLooks
<1> HIDE DEF v, w
<1>5. ASSUME NEW m \in Nat, \A i \in 0 .. m - 1 : i \in T PROVE m \in T
  <2> SUFFICES ASSUME m <= MaxLinks
               PROVE  \A q \in Path : Like(v[<<m, q>>], w[<<m, q>>])
    OBVIOUS
  <2>0. m \in 0 .. MaxLinks BY <1>0
  <2>1. Looks(tree, v, m) /\ Looks(u, w, m) BY <1>4, <2>0
  <2> DEFINE U == {l \in Nat : \A q \in Path : Len(q) = l => Like(v[<<m, q>>], w[<<m, q>>])}
  <2>2. 0 \in U
    <3> SUFFICES ASSUME NEW q \in Path, Len(q) = 0 PROVE w[<<m, q>>] = v[<<m, q>>] OBVIOUS
    <3>1. q = <<>> BY DEF Path
    <3> QED BY <2>1, <3>1 DEF Looks
  <2>3. ASSUME NEW l \in Nat, l \in U PROVE l + 1 \in U
    <3> SUFFICES ASSUME NEW q \in Path, Len(q) = l + 1
                 PROVE  Like(v[<<m, q>>], w[<<m, q>>])
      OBVIOUS
    <3>1. q # <<>> BY DEF Path
    <3>2. Parent(q) \in Path /\ Len(Parent(q)) = l /\ Name(q) \in Names
      BY <3>1, ParentPath DEF Path
    <3> DEFINE d == v[<<m, Parent(q)>>]
               e == w[<<m, Parent(q)>>]
               x == Name(q)
               r == Append(d.at, x)
    <3>3. Like(d, e) /\ d \in Found(m) BY <2>1, <2>3, <3>2 DEF Looks
    <3>4. v[<<m, q>>] = Hop(tree, v, d, x) /\ w[<<m, q>>] = Hop(u, w, e, x)
      BY <2>1, <3>1 DEF Looks
    <3> HIDE DEF d, e
    <3>5. x \in Names BY <3>2
    <3> HIDE DEF x
    <3>6. Append(new, x) \notin DOMAIN u
      <4>1. Append(new, x) # new BY <3>5, ChildPath, Len(new) \in Nat DEF Path
      <4> QED BY <1>1, <3>5, <4>1
    <3>7. CASE e.at = new
      <4>1. w[<<m, q>>] = Nothing BY <3>4, <3>6, <3>7 DEF Hop
      <4>2. v[<<m, q>>] = Nothing
        <5>1. d.at = new \/ d.at = None BY <3>3, <3>7 DEF Nothing
        <5>2. None \notin DOMAIN tree BY TreeAssumption DEF Linked, Path
        <5>3. ~MaySearch(tree, d.at) BY <5>1, <5>2 DEF MaySearch, IsDir
        <5> QED BY <3>4, <5>3 DEF Hop
      <4> QED BY <4>1, <4>2
    <3>8. CASE e.at # new
      <4>0. e = d /\ d.at # new BY <3>3, <3>8
      <4>1. CASE ~MaySearch(tree, d.at)
        <5>1. ~MaySearch(u, d.at) BY <1>3, <4>0, <4>1
        <5> QED BY <3>4, <4>0, <4>1, <5>1 DEF Hop
      <4>2. CASE MaySearch(tree, d.at)
        <5>0. MaySearch(u, d.at) BY <1>3, <4>0, <4>2
        <5>1. CASE r = new
          <6>1. v[<<m, q>>] = Nothing BY <3>4, <5>1 DEF Hop
          <6>2. w[<<m, q>>].at = new BY <1>1, <3>4, <4>0, <5>0, <5>1 DEF Hop
          <6> QED BY <6>1, <6>2
        <5>2. CASE r # new /\ r \notin DOMAIN tree
          <6>1. r \notin DOMAIN u BY <1>1, <5>2
          <6> QED BY <3>4, <4>0, <5>2, <6>1 DEF Hop
        <5>3. CASE r \in DOMAIN tree
          <6>0. r \in DOMAIN u /\ u[r] = tree[r] BY <1>1, <5>3
          <6>1. CASE tree[r].kind # "symlink" \/ d.left = 0
            BY <3>4, <4>0, <4>2, <5>0, <5>3, <6>0, <6>1 DEF Hop
          <6>2. CASE tree[r].kind = "symlink" /\ d.left # 0
            <7> DEFINE i == d.left - 1
            <7>1. v[<<m, q>>] = v[<<i, tree[r].target>>] /\ w[<<m, q>>] = w[<<i, tree[r].target>>]
              BY <3>4, <4>0, <4>2, <5>0, <5>3, <6>0, <6>2 DEF Hop
            <7>2. i \in 0 .. m - 1 /\ i <= MaxLinks BY <1>0, <2>0, <3>3, <6>2 DEF Found
            <7>3. tree[r].target \in Path BY <5>3, <6>2 DEF Linked
            <7>4. i \in T BY <1>5, <7>2
            <7>5. Like(v[<<i, tree[r].target>>], w[<<i, tree[r].target>>]) BY <7>2, <7>3, <7>4
            <7> QED BY <7>1, <7>5
          <6> QED BY <6>1, <6>2
        <5> QED BY <5>1, <5>2, <5>3
      <4> QED BY <4>1, <4>2
    <3> QED BY <3>7, <3>8
  <2>4. Nat \subseteq U
    <3> HIDE DEF U
    <3> QED BY <2>2, <2>3, Inductive
  <2>5. \A q \in Path : Len(q) \in Nat BY DEF Path
  <2> QED BY <2>4, <2>5
<1>6. Nat \subseteq T
  <2> HIDE DEF T
  <2> QED BY <1>5, StrongInductive
<1>7. n \in T /\ n <= MaxLinks BY <1>0, <1>6
<1>8. Like(v[<<n, p>>], w[<<n, p>>]) BY <1>7
<1> QED BY <1>8 DEF u, v, w

\* Without links above it a path is its own place.
LEMMA PlaceFree ==
    ASSUME NEW tree, Linked(tree), <<>> \in DOMAIN tree, NEW p \in Path, p # <<>>,
           Free(tree, Parent(p))
    PROVE  /\ Place(tree, p) = IF Reached(tree, Parent(p)) /\ MaySearch(tree, Parent(p)) THEN p ELSE None
           /\ Canon(tree, Parent(p)) = IF Reached(tree, Parent(p)) THEN Parent(p) ELSE None
<1>1. Parent(p) \in Path /\ p = Append(Parent(p), Name(p)) BY ParentPath
<1>2. Canon(tree, Parent(p)) = IF Reached(tree, Parent(p)) THEN Parent(p) ELSE None
  BY <1>1, FreeCanon
<1>3. ~MaySearch(tree, None)
  <2>1. None \notin DOMAIN tree BY TreeAssumption DEF Linked, Path
  <2> QED BY <2>1 DEF MaySearch, IsDir
<1>4. Reached(tree, Parent(p)) => Place(tree, p) = IF MaySearch(tree, Parent(p)) THEN p ELSE None
  BY <1>1, <1>2 DEF Place
<1>5. ~Reached(tree, Parent(p)) => Place(tree, p) = None BY <1>2, <1>3 DEF Place
<1> QED BY <1>2, <1>4, <1>5

\* What is removed there can be made there again.
LEMMA RemoveThenCreate ==
    ASSUME NEW tree, Linked(tree), <<>> \in DOMAIN tree, NEW p \in Path, p # <<>>,
           Free(tree, Parent(p)), MayRemove(tree, p)
    PROVE  /\ Place(tree, p) = p
           /\ MayCreate(Without(tree, p), p)
<1> DEFINE P == Parent(p)
           u == Without(tree, p)
<1>1. Place(tree, p) # None /\ p # None BY TreeAssumption DEF MayRemove, Exists, Path
<1>2. Place(tree, p) = p /\ Reached(tree, P) /\ MaySearch(tree, P) /\ Canon(tree, P) = P
  BY <1>1, PlaceFree
<1>3. MayWrite(tree, P) /\ p \in DOMAIN tree BY <1>2 DEF MayRemove, Exists
<1>4. DOMAIN u = DOMAIN tree \ {p} /\ \A q \in DOMAIN u : u[q] = tree[q] BY DEF Without
<1> HIDE DEF u
<1>5. P \in Path /\ P # p BY ParentPath
<1>6. \A q \in Path : Below(P, q) => q # p
  <2> SUFFICES ASSUME NEW q \in Path, Below(P, q), q = p PROVE FALSE OBVIOUS
  <2>1. Below(p, q) /\ ~Below(p, p) BY BelowParent
  <2> QED BY <2>1
<1>7. \A q \in DOMAIN tree : q # p /\ MaySearch(tree, q) => MaySearch(u, q)
  BY <1>4 DEF MaySearch, IsDir
<1>8. Reached(u, P) /\ MaySearch(u, P)
  <2>1. \A q : MaySearch(tree, q) => q \in DOMAIN tree BY DEF MaySearch, IsDir
  <2> QED BY <1>2, <1>4, <1>5, <1>6, <1>7, <2>1 DEF Reached
<1>9. MayWrite(u, P)
  <2>1. P \in DOMAIN tree BY <1>2 DEF Reached
  <2> QED BY <1>3, <1>4, <1>5, <1>8, <2>1 DEF MayWrite
<1>10. Linked(u) /\ <<>> \in DOMAIN u /\ Free(u, P)
  BY <1>4 DEF Linked, Free
<1>11. Place(u, p) = p /\ Canon(u, P) = P BY <1>8, <1>10, PlaceFree
<1> QED BY <1>1, <1>2, <1>4, <1>9, <1>11 DEF MayCreate, u

-----------------------------------------------------------------------------
\* The prefixes of a path are the directories above it.
LEMMA PrefixPath ==
    ASSUME NEW p \in Path, p # <<>>, NEW n \in 1 .. Len(p) - 1
    PROVE  LET q == SubSeq(p, 1, n)
           IN  /\ q \in Path /\ q # <<>> /\ Below(p, q)
               /\ n = 1 => Parent(q) = <<>>
               /\ n # 1 => Parent(q) = SubSeq(p, 1, n - 1) /\ n - 1 \in 1 .. Len(p) - 1
<1> DEFINE q == SubSeq(p, 1, n)
<1>1. p \in Seq(Names) /\ Len(p) \in Nat BY DEF Path
<1>2. q = [i \in 1 .. n |-> p[i]] BY <1>1
<1>3. q \in Seq(Names) /\ Len(q) = n
  <2>1. \A i \in 1 .. n : p[i] \in Names BY <1>1
  <2> DEFINE s == [i \in 1 .. n |-> p[i]]
  <2>2. s \in Seq(Names) /\ Len(s) = n BY <1>1, <2>1
  <2> QED BY <1>2, <2>2
<1>4. Below(p, q) BY <1>1, <1>3 DEF Below
<1> HIDE DEF q
<1>5. Parent(q) = SubSeq(q, 1, n - 1) BY <1>3 DEF Parent
<1>6. SubSeq(q, 1, n - 1) = [i \in 1 .. n - 1 |-> q[i]] BY <1>1, <1>3
<1>9. q \in Path /\ q # <<>> BY <1>1, <1>3 DEF Path
<1>7. n = 1 => Parent(q) = <<>>
  <2> SUFFICES ASSUME n = 1 PROVE Parent(q) = <<>> OBVIOUS
  <2>1. Parent(q) \in Path /\ Len(Parent(q)) = Len(q) - 1 BY <1>9, ParentPath
  <2>2. Len(Parent(q)) = 0 BY <1>3, <2>1
  <2> QED BY <2>1, <2>2 DEF Path
<1>8. ASSUME n # 1 PROVE Parent(q) = SubSeq(p, 1, n - 1) /\ n - 1 \in 1 .. Len(p) - 1
  <2>1. n - 1 \in 1 .. Len(p) - 1 BY <1>1, <1>8
  <2>2. SubSeq(p, 1, n - 1) = [i \in 1 .. n - 1 |-> p[i]] BY <1>1, <2>1
  <2>3. \A i \in 1 .. n - 1 : q[i] = p[i] BY <1>2
  <2> QED BY <1>5, <1>6, <2>1, <2>2, <2>3
<1> QED BY <1>4, <1>7, <1>8, <1>9 DEF q

\* Below is transitive.
LEMMA BelowBelow ==
    ASSUME NEW p \in Path, NEW q \in Path, NEW r \in Path, Below(p, q), Below(q, r)
    PROVE  Below(p, r)
<1>1. p \in Seq(Names) /\ q \in Seq(Names) /\ r \in Seq(Names) BY DEF Path
<1>2. /\ Len(p) \in Nat /\ Len(q) \in Nat /\ Len(r) \in Nat
      /\ Len(p) > Len(q) /\ Len(q) > Len(r)
  BY <1>1 DEF Below
<1>3. q = [i \in 1 .. Len(q) |-> p[i]] /\ r = [i \in 1 .. Len(r) |-> q[i]]
  BY <1>1, <1>2 DEF Below
<1>4. SubSeq(p, 1, Len(r)) = [i \in 1 .. Len(r) |-> p[i]] BY <1>1, <1>2
<1>5. \A i \in 1 .. Len(r) : q[i] = p[i] BY <1>2, <1>3
<1>6. SubSeq(p, 1, Len(r)) = r BY <1>3, <1>4, <1>5
<1> QED BY <1>2, <1>6 DEF Below

\* What is on the way to p is the next name behind its parent.
LEMMA ChildOnWay ==
    ASSUME NEW p \in Path, NEW q \in Path, q # <<>>, q = p \/ Below(p, q)
    PROVE  /\ SubSeq(p, 1, Len(Parent(q)) + 1) = q
           /\ Below(p, Parent(q))
<1>1. Len(Parent(q)) + 1 = Len(q)
  <2>1. Len(Parent(q)) = Len(q) - 1 BY ParentPath
  <2>2. Len(q) \in Nat BY DEF Path
  <2> QED BY <2>1, <2>2
<1>2. SubSeq(p, 1, Len(q)) = q
  <2>1. CASE q = p
    <3>1. p \in Seq(Names) BY DEF Path
    <3> QED BY <2>1, <3>1
  <2> QED BY <2>1 DEF Below
<1>3. Parent(q) \in Path /\ Below(q, Parent(q)) BY ParentPath, BelowParent
<1> QED BY <1>1, <1>2, <1>3, BelowBelow

\* Without links above a path there are none above the paths it goes through.
LEMMA FreeAbove ==
    ASSUME NEW t, Linked(t), NEW p \in Path, p # <<>>, Free(t, Parent(p)),
           NEW q \in Path, q # <<>>, Below(p, q)
    PROVE  Free(t, Parent(q))
<1>1. Parent(p) \in Path /\ Parent(q) \in Path BY ParentPath
<1>2. ASSUME NEW r \in Path, Below(q, r) PROVE Below(p, r)
  <2>1. p \in Seq(Names) /\ q \in Seq(Names) /\ r \in Seq(Names) BY DEF Path
  <2>2. /\ Len(p) \in Nat /\ Len(q) \in Nat /\ Len(r) \in Nat
        /\ Len(p) > Len(q) /\ Len(q) > Len(r)
    BY <1>2, <2>1 DEF Below
  <2>3. q = [i \in 1 .. Len(q) |-> p[i]] /\ r = [i \in 1 .. Len(r) |-> q[i]]
    BY <1>2, <2>1, <2>2 DEF Below
  <2>4. SubSeq(p, 1, Len(r)) = [i \in 1 .. Len(r) |-> p[i]] BY <2>1, <2>2
  <2>5. \A i \in 1 .. Len(r) : q[i] = p[i] BY <2>2, <2>3
  <2>6. SubSeq(p, 1, Len(r)) = r BY <2>3, <2>4, <2>5
  <2> QED BY <2>2, <2>6 DEF Below
<1>3. ASSUME NEW r \in DOMAIN t, r = Parent(q) \/ Below(Parent(q), r)
      PROVE  t[r].kind # "symlink"
  <2>1. r \in Path BY DEF Linked
  <2>2. Below(q, r) BY <1>3, <2>1, BelowParent
  <2>3. Below(p, r) BY <1>2, <2>1, <2>2
  <2>4. r = Parent(p) \/ Below(Parent(p), r) BY <2>1, <2>3, BelowParent
  <2> QED BY <2>4 DEF Free
<1> QED BY <1>3 DEF Free

\* What is above something is a directory.
LEMMA AboveDir ==
    ASSUME NEW t, IsRooted(t), NEW p \in DOMAIN t, NEW q \in Path, Below(p, q)
    PROVE  IsDir(t, q)
<1> DEFINE U == {l \in Nat : \A r \in DOMAIN t : Len(r) = l /\ Below(r, q) => IsDir(t, q)}
<1>1. 0 \in U
  <2>1. \A r \in Path : Len(r) = 0 => ~Below(r, q) BY DEF Below, Path
  <2> QED BY <2>1 DEF IsRooted
<1>2. ASSUME NEW l \in Nat, l \in U PROVE l + 1 \in U
  <2> SUFFICES ASSUME NEW r \in DOMAIN t, Len(r) = l + 1, Below(r, q) PROVE IsDir(t, q)
    OBVIOUS
  <2>1. r \in Path /\ r # <<>> BY DEF IsRooted, Path
  <2>2. Parent(r) \in DOMAIN t /\ t[Parent(r)].kind = "dir" BY <2>1 DEF IsRooted
  <2>3. Len(Parent(r)) = l BY <2>1, ParentPath
  <2>4. q = Parent(r) \/ Below(Parent(r), q) BY <2>1, BelowParent
  <2> QED BY <1>2, <2>2, <2>3, <2>4 DEF IsDir
<1>3. Nat \subseteq U
  <2> HIDE DEF U
  <2> QED BY <1>1, <1>2, Inductive
<1>4. Len(p) \in Nat BY DEF IsRooted, Path
<1> QED BY <1>3, <1>4

=============================================================================
