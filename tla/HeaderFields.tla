---------------------------- MODULE HeaderFields ----------------------------
(***************************************************************************)
(* The setters and getters of Header: numbers in octal or, if they are too *)
(* large, in base 256, and the path in one field or, under a ustar header, *)
(* in two.  A number field is a sequence of bytes: 0 is NUL, digit d is    *)
(* d + 1, and Flag is the top bit of a byte.  A name field is its text up  *)
(* to the first NUL: whatever is behind it is never read.                  *)
(***************************************************************************)
EXTENDS Integers, Sequences, SequencesExt, FiniteSetsExt

CONSTANTS
    Radix, Flag,    \* 8, and 128: a byte is below 2 * Flag
    Short, Long,    \* bytes in a field for an id and for a size: 8 and 12
    U64,            \* values of a u64
    NameLen, PrefixLen,     \* bytes in the fields `name` and `prefix`
    Paths, Numbers, \* arguments of the setters
    MaxCalls,       \* bound on the calls of setters
    None

\* A short field has the width of a u64, of which all bits are used.
ASSUME FieldAssumption ==
    /\ Radix \in Nat /\ Flag \in Nat /\ Short \in Nat /\ Long \in Nat /\ Short < Long
    /\ Radix + 1 <= Flag /\ U64 = (2 * Flag) ^ Short
    /\ NameLen \in Nat /\ PrefixLen \in Nat /\ MaxCalls \in Nat
    /\ Numbers \subseteq 0 .. U64 - 1

VARIABLES
    format,     \* "old", "ustar" or "gnu": which magic the header has
    name, prefix,       \* the path
    mode, uid, size,    \* number fields
    log         \* the calls made so far, with their arguments and results

vars == <<format, name, prefix, mode, uid, size, log>>

-----------------------------------------------------------------------------
(***************************************************************************)
(* Numbers                                                                 *)
(***************************************************************************)

\* The n lowest digits of v in the given base, the highest first.
Digits(v, base, n) == [i \in 1 .. n |-> (v \div base ^ (n - i)) % base]

\* The number with these digits.
Value(digits, base) == FoldLeft(LAMBDA v, d : v * base + d, 0, digits)

Zeros(n) == [i \in 1 .. n |-> 0]

\* octal_into: the digits that do not fit are dropped without notice.
OctalInto(len, v) == Append([i \in 1 .. len - 1 |-> Digits(v, Radix, len - 1)[i] + 1], 0)

\* octal_from: an empty field is no number.
OctalFrom(field) ==
    LET nuls == {i \in DOMAIN field : field[i] = 0}
        text == IF nuls = {} THEN field ELSE SubSeq(field, 1, Min(nuls) - 1)
    IN  IF text = <<>> THEN None
        ELSE Value([i \in DOMAIN text |-> text[i] - 1], Radix)

\* Mutant: the flag is added where it may be set already.
ExtendedIntoAdding(len, v) ==
    LET bytes == Zeros(len - Short) \o Digits(v, 2 * Flag, Short)
    IN  [bytes EXCEPT ![1] = @ + Flag]

\* numeric_extended_into: the bytes of a u64 at the end of the field, and the
\* top bit of its first byte.
ExtendedInto(len, v) ==
    LET bytes == Zeros(len - Short) \o Digits(v, 2 * Flag, Short)
    IN  [bytes EXCEPT ![1] = IF @ < Flag THEN @ + Flag ELSE @]

\* numeric_extended_from.
ExtendedFrom(field) ==
    IF Len(field) = Short THEN Value([field EXCEPT ![1] = @ - Flag], 2 * Flag)
    ELSE Value(SubSeq(field, Len(field) - Short + 1, Len(field)), 2 * Flag)

\* Mutant: a number that just does not fit is written in octal.
FitsOctalNearly(len, v) ==
    v <= Radix ^ (Long - 1) /\ (len = Short => v <= Radix ^ (Short - 1))

FitsOctal(len, v) ==
    v < Radix ^ (Long - 1) /\ (len = Short => v < Radix ^ (Short - 1))

\* num_field_wrapper_into, num_field_wrapper_from
NumInto(len, v) == IF FitsOctal(len, v) THEN OctalInto(len, v) ELSE ExtendedInto(len, v)
NumFrom(field)  == IF field[1] >= Flag THEN ExtendedFrom(field) ELSE OctalFrom(field)

-----------------------------------------------------------------------------
(***************************************************************************)
(* Paths: sequences of "/", "." and other characters                       *)
(***************************************************************************)

\* The component of p that starts at i.
ComponentAt(p, i) ==
    LET ends == {j \in i .. Len(p) : p[j] = "/"}
    IN  SubSeq(p, i, IF ends = {} THEN Len(p) ELSE Min(ends) - 1)

\* Path::components: where they start.  A "." counts only at the beginning.
Starts(p) ==
    LET starts(i) == /\ p[i] # "/" /\ (i = 1 \/ p[i - 1] = "/")
                     /\ ComponentAt(p, i) = <<".">> => i = 1
    IN  SelectSeq([i \in DOMAIN p |-> i], starts)

Rooted(p) == p # <<>> /\ p[1] = "/"

Components(p) ==
    LET starts == Starts(p) IN [n \in DOMAIN starts |-> ComponentAt(p, starts[n])]

\* The lengths of the parents of p, Path::parent taken again and again: they
\* end where a component ends, and the last of them is empty or the root.
ParentLens(p) ==
    LET starts == Starts(p)
    IN  {starts[n] + Len(ComponentAt(p, starts[n])) - 1 : n \in 1 .. Len(starts) - 1}
            \cup {IF Rooted(p) THEN 1 ELSE 0}

\* What of a path goes into an archive: a "." is left out if something follows.
Named(p) ==
    LET cs == Components(p)
    IN  IF Len(cs) > 1 /\ cs[1] = <<".">> THEN Tail(cs) ELSE cs

UpTo(cs, stop) == IF stop = {} THEN cs ELSE SubSeq(cs, 1, Min(stop) - 1)

\* copy_path_into: the pieces it copies one by one, up to an error.
Pieces(p) ==
    LET named == Named(p)
        stop  == {n \in DOMAIN named : named[n] = <<".", ".">>}
        cs    == IF Rooted(p) THEN <<>> ELSE UpTo(named, stop)
        parts == [n \in 1 .. 2 * Len(cs) - 1 |->
                    IF n % 2 = 1 THEN cs[(n + 1) \div 2] ELSE <<"/">>]
    IN  IF cs # <<>> /\ stop = {} /\ Last(p) = "/" THEN Append(parts, <<"/">>) ELSE parts

\* A path that is rooted, empty or has a ".." is refused.
Proper(p) == ~Rooted(p) /\ Components(p) # <<>> /\ <<".", ".">> \notin ToSet(Components(p))

\* Mutant: what does not fit is cut off in silence.
CopyPathCutting(slot, len, p) ==
    LET pieces == Pieces(p)
        fit == Max({n \in 0 .. Len(pieces) : Len(FlattenSeq(SubSeq(pieces, 1, n))) <= len})
    IN  [text |-> IF fit = 0 THEN slot ELSE FlattenSeq(SubSeq(pieces, 1, fit)),
         ok   |-> Proper(p)]

\* copy_path_into: it stops at the first piece that does not fit, and what is
\* copied by then stays.
CopyPath(slot, len, p) ==
    LET pieces == Pieces(p)
        fit == Max({n \in 0 .. Len(pieces) : Len(FlattenSeq(SubSeq(pieces, 1, n))) <= len})
    IN  [text |-> IF fit = 0 THEN slot ELSE FlattenSeq(SubSeq(pieces, 1, fit)),
         ok   |-> Proper(p) /\ fit = Len(pieces)]

\* Mutant: the shortest prefix is taken.
SplitShortest(p) == Min(ParentLens(p))

\* UstarHeader::_set_path: the longest parent that fits the prefix.
SplitAt(p) == Max({n \in ParentLens(p) : n <= PrefixLen})

\* Header::path_bytes
Path ==
    IF format = "ustar" /\ prefix # <<>> THEN prefix \o <<"/">> \o name ELSE name

-----------------------------------------------------------------------------
\* Header::new_old, new_ustar, new_gnu: all fields are zero.
Init ==
    /\ format \in {"old", "ustar", "gnu"}
    /\ name = <<>> /\ prefix = <<>>
    /\ mode = Zeros(Short) /\ uid = Zeros(Short) /\ size = Zeros(Long)
    /\ log = <<>>

MayCall == Len(log) < MaxCalls

Called(setter, arg, ok) ==
    /\ log' = Append(log, [setter |-> setter, arg |-> arg, ok |-> ok])
    /\ UNCHANGED format

\* Header::set_path, of a short path or in a header with one field for it: the
\* prefix is not touched.
SetName(p) ==
    /\ MayCall /\ (format # "ustar" \/ Len(p) <= NameLen)
    /\ \E copy \in {CopyPath(name, NameLen, p)} :
            name' = copy.text /\ Called("path", p, copy.ok)
    /\ UNCHANGED <<prefix, mode, uid, size>>

\* UstarHeader::_set_path of a long path: the name stays as it is if the prefix
\* is refused, and the prefix does not if then the name is.
SetSplitPath(p) ==
    /\ MayCall /\ format = "ustar" /\ Len(p) > NameLen
    /\ \E at \in {SplitAt(p)} :
       \E front \in {CopyPath(prefix, PrefixLen, SubSeq(p, 1, at))},
          back  \in {CopyPath(name, NameLen, SubSeq(p, at + 2, Len(p)))} :
            /\ prefix' = front.text
            /\ name' = IF front.ok THEN back.text ELSE name
            /\ Called("path", p, front.ok /\ back.ok)
    /\ UNCHANGED <<mode, uid, size>>

SetMode(v) ==
    /\ MayCall /\ mode' = OctalInto(Short, v)
    /\ Called("mode", v, TRUE) /\ UNCHANGED <<name, prefix, uid, size>>

SetUid(v) ==
    /\ MayCall /\ uid' = NumInto(Short, v)
    /\ Called("uid", v, TRUE) /\ UNCHANGED <<name, prefix, mode, size>>

SetSize(v) ==
    /\ MayCall /\ size' = NumInto(Long, v)
    /\ Called("size", v, TRUE) /\ UNCHANGED <<name, prefix, mode, uid>>

Next ==
    \/ \E p \in Paths : SetName(p) \/ SetSplitPath(p)
    \/ \E v \in Numbers : SetMode(v) \/ SetUid(v) \/ SetSize(v)

Spec == Init /\ [][Next]_vars

-----------------------------------------------------------------------------
TypeOK ==
    /\ Len(name) <= NameLen /\ Len(prefix) <= PrefixLen
    /\ \A field \in {mode, uid, size} : \A i \in DOMAIN field : field[i] \in 0 .. 2 * Flag - 1
    /\ Len(mode) = Short /\ Len(uid) = Short /\ Len(size) = Long

\* The last call of a setter, 0 if there is none.
LastCall(setter) == Max({0} \cup {n \in DOMAIN log : log[n].setter = setter})

\* A size is read as it was set, whichever of the two encodings it takes; an
\* id loses the top bit of a u64, which is where the flag goes, and a mode the
\* digits that do not fit.  A number that never was set is none.
NumbersReadBack ==
    /\ IF LastCall("size") = 0 THEN NumFrom(size) = None
       ELSE NumFrom(size) = log[LastCall("size")].arg
    /\ IF LastCall("uid") = 0 THEN NumFrom(uid) = None
       ELSE NumFrom(uid) = log[LastCall("uid")].arg % (U64 \div 2)
    /\ IF LastCall("mode") = 0 THEN OctalFrom(mode) = None
       ELSE OctalFrom(mode) = log[LastCall("mode")].arg % Radix ^ (Short - 1)

\* The path that set_path is to set: that of its argument, without its "." and its
\* doubled "/".
Given(p) == FlattenSeq(Pieces(p))

Dotted(p) == Len(Components(p)) > 1 /\ Components(p)[1] = <<".">>

\* A path is read as it was set, in one field or in two, whatever other setters
\* were called before (header.rs:359-364).  In a ustar header the code departs from
\* that in two cases, which are left out: a short path after a long one was tried is
\* read below the prefix of that (header.rs:984), and a "." at the beginning of a
\* long one stays if the split leaves it alone in the prefix (header.rs:1002).
PathReadsBack ==
    LET n == LastCall("path")
        p == log[n].arg
        stale == /\ Len(p) <= NameLen
                 /\ \E m \in 1 .. n - 1 : log[m].setter = "path" /\ Len(log[m].arg) > NameLen
        dotted == Len(p) > NameLen /\ Dotted(p)
    IN  n # 0 /\ log[n].ok /\ ~(format = "ustar" /\ (stale \/ dotted)) => Path = Given(p)

\* A path of names with single slashes between them.
Tidy(p) ==
    /\ Proper(p) /\ p = FlattenSeq(Pieces(p)) /\ p # <<".">>
    /\ \A i \in 2 .. Len(p) : p[i] = "/" => p[i - 1] # "/"

\* Such a path fits a ustar header whenever there is a slash at which it can
\* be divided into a prefix and a name that fit; set_path finds it.
SplitsIfPossible ==
    LET n == LastCall("path")
        p == log[n].arg
    IN  n # 0 /\ format = "ustar" /\ Tidy(p) =>
            (log[n].ok <=> \/ Len(p) <= NameLen
                           \/ \E i \in 2 .. Len(p) - 1 :
                                p[i] = "/" /\ i - 1 <= PrefixLen /\ Len(p) - i <= NameLen)
=============================================================================
