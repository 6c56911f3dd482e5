------------------------------ MODULE MCFields ------------------------------
(***************************************************************************)
(* HeaderFields for TLC: bytes of 3 bits, numbers in base 2 instead of     *)
(* octal, a u64 of 9 bits, and paths of up to 7 characters; and Pax, whose *)
(* records stand in a member of their own.                                 *)
(***************************************************************************)
EXTENDS HeaderFields, Pax

Texts(n) == UNION {[1 .. m -> {"a", "/", "."}] : m \in 0 .. n}

\* Every path of up to 4 characters, and long ones that can and cannot be split.
AllPaths == Texts(4) \cup {
    <<"a", "a", "/", "a", "a">>, <<"a", "/", "a", "/", "a">>,
    <<"a", "a", "a", "a", "a">>, <<"a", "/", "/", "a", "a">>,
    <<"a", "a", "/", ".", "/", "a">>, <<"a", "/", "a", "a", "/", "a">>,
    <<"a", "a", "a", "/", "a", "a">>, <<"a", "/", "a", "a", "a", "a">>,
    <<"a", "a", "a", "/", "a", "/">>, <<"a", "/", "a", "/", "a", "a", "a">>,
    <<".", "/", "a", "/", "a">>, <<"a", "/", ".", ".", "/", "a">>
}

\* The limits of the two encodings, and of a u64.
AllNumbers == {0, 1, 3, 4, 5, 15, 16, 17, 63, 64, 255, 256, 257, 511}

-----------------------------------------------------------------------------
\* Values that are numbers, none, long, and with characters that mean something.
AllValues == {<<>>, <<"1", "2">>, <<"x">>, <<"1", "=">>, <<"1", " ">>,
              <<"1", "2", "3", "4", "5", "6">>,
              <<"1", "\n">>, <<"\n", "1">>, <<"1", "\n", "\n", "1">>}
AllKeys == {<<"s">>, <<"p">>}

FieldsInit == Init /\ PaxInit

\* Either the fields of a header are set, or a payload is written.
FieldsNext ==
    \/ written = <<>> /\ Next /\ UNCHANGED paxVars
    \/ log = <<>> /\ format = "ustar" /\ PaxNext /\ UNCHANGED vars

FieldsSpec == FieldsInit /\ [][FieldsNext]_<<vars, paxVars>>
=============================================================================
