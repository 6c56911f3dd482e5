---------------------------- MODULE MCRoundTrip ----------------------------
(***************************************************************************)
(* RoundTrip for TLC: blocks of 3 bytes, name fields of 2, and appends of  *)
(* every kind with names that fit, do not fit, or are no paths.            *)
(***************************************************************************)
EXTENDS RoundTrip

Name(text, len, fits, head) ==
    [text |-> text, len |-> len, fits |-> fits, head |-> head]

Short  == Name("a", 1, TRUE, TRUE)
Long   == Name("long", 3, FALSE, TRUE)
Longer == Name("longer", 4, FALSE, TRUE)
Up     == Name("..", 2, FALSE, FALSE)       \* as long as the field, no path
Empty  == Name("", 0, FALSE, FALSE)

AllNames == {Short, Long, Longer, Up, Empty}

Ask(api, name, link, size, lens) ==
    [api |-> api, path |-> name, name |-> name, link |-> link,
     size |-> size, lens |-> lens]

\* The data of the first one grows or shrinks after its size was taken.
AllRequests == {
    Ask("append", Short, None, 2, {0, 2, 4}),
    Ask("data", Up, None, 0, {0}),
    Ask("link", Long, Empty, 0, {0}),
    Ask("file", Longer, Long, 0, {0}),
    Ask("special", Long, None, 0, {0})
}
=============================================================================
