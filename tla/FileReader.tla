----------------------------- MODULE FileReader -----------------------------
(***************************************************************************)
(* What a reader of a file promises: the bytes of the file in their order, *)
(* some at every read, and the end when there are no more and not before.  *)
(* This is what "It acts as a file handle by implementing the Reader       *)
(* trait" (entry.rs:31) means for an entry.                                *)
(***************************************************************************)
EXTENDS Naturals, Sequences

VARIABLES
    file,       \* the bytes of the file
    lossy,      \* nothing is promised any more but that what was read stays read
    got,        \* the bytes read
    ended       \* the reader has said that there are no more

vars == <<file, lossy, got, ended>>

Init == got = <<>> /\ ended = FALSE

Deliver ==
    /\ \E n \in 1 .. Len(file) - Len(got) :
        got' = got \o SubSeq(file, Len(got) + 1, Len(got) + n)
    /\ UNCHANGED <<file, ended>>

End ==
    /\ Len(got) = Len(file)
    /\ ended' = TRUE
    /\ UNCHANGED <<file, got>>

Lose ==
    /\ lossy'
    /\ UNCHANGED file
    /\ Len(got) <= Len(got') /\ SubSeq(got', 1, Len(got)) = got
    /\ ended' \in BOOLEAN

Next == (Deliver \/ End \/ Lose) /\ (lossy => lossy')

Spec == Init /\ [][Next]_vars
=============================================================================
