-------------------------------- MODULE Pax --------------------------------
(***************************************************************************)
(* Pax records: what PaxExtensions reads from a payload, and the two ways  *)
(* of looking up a key.  A record is "length key=value" and a newline,     *)
(* where length counts all of it.  Who writes the records is external: the *)
(* payload has any records in any order, and its end may be missing.       *)
(***************************************************************************)
EXTENDS Naturals, Sequences, SequencesExt, FiniteSetsExt

CONSTANTS
    Keys, Values,   \* sequences of characters
    MaxRecords,     \* bound on the records of a payload
    NoValue, Malformed

ASSUME PaxAssumption == MaxRecords \in Nat

VARIABLES
    payload,    \* characters
    written,    \* the records that were meant
    cut         \* the end of the payload is missing

paxVars == <<payload, written, cut>>

Numerals == <<"0", "1", "2", "3", "4", "5", "6", "7", "8", "9">>

-----------------------------------------------------------------------------
(***************************************************************************)
(* The writer                                                              *)
(***************************************************************************)

Decimal(n) ==
    IF n < 10 THEN <<Numerals[n + 1]>>
    ELSE <<Numerals[(n \div 10) + 1], Numerals[(n % 10) + 1]>>

RecordText(r) ==
    LET rest == <<" ">> \o r.key \o <<"=">> \o r.value \o <<"\n">>
        n == CHOOSE n \in 1 .. 99 : n = Len(rest) + Len(Decimal(n))
    IN  Decimal(n) \o rest

PaxInit == payload = <<>> /\ written = <<>> /\ cut = FALSE

WriteRecord(r) ==
    /\ Len(written) < MaxRecords /\ ~cut
    /\ written' = Append(written, r)
    /\ payload' = payload \o RecordText(r)
    /\ UNCHANGED cut

\* The archive ends inside the payload: the rest is read as if it were whole.
CutPayload ==
    /\ ~cut
    /\ \E n \in 0 .. Len(payload) - 1 : payload' = SubSeq(payload, 1, n)
    /\ cut' = TRUE
    /\ UNCHANGED written

PaxNext == CutPayload \/ \E k \in Keys, v \in Values : WriteRecord([key |-> k, value |-> v])

-----------------------------------------------------------------------------
(***************************************************************************)
(* PaxExtensions                                                           *)
(***************************************************************************)

\* The place of the first c in s, Len(s) + 1 if there is none.
FirstOf(s, c) == Min({i \in DOMAIN s : s[i] = c} \cup {Len(s) + 1})

\* parse of a u64 or usize: digits, and one at least.  Left out are a leading
\* "+", which it accepts, and numbers too large for the type.
Parse(s) ==
    IF s = <<>> \/ ~(ToSet(s) \subseteq ToSet(Numerals)) THEN NoValue
    ELSE FoldLeft(LAMBDA n, c : 10 * n + FirstOf(Numerals, c) - 1, 0, s)

\* slice::split: the pieces between newlines, the last one maybe empty.
Lines(s) ==
    LET ends == SelectSeq([i \in 1 .. Len(s) + 1 |-> i],
                          LAMBDA i : i = Len(s) + 1 \/ s[i] = "\n")
    IN  [n \in DOMAIN ends |-> SubSeq(s, IF n = 1 THEN 1 ELSE ends[n - 1] + 1, ends[n] - 1)]

\* Mutant: the length of a record is not compared.
RecordAnyLength(line) ==
    LET rest == SubSeq(line, FirstOf(line, " ") + 1, Len(line))
    IN  IF FirstOf(rest, "=") > Len(rest) THEN Malformed
        ELSE [key   |-> SubSeq(rest, 1, FirstOf(rest, "=") - 1),
              value |-> SubSeq(rest, FirstOf(rest, "=") + 1, Len(rest))]

\* A line without its newline.
Record(line) ==
    LET space  == FirstOf(line, " ")
        rest   == SubSeq(line, space + 1, Len(line))
        equals == FirstOf(rest, "=")
    IN  IF \/ space > Len(line) \/ equals > Len(rest)
           \/ Parse(SubSeq(line, 1, space - 1)) # Len(line) + 1
        THEN Malformed
        ELSE [key   |-> SubSeq(rest, 1, equals - 1),
              value |-> SubSeq(rest, equals + 1, Len(rest))]

\* PaxExtensions::next: the records up to an empty line or the end.
Extensions(s) ==
    LET lines == Lines(s)
    IN  [n \in 1 .. FirstOf(lines, <<>>) - 1 |-> Record(lines[n])]

\* Mutant: what is malformed is passed over.
SizeRecordLenient(s, key) ==
    LET es == SelectSeq(Extensions(s), LAMBDA e : e # Malformed /\ e.key = key)
    IN  IF es = <<>> THEN NoValue ELSE Parse(es[1].value)

\* pax_extensions_value: the first record of the key, as a number; none if
\* a malformed record comes before it.
SizeRecord(s, key) ==
    LET es == Extensions(s)
        n == Min({i \in DOMAIN es : es[i] = Malformed \/ es[i].key = key} \cup {Len(es) + 1})
    IN  IF n > Len(es) \/ es[n] = Malformed THEN NoValue ELSE Parse(es[n].value)

\* path_bytes, link_name_bytes: the first sound record of the key.
NameRecord(s, key) ==
    LET es == SelectSeq(Extensions(s), LAMBDA e : e # Malformed /\ e.key = key)
    IN  IF es = <<>> THEN NoValue ELSE es[1].value

-----------------------------------------------------------------------------
\* A record whose value has no newline.
Plain(r) == ~Contains(r.value, "\n")

\* How many records are there to their ends: all but a newline, which the
\* length makes up for.
Entire ==
    LET end[n \in 0 .. Len(written)] ==
            IF n = 0 THEN 0 ELSE end[n - 1] + Len(RecordText(written[n]))
    IN  Max({0} \cup {n \in DOMAIN written : end[n] - 1 <= Len(payload)})

\* What the reader makes of a payload whose records are plain is a beginning
\* of what was written, and nothing else: where the payload ends early, the
\* record that is cut off is malformed, never a shorter value (pax.rs:105).
CutKeepsRecords ==
    (\A n \in DOMAIN written : Plain(written[n])) =>
        LET es == Extensions(payload)
        IN  /\ Len(es) \in {Entire, Entire + 1}
            /\ SubSeq(es, 1, Entire) = SubSeq(written, 1, Entire)
            /\ Len(es) > Entire => es[Entire + 1] = Malformed /\ cut

\* A value with a newline makes its own record malformed, and ends the payload
\* if a newline follows it.  A name behind it is still found, a number is not,
\* and of two records of one key the first one counts (entry.rs:386-388,
\* pax.rs:65-71).
NewlineHidesNumbers ==
    ~cut =>
        \A key \in Keys :
            LET broken  == {n \in DOMAIN written : ~Plain(written[n])}
                stop    == Min({n \in broken :
                                   \E i \in 2 .. Len(Lines(written[n].value)) :
                                        Lines(written[n].value)[i] = <<>>} \cup {Len(written) + 1})
                its     == {n \in DOMAIN written : written[n].key = key /\ Plain(written[n])}
                first   == Min(its \cup {Len(written) + 1})
            IN  /\ NameRecord(payload, key) =
                        IF first < stop THEN written[first].value ELSE NoValue
                /\ SizeRecord(payload, key) =
                        IF first <= Len(written) /\ \A n \in broken : first < n
                        THEN Parse(written[first].value) ELSE NoValue
=============================================================================
