------------------------------- MODULE Stores -------------------------------
(***************************************************************************)
(* What a parser is given: a file or directory that can be read or not,    *)
(* and in it named lists of rows: the tables of a database, the arrays and *)
(* objects of a JSON or plist document, the lines of a text file, the      *)
(* entries of a directory.  A list is here, absent, or changed: there, but *)
(* without a column the parser asks for.                                   *)
(*                                                                         *)
(* A row is reduced to what decides whether and when it is reported: its   *)
(* main text (none, empty or a text), the time it records (none, zero or   *)
(* later), whether its other columns hold what the parser expects, the row *)
(* it refers to, and whether it is of the sort that is asked for.  A file  *)
(* is text throughout, or has a byte somewhere that makes it no text.      *)
(***************************************************************************)
EXTENDS Integers, Sequences, FiniteSets, StableSort

CONSTANTS WEBKIT_EPOCH_OFFSET,      \* what lies between 1601 and 1970
          CORE_DATA_EPOCH_OFFSET,   \* and between 1970 and 2001
          OverflowChecks            \* the program was built with overflow checks

Null == -1
Huge == 3       \* a time whose conversion leaves the 64 bits

\* What queries ask of a row.
Named(r) == r.key > 0
Texted(r) == r.key # Null
Dated(r) == r.at > 0
Stamped(r) == r.at # Null
Joined(r) == r.link # 0

Here(store, list) == store.lists[list].state = "here"
RowsIn(store, list) == IF Here(store, list) THEN store.lists[list].rows ELSE <<>>

\* A missing time is zero, and zero is converted like any other.  A conversion stops at
\* the last time there is; one that does not, wraps.
Recorded(r) == IF r.at = Null THEN 0 ELSE r.at
LastTime == Huge + CORE_DATA_EPOCH_OFFSET
Saturated(n, converted) == IF n = Huge THEN LastTime ELSE converted
Wrapped(n) == IF n = Huge THEN -1 ELSE n
Timestamp(clock, n) ==
    CASE clock = "webkit" -> Saturated(n, n - WEBKIT_EPOCH_OFFSET)
      [] clock = "core_data" -> Saturated(n, n + CORE_DATA_EPOCH_OFFSET)
      [] clock = "unix" -> Saturated(n, n)
      [] clock = "unix_unchecked" -> Wrapped(n)
      [] clock = "webkit_if_any" -> Saturated(n, IF n > 0 THEN n - WEBKIT_EPOCH_OFFSET ELSE 0)
      [] clock = "none" -> 0

Events(rows, clock) ==
    [k \in DOMAIN rows |-> [row |-> rows[k].id, at |-> Timestamp(clock, Recorded(rows[k]))]]

Failed == [ok |-> FALSE, events |-> <<>>]
Parsed(events) == [ok |-> TRUE, events |-> events]

\* A row that does not decode is passed over, the others are kept.
Decoded(rows) == Those(rows, LAMBDA r : r.sound)
OrderedByTime(rows) == SortedByKey(rows, [k \in DOMAIN rows |-> rows[k].at])

\* A statement that cannot be prepared is an error of the parser, or nothing found.
Prepared(store, lists) == \A list \in lists : Here(store, list)

\* Mistake: the first row that does not decode fails the query.
CollectsOrFails(store, lists, rows, clock) ==
    IF store.opens /\ Prepared(store, lists) /\ \A k \in DOMAIN rows : rows[k].sound
    THEN Parsed(Events(rows, clock)) ELSE Failed

Query(store, lists, rows, clock) ==
    IF store.opens /\ Prepared(store, lists)
    THEN Parsed(Events(Decoded(rows), clock)) ELSE Failed

QueryIfAny(store, lists, rows, clock) ==
    IF store.opens /\ ~Prepared(store, lists)
    THEN Parsed(<<>>) ELSE Query(store, lists, rows, clock)

\* A file of bytes is walked as far as it goes; a document is read whole first, which
\* fails unless all of it is text.
WalkBytes(store, rows, clock) ==
    IF store.opens THEN Parsed(Events(rows, clock)) ELSE Failed
Walk(store, rows, clock) == IF store.utf8 THEN WalkBytes(store, rows, clock) ELSE Failed

\* A panic ends the run with nothing printed, as an error does.
Panicked == Failed
Unchecked(rows, parsed) ==
    IF OverflowChecks /\ (\E k \in DOMAIN rows : rows[k].at = Huge) THEN Panicked ELSE parsed

\* One parser's findings after another's; an error is an error of both.
Then(first, second) ==
    IF first.ok /\ second.ok THEN Parsed(first.events \o second.events) ELSE Failed

\* The nodes of a tree that a walk from its roots reaches: a node hangs from an
\* earlier one, which must be a folder.
IsFolder(node) == node.sound /\ ~node.sort
Reached(rows) ==
    LET upTo[n \in 0..Len(rows)] ==
            IF n = 0 THEN {}
            ELSE IF rows[n].link = 0 \/ (rows[n].link \in upTo[n - 1] /\ IsFolder(rows[rows[n].link]))
                 THEN upTo[n - 1] \cup {n} ELSE upTo[n - 1]
    IN  upTo[Len(rows)]
Leaves(rows) == Picked(rows, {k \in Reached(rows) : rows[k].sound /\ rows[k].sort})

=============================================================================
