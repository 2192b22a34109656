----------------------------- MODULE StableSort -----------------------------
(***************************************************************************)
(* What the standard library does with the program's lists: sort_by_key,   *)
(* where elements of equal keys keep their order, and filter.              *)
(***************************************************************************)
EXTENDS Naturals, Sequences, FiniteSets

\* Whether the element at i goes before the one at j, keys[n] being n's key.
GoesBefore(keys, i, j) ==
    \/ keys[i] < keys[j]
    \/ keys[i] = keys[j] /\ i < j

\* The elements of s by ascending key, ties in their order in s.
SortedByKey(s, keys) ==
    [n \in DOMAIN s |->
        s[CHOOSE i \in DOMAIN s :
            Cardinality({j \in DOMAIN s : GoesBefore(keys, j, i)}) = n - 1]]

\* The elements of s at some of its places, and those that pass a test.
Picked(s, places) ==
    LET upTo[n \in 0..Len(s)] ==
            IF n = 0 THEN <<>>
            ELSE IF n \in places THEN Append(upTo[n - 1], s[n]) ELSE upTo[n - 1]
    IN  upTo[Len(s)]
Those(s, Test(_)) == Picked(s, {k \in DOMAIN s : Test(s[k])})

=============================================================================
