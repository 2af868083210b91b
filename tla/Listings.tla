---- MODULE Listings ----
\* Finite sets of numbers as sequences, as Python's sorted() lists them. The
\* lists of the program that are kept in order of a number (workers by id,
\* groups by rank, requests by arrival, queue entries by age) are such.
EXTENDS Integers, Sequences, FiniteSets

\* The numbers of S in increasing order.
Listed(S) ==
    CHOOSE q \in [1..Cardinality(S) -> S] :
        \A i, j \in 1..Cardinality(S) : i < j => q[i] < q[j]

\* The elements of the sequence s that are in S, in their order.
Kept(s, S) ==
    LET kept[i \in 0 .. Len(s)] ==
            IF i = 0 THEN <<>>
            ELSE IF s[i] \in S THEN Append(kept[i - 1], s[i]) ELSE kept[i - 1]
    IN  kept[Len(s)]
====
