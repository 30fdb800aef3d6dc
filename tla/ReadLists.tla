------------------------------- MODULE ReadLists -------------------------------
(***************************************************************************)
(* What the statements of both read models share: rows are members of      *)
(* sets, ORDER BY is the order of their key tuples, NULL is -1, an absent  *)
(* filter is None (the empty string of a query), a searched column is the  *)
(* sequence of its words.  Identifiers are integers in the order of the    *)
(* strings they stand for.                                                 *)
(***************************************************************************)
EXTENDS Integers, Sequences, FiniteSets, FiniteSetsExt

CONSTANT None       \* an empty filter

Null == -1
Sum(f(_), S) == SumFunction([x \in S |-> f(x)])

Admits(filter, value) == filter = None \/ filter = value

\* column ILIKE '%search%'
Matches(column, words) ==
    \E i \in 0 .. Len(column) - Len(words) :
        SubSeq(column, i + 1, i + Len(words)) = words

Precedes(a, b) ==
    \E i \in DOMAIN a : a[i] < b[i] /\ \A j \in 1 .. i - 1 : a[j] = b[j]

\* The rows of a list with the key of a row, and how many the order puts before it.
Ties(key, r) == {x \in DOMAIN key : key[x] = key[r]}
Before(key, r) == Cardinality({x \in DOMAIN key : Precedes(key[x], key[r])})

\* LIMIT and OFFSET on a list, given as its keys, row -> key: the rows of the
\* window, any of them where the order ties.
Windows(key, offset, limit) ==
    LET rows == DOMAIN key
        shown == [r \in rows |->
            Cardinality(((Before(key, r) + 1) .. (Before(key, r) + Cardinality(Ties(key, r))))
                           \cap ((offset + 1) .. (offset + limit)))]
        sure == {r \in rows : shown[r] = Cardinality(Ties(key, r))}
        maybe == {r \in rows : shown[r] \in 1 .. Cardinality(Ties(key, r)) - 1}
    IN  {sure \cup extra : extra \in
            {x \in SUBSET maybe :
                \A r \in maybe : Cardinality(x \cap Ties(key, r)) = shown[r]}}

\* COUNT(*) OVER() travels on the rows: a page past the end has none to carry it.
CountOver(rows, page) == IF page = {} THEN 0 ELSE Cardinality(rows)
=============================================================================
