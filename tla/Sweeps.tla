------------------------------- MODULE Sweeps -------------------------------
(* The query the three lifecycle sweeps share: rows whose deadline passed, *)
(* "orderBy deadline asc, take limit".                                     *)
EXTENDS Integers, FiniteSets

CONSTANT Null           \* SQL NULL
ASSUME NullNotATime == Null \notin Int

Overdue(row, t) == row.expiresAt # Null /\ row.expiresAt < t

(* The batches the query may return of S; ties are in any order.           *)
Oldest(S, row, limit) ==
    {B \in SUBSET S :
        /\ \A x \in B, y \in S \ B : row[x].expiresAt <= row[y].expiresAt
        /\ IF Cardinality(S) <= limit THEN B = S ELSE Cardinality(B) = limit}
=============================================================================
