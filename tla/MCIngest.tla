------------------------------- MODULE MCIngest -------------------------------
EXTENDS Ingest, TLC

\* Every adapter discovers one source; or the last one discovers none.
OneEach == [a \in Adapters |-> 1]
LastHasNone == [a \in Adapters |-> IF a = Last THEN 0 ELSE 1]

\* Windows of up to two records: all, the second, one or the other.
Between(since, until) == [since |-> since, until |-> until]
NoBounds == {Between(1, 3)}
FromSecond == {Between(2, 3)}
OneEachSide == {Between(1, 2), Between(2, 3)}

Symmetry == Permutations(Procs) \cup Permutations(Policies)
=============================================================================
