-------------------------- MODULE MCFindingLedger --------------------------
EXTENDS FindingLedger, TLC

Symmetry == Permutations(Procs)

\* Where the revisions of a finding are in the file.
Mine(s, f) == {i \in 1..Len(s) : s[i] # Torn /\ s[i].finding = f}

\* The n-th of a set of numbers.
Nth(S, n) == CHOOSE i \in S : Cardinality({j \in S : j <= i}) = n

\* The abstract view of the file: the revisions of each finding, in file order.
RevisionsOf(s, f) ==
  [n \in 1..Cardinality(Mine(s, f)) |->
     LET r == s[Nth(Mine(s, f), n)] IN [at |-> r.at, grade |-> r.grade]]

Histories == [f \in Findings |-> RevisionsOf(lines, f)]
Fsynced == [f \in Findings |-> Cardinality({i \in Mine(lines, f) : i <= durable})]

Promises == INSTANCE FindingHistory WITH history <- Histories, promised <- Fsynced

\* The ledger implements the per-finding histories of FindingHistory.
ImplementsHistory == Promises!Spec
=============================================================================
