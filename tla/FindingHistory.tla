--------------------------- MODULE FindingHistory ---------------------------
(***************************************************************************)
(* What the finding ledger promises, whatever the number of processes and  *)
(* whatever stops them: each finding has one history, extended only at its *)
(* end by a revision the grading ladder allows.  A revision may be lost    *)
(* from the end of a history until it is promised (fsynced), never after.  *)
(***************************************************************************)
EXTENDS Integers, Sequences

CONSTANTS Findings, Times

Rank == [lead |-> 0, candidate |-> 1, corroborated |-> 2, refuted |-> 3]
Grades == DOMAIN Rank

VARIABLES
  history,  \* each finding's revisions, as [at, grade] records, oldest first
  promised  \* how many revisions of each finding can no longer be lost

vars == <<history, promised>>

Init ==
  /\ history = [f \in Findings |-> <<>>]
  /\ promised = [f \in Findings |-> 0]

\* The ladder is an order with "refuted" on top: no grade is ever given up.
MayFollow(past, at, grade) ==
  past # <<>> => LET last == past[Len(past)]
                 IN at > last.at /\ Rank[grade] >= Rank[last.grade]

Record(f, at, grade) ==
  /\ MayFollow(history[f], at, grade)
  /\ history' = [history EXCEPT ![f] = Append(@, [at |-> at, grade |-> grade])]
  /\ UNCHANGED promised

Promise ==
  /\ promised' \in [Findings -> Nat]
  /\ \A f \in Findings : promised'[f] \in promised[f]..Len(history[f])
  /\ UNCHANGED history

Lose ==
  /\ DOMAIN history' = Findings
  /\ \A f \in Findings : \E n \in promised[f]..Len(history[f]) :
       history'[f] = SubSeq(history[f], 1, n)
  /\ UNCHANGED promised

Next ==
  \/ \E f \in Findings, at \in Times, grade \in Grades : Record(f, at, grade)
  \/ Promise
  \/ Lose

Spec == Init /\ [][Next]_vars
=============================================================================
