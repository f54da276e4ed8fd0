------------------------------- MODULE MCLinks -------------------------------
(***************************************************************************)
(* The link tables of one store and what is read along them: the rows of a *)
(* relation, the rows of a crosswalk, the relations that say what was done *)
(* about a finding, and the outcomes of a promotion.  What one part writes *)
(* no other part reads, so a behaviour is about one of them.  A relation   *)
(* of FindingActivity or ProcedureCalibration is asserted and then refuted *)
(* for good, which is what ClosedHistory says of the rows of any relation. *)
(***************************************************************************)
EXTENDS RelationStore, FindingActivity, ProcedureCalibration, TLC

CONSTANT r1

VARIABLES part, joinRows, joinPc, join

Joins == INSTANCE CrosswalkStore WITH
  rows <- joinRows, pc <- joinPc, record <- join, Bodies <- Evidence

joinVars == <<joinRows, joinPc, join>>
linkVars == <<part, vars, joinVars, activityVars, calibrationVars>>

\* A revision that was acted on, and what became of the next one.
SomeActions ==
  {[revision |-> 1, predicate |-> "acts_on", receipt |-> r1],
   [revision |-> 2, predicate |-> "promotes", receipt |-> r1],
   [revision |-> 2, predicate |-> "refutes", receipt |-> r1]}

\* What Fab reports of the promotion: how a job ended, how another one failed,
\* and what was delivered, which counts for more; and what Somm says of two runs.
FabOutcome(id, semantic) ==
  [id |-> id, exact |-> TRUE, semantic |-> semantic, succeeded |-> TRUE, receipt |-> id]
JobsAndDelivery ==
  {FabOutcome(1, FALSE), FabOutcome(2, TRUE), [FabOutcome(3, FALSE) EXCEPT !.succeeded = FALSE]}
Comparison(direction, receipt) ==
  [at |-> receipt, exact |-> TRUE, direction |-> direction, baseline |-> 1, post |-> 2,
   receipt |-> receipt]
TwoComparisons == {Comparison("higher", 1), Comparison("lower", 2)}

LinksInit ==
  /\ part \in {"relations", "joins", "activity", "calibration"}
  /\ Init /\ Joins!Init /\ ActivityInit /\ CalibrationInit

LinksNext ==
  /\ UNCHANGED part
  /\ \/ part = "relations" /\ Next /\ UNCHANGED <<joinVars, activityVars, calibrationVars>>
     \/ part = "joins" /\ Joins!Next /\ UNCHANGED <<vars, activityVars, calibrationVars>>
     \/ part = "activity" /\ ActivityNext /\ UNCHANGED <<vars, joinVars, calibrationVars>>
     \/ part = "calibration" /\ CalibrationNext /\ UNCHANGED <<vars, joinVars, activityVars>>

LinksSpec == LinksInit /\ [][LinksNext]_linkVars

\* The joins of the store have a linear history (CrosswalkStore).
LinearJoins == Joins!LinearJoins

Symmetry == Permutations(Evidence) \cup Permutations(Calibrators)
=============================================================================
