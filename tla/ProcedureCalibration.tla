------------------------ MODULE ProcedureCalibration ------------------------
(***************************************************************************)
(* `milton findings calibrate-promotion`, src/milton/promotion.py: what    *)
(* became of a promoted procedure.  build_procedure_calibration asks the   *)
(* store for the relation that promoted it, for the outcome that Fab       *)
(* reports and for the comparison that Somm reports, each with a query of  *)
(* its own while scans append events; ProcedureCalibrationLedger.append    *)
(* then reads its file and writes, with no lock.  The store holds the      *)
(* promotion, without which a command ends at once; its receipt is the     *)
(* evidence of the relation, as the Spindle adapter states it.             *)
(***************************************************************************)
EXTENDS Naturals, Sequences, SequencesExt

CONSTANTS
  Calibrators,    \* processes
  FabOutcomes,    \* `fab.job` outcomes that scans may find
  SommOutcomes,   \* `procedure_outcome` receipts that scans may find
  MaxResults,     \* bound: no command starts once the file has so many lines
  NoEvent,        \* Python's None
  CutLine         \* a line that a write left unfinished

\* An outcome is exact if it names the promotion, the revision and both tuples.
ASSUME CalibrationAssumption ==
  /\ MaxResults \in Nat
  /\ NoEvent \notin FabOutcomes \cup SommOutcomes
  /\ FabOutcomes \cap SommOutcomes = {}
  /\ \A f \in FabOutcomes : {f.exact, f.semantic, f.succeeded} \subseteq BOOLEAN
  /\ \A s \in SommOutcomes :
       s.exact \in BOOLEAN /\ s.direction \in {"higher", "lower"}
         /\ s.baseline \in Nat /\ s.post \in Nat

VARIABLES
  arrived,      \* the outcomes that are in the store
  promotes,     \* the relation of the finding to the promotion: its last record
  calibrating,  \* the command of each process
  results       \* the lines of the calibration file

calibrationVars == <<arrived, promotes, calibrating, results>>

-----------------------------------------------------------------------------
\* The only one of them, or none.
Only(outcomes) ==
  IF \E o \in outcomes : outcomes = {o} THEN CHOOSE o \in outcomes : outcomes = {o} ELSE NoEvent

Exact(outcomes) == {o \in outcomes : o.exact}

\* _matching_fab_outcome: the semantic outcome, if there is any, counts for more.
FabMatch(stored) ==
  LET matches == Exact(stored \cap FabOutcomes)
      semantic == {f \in matches : f.semantic}
  IN  Only(IF semantic # {} THEN semantic ELSE matches)

\* Mutant: the latest of several comparisons is taken.
SommLatest(stored) ==
  LET matches == Exact(stored \cap SommOutcomes)
  IN  IF matches = {} THEN NoEvent
      ELSE CHOOSE s \in matches : \A t \in matches : t.at <= s.at

\* _matching_somm_outcome
SommMatch(stored) == Only(Exact(stored \cap SommOutcomes))

\* classify_procedure_outcome
ProcedureOutcome(s) ==
  IF s.post = s.baseline THEN "inconclusive"
  ELSE IF s.post > s.baseline <=> s.direction = "higher" THEN "improvement" ELSE "regression"

\* Why nothing can be said.
Doubts(promoted, fab, somm) ==
  (IF promoted THEN {} ELSE {"missing-finding-promotion-relation"})
  \cup (CASE fab = NoEvent -> {"missing-exact-fab-outcome"}
          [] fab # NoEvent /\ ~fab.succeeded -> {"fab-outcome-not-successful"}
          [] OTHER -> {})
  \cup (CASE somm = NoEvent -> {"missing-exact-somm-outcome"}
          [] somm # NoEvent /\ fab # NoEvent /\ somm.receipt # fab.receipt ->
               {"fab-somm-receipt-mismatch"}
          [] OTHER -> {})

\* _classify, which adds a reason of its own.
State(promoted, fab, somm) ==
  IF Doubts(promoted, fab, somm) = {} THEN ProcedureOutcome(somm) ELSE "inconclusive"
Reasons(promoted, fab, somm) ==
  IF Doubts(promoted, fab, somm) = {} /\ ProcedureOutcome(somm) = "inconclusive"
  THEN {"no-operational-difference"} ELSE Doubts(promoted, fab, somm)

\* The scores that are hashed and recorded.
Scores(somm) == IF somm = NoEvent THEN <<NoEvent, NoEvent>> ELSE <<somm.baseline, somm.post>>

\* Mutant: the evidence is left out of the hash.
ResultIdOfState(promoted, fab, somm) ==
  [evidence |-> {}, state |-> State(promoted, fab, somm),
   reasons |-> Reasons(promoted, fab, somm), scores |-> Scores(somm)]

\* result_id is a hash of these and of the promotion.
ResultId(promoted, fab, somm) ==
  [evidence |-> {fab, somm} \ {NoEvent}, state |-> State(promoted, fab, somm),
   reasons |-> Reasons(promoted, fab, somm), scores |-> Scores(somm)]

\* ProcedureCalibrationRecord.  `somm` stands for the receipt's id, metric and
\* direction.
Result(promoted, fab, somm) ==
  [id   |-> ResultId(promoted, fab, somm),
   fab  |-> IF fab = NoEvent THEN NoEvent ELSE fab.receipt,
   somm |-> somm]

-----------------------------------------------------------------------------
Idle == [step |-> "idle", promoted |-> FALSE, fab |-> NoEvent, result |-> NoEvent]

CalibrationInit ==
  /\ arrived = {}
  /\ promotes = "none"
  /\ calibrating = [p \in Calibrators |-> Idle]
  /\ results = <<>>

\* A scan appends the event of an outcome.
Arrive(o) ==
  /\ o \notin arrived
  /\ arrived' = arrived \cup {o}
  /\ UNCHANGED <<promotes, calibrating, results>>

\* The relation is asserted, by Spindle's receipt, or refuted for good.
Promote ==
  /\ promotes # "refuted"
  /\ promotes' = IF promotes = "none" THEN "asserted" ELSE "refuted"
  /\ UNCHANGED <<arrived, calibrating, results>>

\* store.event_for_ref of the promotion, and store.outgoing_relations
AskRelation(p) ==
  /\ calibrating[p].step = "idle"
  /\ Len(results) < MaxResults
  /\ calibrating' = [calibrating EXCEPT ![p].step = "fab", ![p].promoted = promotes = "asserted"]
  /\ UNCHANGED <<arrived, promotes, results>>

\* store.events(adapter="fab")
AskFab(p) ==
  /\ calibrating[p].step = "fab"
  /\ calibrating' = [calibrating EXCEPT ![p].step = "somm", ![p].fab = FabMatch(arrived)]
  /\ UNCHANGED <<arrived, promotes, results>>

\* store.events(adapter="somm"), and the record is built
AskSomm(p) ==
  /\ calibrating[p].step = "somm"
  /\ calibrating' = [calibrating EXCEPT
       ![p].step = "load",
       ![p].result = Result(calibrating[p].promoted, calibrating[p].fab, SommMatch(arrived))]
  /\ UNCHANGED <<arrived, promotes, results>>

\* ProcedureCalibrationLedger.append: the file does not parse, or has the result.
Repeat(p) ==
  /\ calibrating[p].step = "load"
  /\ \E line \in ToSet(results) : line # CutLine => line.id = calibrating[p].result.id
  /\ calibrating' = [calibrating EXCEPT ![p] = Idle]
  /\ UNCHANGED <<arrived, promotes, results>>

\* The file has been read and does not have the result.
Load(p) ==
  /\ calibrating[p].step = "load"
  /\ \A line \in ToSet(results) : line # CutLine /\ line.id # calibrating[p].result.id
  /\ calibrating' = [calibrating EXCEPT ![p].step = "write"]
  /\ UNCHANGED <<arrived, promotes, results>>

\* The line is written, or the disk is full or the process killed half-way; what
\* is written behind an unfinished line is part of it.
Write(p) ==
  /\ calibrating[p].step = "write"
  /\ IF results # <<>> /\ Last(results) = CutLine THEN UNCHANGED results
     ELSE \E line \in {calibrating[p].result, CutLine} : results' = Append(results, line)
  /\ calibrating' = [calibrating EXCEPT ![p] = Idle]
  /\ UNCHANGED <<arrived, promotes>>

Calibrate(p) == AskRelation(p) \/ AskFab(p) \/ AskSomm(p) \/ Repeat(p) \/ Load(p) \/ Write(p)

CalibrationNext ==
  \/ \E o \in FabOutcomes \cup SommOutcomes : Arrive(o)
  \/ Promote
  \/ \E p \in Calibrators : Calibrate(p)

CalibrationSpec == CalibrationInit /\ [][CalibrationNext]_calibrationVars

-----------------------------------------------------------------------------
\* Results on file, and in hand.
OnFile == {line \in ToSet(results) : line # CutLine}
InHand == {calibrating[p].result : p \in {p \in Calibrators : calibrating[p].step \in {"load", "write"}}}

\* "Missing, duplicated, failed, or tuple-mismatched Fab/Somm evidence is
\* inconclusive" (docs/findings.md): so a procedure is not claimed to be an
\* improvement by one command and a regression by another, in whatever order
\* outcomes arrive, and although they arrive between the queries of a command.
ClaimsNeverContradict ==
  \A r, s \in OnFile :
    "inconclusive" \notin {r.id.state, s.id.state} => r.id.state = s.id.state

\* "exact replay is a no-op" (docs/findings.md): a result that has the identity
\* of one on file is that one, so that append never meets a conflict; evidence
\* that changes what a record says changes its identity.
ReplaysNeverConflict ==
  \A r \in OnFile \cup InHand, s \in OnFile : r.id = s.id => r = s
=============================================================================
