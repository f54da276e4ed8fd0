----------------------------- MODULE LinkProofs -----------------------------
(***************************************************************************)
(* Proofs about the link tables of a store: the relations and the joins,   *)
(* with one writer, for any evidence, bodies, times and number of rows;    *)
(* the calibration of promotions, for any processes, outcomes and number   *)
(* of results; and the activity of findings, for any relations, receipts   *)
(* and number of revisions.  With two writers the histories of links do    *)
(* not hold: the checks of one are out of date when the other commits.     *)
(***************************************************************************)
EXTENDS MCLinks, SequenceTheorems, TLAPS

\* Scans, commands and library calls do not overlap.
OneWriter == \A p, q \in Procs : p = q

\* What the statements before have let through still holds of the rows.
CheckedOK ==
  \A p \in Procs :
    /\ pc[p] # "idle" => record[p] \in Records
    /\ pc[p] = "history" => rows # <<>> /\ CurrentAllows(record[p])
    /\ pc[p] = "insert" =>
         CurrentAllows(record[p]) /\ (rows # <<>> => HistoryAllows(record[p]))

\* The inductive invariant.
RInv ==
  /\ TypeOK
  /\ CheckedOK
  /\ ClosedHistory
  /\ RefutationAnswers
  /\ FreshEvidence

-----------------------------------------------------------------------------
LEMMA RecordStates ==
  ASSUME NEW r \in Records
  PROVE  /\ r.state \in {"asserted", "refuted"}
         /\ r.state = "asserted" => r \in Assertions
BY DEF Records, Assertions, Refutations

\* Both commands append a record.
LEMMA RelationBegins ==
  ASSUME TypeOK, NEW p \in Procs, Relate(p) \/ Unrelate(p)
  PROVE  \E r \in Records : Begin(p, r)
<1>1. CASE Relate(p)
  BY <1>1 DEF Relate, Records
<1>2. CASE Unrelate(p)
  <2>1. rows[Len(rows)] \in Assertions
    <3>1. Len(rows) \in 1..Len(rows)
      BY <1>2 DEF Unrelate, TypeOK
    <3>2. rows[Len(rows)] \in Records
      BY <3>1 DEF TypeOK
    <3> QED BY <1>2, <3>2, RecordStates DEF Unrelate
  <2>2. PICK t \in Times : Begin(p, RefutationOf(rows[Len(rows)], t))
    BY <1>2 DEF Unrelate
  <2>3. RefutationOf(rows[Len(rows)], t) \in Records
    BY <2>1 DEF RefutationOf, Records, Refutations
  <2> QED BY <2>2, <2>3
<1> QED BY <1>1, <1>2

\* A record that passed every check keeps the history what it promises to be.
LEMMA AppendKeeps ==
  ASSUME rows \in Seq(Records), ClosedHistory, RefutationAnswers, FreshEvidence,
         NEW r \in Records, CurrentAllows(r), rows # <<>> => HistoryAllows(r),
         rows' = Append(rows, r)
  PROVE  ClosedHistory' /\ RefutationAnswers' /\ FreshEvidence'
<1>1. /\ Len(rows') = Len(rows) + 1
      /\ Len(rows) \in Nat
      /\ rows'[Len(rows) + 1] = r
      /\ \A i \in 1..Len(rows) : rows'[i] = rows[i]
  OBVIOUS
<1>2. rows = <<>> <=> Len(rows) = 0
  OBVIOUS
<1>3. \A i \in 1..Len(rows) : rows[i].state = "asserted"
  <2> SUFFICES ASSUME NEW i \in 1..Len(rows), rows[i].state # "asserted"
               PROVE  FALSE
    OBVIOUS
  <2>1. rows[i].state = "refuted"
    BY RecordStates
  <2> QED BY <1>1, <1>2, <2>1 DEF ClosedHistory, CurrentAllows
<1>4. ClosedHistory'
  BY <1>1, <1>3 DEF ClosedHistory
<1>5. RefutationAnswers'
  <2> SUFFICES ASSUME r.state = "refuted"
               PROVE  /\ Len(rows) + 1 > 1
                      /\ r.supersedes = rows[Len(rows)]
                      /\ \A j \in 1..Len(rows) : rows[j].at < r.at
    BY <1>1, <1>3 DEF RefutationAnswers
  <2>1. rows # <<>> /\ r.supersedes = rows[Len(rows)]
    BY DEF CurrentAllows
  <2>2. \A j \in 1..Len(rows) : r.at > rows[j].at
    BY <1>3, <2>1 DEF HistoryAllows, Asserted, Stored
  <2>3. r.at \in Nat /\ \A j \in 1..Len(rows) : rows[j].at \in Nat
    BY ConstantsAssumption DEF Records, Assertions, Refutations
  <2> QED BY <1>1, <1>2, <2>1, <2>2, <2>3
<1>6. FreshEvidence'
  <2>1. ASSUME NEW i \in 2..Len(rows), rows[i].state = "asserted"
        PROVE  ~(rows'[i].evidence \subseteq UNION {rows'[j].evidence : j \in 1..(i-1)})
    <3>1. \A j \in 1..i : rows'[j] = rows[j]
      BY <1>1
    <3>2. {rows'[j].evidence : j \in 1..(i-1)} = {rows[j].evidence : j \in 1..(i-1)}
      BY <3>1
    <3> QED BY <2>1, <3>1, <3>2 DEF FreshEvidence
  <2>2. ASSUME r.state = "asserted", Len(rows) >= 1
        PROVE  ~(r.evidence \subseteq UNION {rows'[j].evidence : j \in 1..Len(rows)})
    <3>1. PICK e \in r.evidence : e \notin UNION {a.evidence : a \in Asserted}
      BY <1>1, <1>2, <2>2 DEF HistoryAllows
    <3>2. \A j \in 1..Len(rows) : e \notin rows'[j].evidence
      BY <1>1, <1>3, <3>1 DEF Asserted, Stored
    <3> QED BY <3>1, <3>2
  <2> QED BY <1>1, <2>1, <2>2 DEF FreshEvidence
<1> QED BY <1>4, <1>5, <1>6

\* Every statement keeps the invariant.
LEMMA StepInv ==
  ASSUME RInv, OneWriter, [Next]_vars
  PROVE  RInv'
<1> USE DEF RInv, TypeOK
<1>1. ASSUME NEW p \in Procs, NEW r \in Records, Begin(p, r)
      PROVE  RInv'
  BY <1>1 DEF Begin, Goto, OneWriter, CheckedOK, ClosedHistory, RefutationAnswers, FreshEvidence
<1>2. ASSUME NEW p \in Procs, Lookup(p) \/ ReadCurrent(p) \/ ReadHistory(p)
      PROVE  RInv'
  <2>1. ClosedHistory' /\ RefutationAnswers' /\ FreshEvidence'
    BY <1>2 DEF Lookup, ReadCurrent, ReadHistory, ClosedHistory, RefutationAnswers, FreshEvidence
  <2>2. TypeOK'
    BY <1>2 DEF Lookup, ReadCurrent, ReadHistory, Goto, Finish
  <2>3. CheckedOK'
    <3>1. CASE Lookup(p)
      BY <3>1 DEF Lookup, Goto, Finish, OneWriter, CheckedOK
    <3>2. CASE ReadCurrent(p)
      BY <3>2 DEF ReadCurrent, Goto, Finish, OneWriter, CheckedOK, CurrentAllows
    <3>3. CASE ReadHistory(p)
      BY <3>3 DEF ReadHistory, Goto, Finish, OneWriter, CheckedOK,
                 CurrentAllows, HistoryAllows, Asserted, Stored
    <3> QED BY <1>2, <3>1, <3>2, <3>3
  <2> QED BY <2>1, <2>2, <2>3
<1>3. ASSUME NEW p \in Procs, Insert(p)
      PROVE  RInv'
  <2>1. /\ record[p] \in Records
        /\ CurrentAllows(record[p])
        /\ rows # <<>> => HistoryAllows(record[p])
    BY <1>3 DEF Insert, CheckedOK
  <2>2. TypeOK' /\ CheckedOK'
    BY <1>3, <2>1 DEF Insert, Finish, Goto, OneWriter, CheckedOK
  <2>3. rows' = rows \/ rows' = Append(rows, record[p])
    BY <1>3 DEF Insert
  <2>4. ClosedHistory' /\ RefutationAnswers' /\ FreshEvidence'
    <3>1. CASE rows' = rows
      BY <3>1 DEF ClosedHistory, RefutationAnswers, FreshEvidence
    <3> QED BY <2>1, <2>3, <3>1, AppendKeeps
  <2> QED BY <2>2, <2>4
<1>4. CASE UNCHANGED vars
  BY <1>4 DEF vars, CheckedOK, CurrentAllows, HistoryAllows, Asserted, Stored,
              ClosedHistory, RefutationAnswers, FreshEvidence
<1> QED BY <1>1, <1>2, <1>3, <1>4, RelationBegins DEF Next, Step

-----------------------------------------------------------------------------
\* Who refutes says what is refuted, and who asserts does not.
JoinBuiltOK(r) == r \in Joins!Records /\ (r.state = "asserted" <=> r.supersedes = None)

\* What a record in hand was built like, and what its checks found.
JoinCheckedOK ==
  \A p \in Procs :
    /\ joinPc[p] # "idle" => JoinBuiltOK(join[p])
    /\ joinPc[p] = "insert" => join[p].supersedes = Joins!Current

\* The inductive invariant.
JInv == Joins!TypeOK /\ JoinCheckedOK /\ Joins!LinearJoins

-----------------------------------------------------------------------------
LEMMA CurrentJoinTyped ==
  ASSUME Joins!TypeOK, None \notin Joins!RecordIds
  PROVE  /\ joinRows # <<>> => Joins!Current \in Joins!RecordIds
         /\ joinRows = <<>> <=> Joins!Current = None
<1>1. CASE joinRows = <<>>
  BY <1>1 DEF Joins!Current
<1>2. CASE joinRows # <<>>
  <2>1. joinRows[Len(joinRows)] \in Joins!Records
    BY <1>2 DEF Joins!TypeOK
  <2>2. Joins!RecordId(joinRows[Len(joinRows)]) \in Joins!RecordIds
    BY <2>1 DEF Joins!RecordId, Joins!RecordIds, Joins!Records
  <2> QED BY <1>2, <2>2 DEF Joins!Current
<1> QED BY <1>1, <1>2

\* Both kinds of callers build a record as its state demands.
LEMMA JoinBegins ==
  ASSUME Joins!TypeOK, None \notin Joins!RecordIds, NEW p \in Procs,
         Joins!Assert(p) \/ Joins!Refute(p)
  PROVE  \E r : JoinBuiltOK(r) /\ Joins!Begin(p, r)
<1>1. CASE Joins!Assert(p)
  <2>1. PICK t \in Times, b \in Evidence :
          Joins!Begin(p, [state |-> "asserted", at |-> t, body |-> b, supersedes |-> None])
    BY <1>1 DEF Joins!Assert
  <2> QED BY <2>1 DEF JoinBuiltOK, Joins!Records
<1>2. CASE Joins!Refute(p)
  <2>1. PICK t \in Times, b \in Evidence :
          Joins!Begin(p, [state |-> "refuted", at |-> t, body |-> b, supersedes |-> Joins!Current])
    BY <1>2 DEF Joins!Refute
  <2>2. Joins!Current \in Joins!RecordIds /\ Joins!Current # None
    BY <1>2, CurrentJoinTyped DEF Joins!Refute
  <2> QED BY <2>1, <2>2 DEF JoinBuiltOK, Joins!Records
<1> QED BY <1>1, <1>2

\* A record that passed its check carries the chain on.
LEMMA JoinAppended ==
  ASSUME Joins!TypeOK, Joins!LinearJoins, None \notin Joins!RecordIds,
         NEW r, JoinBuiltOK(r), r.supersedes = Joins!Current, joinRows' = Append(joinRows, r)
  PROVE  Joins!LinearJoins'
<1>1. /\ joinRows \in Seq(Joins!Records)
      /\ Len(joinRows') = Len(joinRows) + 1
      /\ Len(joinRows) \in Nat
      /\ joinRows'[Len(joinRows) + 1] = r
      /\ \A i \in 1..Len(joinRows) : joinRows'[i] = joinRows[i]
      /\ joinRows = <<>> <=> Len(joinRows) = 0
  BY DEF Joins!TypeOK, JoinBuiltOK
<1>2. ASSUME NEW i \in 1..Len(joinRows)
      PROVE  /\ joinRows'[i].supersedes = IF i = 1 THEN None ELSE Joins!RecordId(joinRows'[i-1])
             /\ joinRows'[i].state = IF i = 1 THEN "asserted" ELSE "refuted"
  BY <1>1, <1>2 DEF Joins!LinearJoins
<1>3. r.supersedes = IF Len(joinRows) + 1 = 1 THEN None ELSE Joins!RecordId(joinRows[Len(joinRows)])
  BY <1>1 DEF Joins!Current
<1>4. r.state = IF Len(joinRows) + 1 = 1 THEN "asserted" ELSE "refuted"
  <2>1. r.state = "asserted" <=> joinRows = <<>>
    BY CurrentJoinTyped DEF JoinBuiltOK
  <2>2. r.state \in {"asserted", "refuted"}
    BY DEF JoinBuiltOK, Joins!Records
  <2> QED BY <1>1, <2>1, <2>2
<1> QED BY <1>1, <1>2, <1>3, <1>4 DEF Joins!LinearJoins

\* Every statement keeps the invariant.
LEMMA JoinStepInv ==
  ASSUME JInv, OneWriter, None \notin Joins!RecordIds, [Joins!Next]_(Joins!vars)
  PROVE  JInv'
<1> USE DEF JInv, Joins!TypeOK
<1>1. ASSUME NEW p \in Procs, NEW r, JoinBuiltOK(r), Joins!Begin(p, r)
      PROVE  JInv'
  BY <1>1 DEF Joins!Begin, Joins!Goto, JoinBuiltOK, OneWriter, JoinCheckedOK,
              Joins!LinearJoins, Joins!Current
<1>2. ASSUME NEW p \in Procs, Joins!Lookup(p) \/ Joins!ReadCurrent(p)
      PROVE  JInv'
  BY <1>2 DEF Joins!Lookup, Joins!ReadCurrent, Joins!Goto, Joins!Finish, OneWriter, JoinCheckedOK,
              Joins!LinearJoins, Joins!Current
<1>3. ASSUME NEW p \in Procs, Joins!Insert(p)
      PROVE  JInv'
  <2>1. JoinBuiltOK(join[p]) /\ join[p].supersedes = Joins!Current
    BY <1>3 DEF Joins!Insert, JoinCheckedOK
  <2>2. Joins!TypeOK' /\ JoinCheckedOK'
    BY <1>3, <2>1 DEF Joins!Insert, Joins!Finish, Joins!Goto, OneWriter, JoinCheckedOK, JoinBuiltOK
  <2>3. joinRows' = joinRows \/ joinRows' = Append(joinRows, join[p])
    BY <1>3 DEF Joins!Insert
  <2>4. Joins!LinearJoins'
    <3>1. CASE joinRows' = joinRows
      BY <3>1 DEF Joins!LinearJoins
    <3> QED BY <2>1, <2>3, <3>1, JoinAppended
  <2> QED BY <2>2, <2>4
<1>4. CASE UNCHANGED Joins!vars
  BY <1>4 DEF Joins!vars, JoinCheckedOK, Joins!LinearJoins, Joins!Current
<1> QED BY <1>1, <1>2, <1>3, <1>4, JoinBegins DEF Joins!Next, Joins!Step

-----------------------------------------------------------------------------
\* Every step of the link tables is a step of each of them, or leaves it alone.
LEMMA LinksAreParts ==
  LinksSpec => Spec /\ Joins!Spec /\ CalibrationSpec
<1>1. LinksInit => Init /\ Joins!Init /\ CalibrationInit
  BY DEF LinksInit
<1>2. /\ [LinksNext]_linkVars => [Next]_vars
      /\ [LinksNext]_linkVars => [Joins!Next]_(Joins!vars)
      /\ [LinksNext]_linkVars => [CalibrationNext]_calibrationVars
  BY DEF LinksNext, linkVars, vars, joinVars, Joins!vars
<1> QED BY <1>1, <1>2, PTL DEF LinksSpec, Spec, Joins!Spec, CalibrationSpec

LEMMA RelationInvariance ==
  ASSUME OneWriter
  PROVE  LinksSpec => []RInv
<1>1. Init => RInv
  BY DEF Init, RInv, TypeOK, CheckedOK, ClosedHistory, RefutationAnswers, FreshEvidence
<1>2. RInv /\ [Next]_vars => RInv'
  BY StepInv
<1> QED BY <1>1, <1>2, LinksAreParts, PTL DEF Spec

\* The rows and the records in hand keep their types.
THEOREM TypeCorrect ==
  ASSUME OneWriter
  PROVE  LinksSpec => []TypeOK
BY RelationInvariance, PTL DEF RInv

\* "a refuted relation has a closed history" (append_relation): with one writer
\* nothing follows a refutation.
THEOREM HistoryCloses ==
  ASSUME OneWriter
  PROVE  LinksSpec => []ClosedHistory
BY RelationInvariance, PTL DEF RInv

\* A refutation supersedes the row before it and is later than every assertion.
THEOREM RefutationsAnswer ==
  ASSUME OneWriter
  PROVE  LinksSpec => []RefutationAnswers
BY RelationInvariance, PTL DEF RInv

\* "a corroborating relation assertion requires new evidence": each assertion
\* after the first brings evidence that no earlier one rests on.
THEOREM EvidenceIsFresh ==
  ASSUME OneWriter
  PROVE  LinksSpec => []FreshEvidence
BY RelationInvariance, PTL DEF RInv

\* "enforcing a linear and inspectable history" (append_crosswalk): with one
\* writer each record supersedes the one before it, and a refuted join is only
\* ever refuted again.
THEOREM JoinsAreLinear ==
  ASSUME OneWriter, None \notin Joins!RecordIds
  PROVE  LinksSpec => []LinearJoins
<1>1. Joins!Init => JInv
  BY DEF Joins!Init, JInv, Joins!TypeOK, JoinCheckedOK, Joins!LinearJoins
<1>2. JInv /\ [Joins!Next]_(Joins!vars) => JInv'
  BY JoinStepInv
<1>3. JInv => LinearJoins
  BY DEF JInv, LinearJoins
<1> QED BY <1>1, <1>2, <1>3, LinksAreParts, PTL DEF Joins!Spec

-----------------------------------------------------------------------------
(* Calibration.                                                            *)

MaybeFab == FabOutcomes \cup {NoEvent}
MaybeSomm == SommOutcomes \cup {NoEvent}
AllResults ==
  {Result(promoted, fab, somm) : promoted \in BOOLEAN, fab \in MaybeFab, somm \in MaybeSomm}

CalibrationTypeOK ==
  /\ arrived \subseteq FabOutcomes \cup SommOutcomes
  /\ results \in Seq(AllResults \cup {CutLine})
  /\ calibrating \in [Calibrators -> [step     : {"idle", "fab", "somm", "load", "write"},
                                      promoted : BOOLEAN,
                                      fab      : MaybeFab,
                                      result   : AllResults \cup {NoEvent}]]
  /\ \A p \in Calibrators :
       calibrating[p].step \in {"load", "write"} => calibrating[p].result \in AllResults

Claim(r) == r.id.state # "inconclusive"
Made == OnFile \cup InHand

\* A claim is made of a comparison that was the only one, and is still there;
\* so all claims are made of the same one.
OneComparison ==
  /\ \A r \in Made : Claim(r) => r.somm \in Exact(arrived \cap SommOutcomes)
  /\ \A r, s \in Made : Claim(r) /\ Claim(s) => r.somm = s.somm

\* The inductive invariant.
CalInv == CalibrationTypeOK /\ OneComparison

-----------------------------------------------------------------------------
(* What the queries return and what a result is.                           *)

LEMMA OnlyOne ==
  ASSUME NEW outcomes
  PROVE  \/ Only(outcomes) = NoEvent
         \/ Only(outcomes) \in outcomes /\ outcomes = {Only(outcomes)}
BY DEF Only

LEMMA FabFound ==
  ASSUME NEW outcomes
  PROVE  FabMatch(outcomes) \in MaybeFab
<1> DEFINE matches == Exact(outcomes \cap FabOutcomes)
           semantic == {f \in matches : f.semantic}
           selected == IF semantic # {} THEN semantic ELSE matches
<1>1. selected \subseteq FabOutcomes
  BY DEF Exact
<1>2. FabMatch(outcomes) = Only(selected)
  BY DEF FabMatch
<1> QED BY <1>1, <1>2, OnlyOne DEF MaybeFab

LEMMA SommFound ==
  ASSUME NEW outcomes
  PROVE  \/ SommMatch(outcomes) = NoEvent
         \/ /\ SommMatch(outcomes) \in SommOutcomes
            /\ Exact(outcomes \cap SommOutcomes) = {SommMatch(outcomes)}
<1>1. Exact(outcomes \cap SommOutcomes) \subseteq SommOutcomes
  BY DEF Exact
<1> QED BY <1>1, OnlyOne DEF SommMatch

\* A claim is made of a comparison.
LEMMA ClaimCompares ==
  ASSUME NEW promoted \in BOOLEAN, NEW fab \in MaybeFab, NEW somm \in MaybeSomm,
         Claim(Result(promoted, fab, somm))
  PROVE  /\ somm # NoEvent
         /\ Result(promoted, fab, somm).id.state = ProcedureOutcome(somm)
<1>1. State(promoted, fab, somm) # "inconclusive"
  BY DEF Claim, Result, ResultId
<1>2. Doubts(promoted, fab, somm) = {}
  BY <1>1 DEF State
<1>3. somm # NoEvent
  BY <1>2 DEF Doubts
<1>4. State(promoted, fab, somm) = ProcedureOutcome(somm)
  BY <1>2 DEF State
<1> QED BY <1>3, <1>4 DEF Result, ResultId

\* What is hashed tells what was found, and so all that is recorded.
LEMMA IdentityTells ==
  ASSUME NEW r \in AllResults, NEW s \in AllResults, r.id = s.id
  PROVE  r = s
<1>1. PICK b \in BOOLEAN, f \in MaybeFab, m \in MaybeSomm : r = Result(b, f, m)
  BY DEF AllResults
<1>2. PICK c \in BOOLEAN, g \in MaybeFab, n \in MaybeSomm : s = Result(c, g, n)
  BY DEF AllResults
<1>3. ResultId(b, f, m) = ResultId(c, g, n)
  BY <1>1, <1>2 DEF Result
<1>4. {f, m} \ {NoEvent} = {g, n} \ {NoEvent}
  BY <1>3 DEF ResultId
<1>5. f = g /\ m = n
  BY <1>4, CalibrationAssumption DEF MaybeFab, MaybeSomm
<1> QED BY <1>1, <1>2, <1>3, <1>5 DEF Result

-----------------------------------------------------------------------------
(* The steps.                                                              *)

\* No step makes a result but these two, which move one.
LEMMA SameMade ==
  ASSUME CalInv, CalibrationTypeOK', Made' \subseteq Made, arrived \subseteq arrived'
  PROVE  CalInv'
<1>1. Exact(arrived \cap SommOutcomes) \subseteq Exact(arrived' \cap SommOutcomes)
  BY DEF Exact
<1> QED BY <1>1 DEF CalInv, OneComparison

LEMMA AppendedLines ==
  ASSUME NEW S, NEW s \in Seq(S), NEW x \in S
  PROVE  ToSet(Append(s, x)) \subseteq ToSet(s) \cup {x}
BY DEF ToSet

LEMMA AskSommStep ==
  ASSUME CalInv, NEW p \in Calibrators, AskSomm(p)
  PROVE  CalInv'
<1> DEFINE c == calibrating[p]
           somm == SommMatch(arrived)
           r == Result(c.promoted, c.fab, somm)
<1>1. c.promoted \in BOOLEAN /\ c.fab \in MaybeFab /\ somm \in MaybeSomm
  BY SommFound DEF CalInv, CalibrationTypeOK, MaybeSomm
<1>2. r \in AllResults
  BY <1>1 DEF AllResults
<1>3. /\ calibrating' = [calibrating EXCEPT ![p].step = "load", ![p].result = r]
      /\ UNCHANGED <<arrived, promotes, results>>
  BY DEF AskSomm
<1>4. CalibrationTypeOK'
  BY <1>2, <1>3 DEF CalInv, CalibrationTypeOK
<1>5. Made' \subseteq Made \cup {r}
  <2>1. OnFile' = OnFile
    BY <1>3 DEF OnFile
  <2>2. ASSUME NEW q \in Calibrators, calibrating'[q].step \in {"load", "write"}
        PROVE  calibrating'[q].result \in InHand \cup {r}
    BY <1>3, <2>2 DEF InHand, CalInv, CalibrationTypeOK
  <2>3. InHand' \subseteq InHand \cup {r}
    BY <2>2 DEF InHand
  <2> QED BY <2>1, <2>3 DEF Made
<1>6. Claim(r) => r.somm = somm /\ Exact(arrived \cap SommOutcomes) = {somm}
  BY <1>1, SommFound, ClaimCompares DEF Result
<1>7. OneComparison'
  BY <1>3, <1>5, <1>6 DEF CalInv, OneComparison
<1> QED BY <1>4, <1>7 DEF CalInv

LEMMA WriteStep ==
  ASSUME CalInv, NEW p \in Calibrators, Write(p)
  PROVE  CalInv'
<1> DEFINE r == calibrating[p].result
<1>1. r \in AllResults /\ r \in InHand
  BY DEF Write, CalInv, CalibrationTypeOK, InHand
<1>2. \/ UNCHANGED results
      \/ \E line \in {r, CutLine} : results' = Append(results, line)
  BY DEF Write
<1>3. calibrating' = [calibrating EXCEPT ![p] = Idle] /\ arrived' = arrived
  BY DEF Write
<1>4. CalibrationTypeOK'
  <2>1. results' \in Seq(AllResults \cup {CutLine})
    <3> DEFINE lines == AllResults \cup {CutLine}
    <3>1. results \in Seq(lines) /\ r \in lines /\ CutLine \in lines
      BY <1>1 DEF CalInv, CalibrationTypeOK
    <3> HIDE DEF lines, r
    <3>2. results' \in Seq(lines)
      BY <1>2, <3>1
    <3> QED BY <3>2 DEF lines
  <2>2. Idle \in [step     : {"idle", "fab", "somm", "load", "write"},
                  promoted : BOOLEAN,
                  fab      : MaybeFab,
                  result   : AllResults \cup {NoEvent}]
    BY DEF Idle, MaybeFab
  <2>3. Idle.step = "idle"
    BY DEF Idle
  <2> QED BY <1>3, <2>1, <2>2, <2>3 DEF CalInv, CalibrationTypeOK
<1>5. OnFile' \subseteq OnFile \cup {r}
  <2>1. CASE UNCHANGED results
    BY <2>1 DEF OnFile
  <2>2. ASSUME NEW line \in {r, CutLine}, results' = Append(results, line)
        PROVE  OnFile' \subseteq OnFile \cup {r}
    <3>1. line \in AllResults \cup {CutLine} /\ results \in Seq(AllResults \cup {CutLine})
      BY <1>1 DEF CalInv, CalibrationTypeOK
    <3>2. ToSet(results') \subseteq ToSet(results) \cup {line}
      BY <2>2, <3>1, AppendedLines
    <3> QED BY <3>2 DEF OnFile
  <2> QED BY <1>2, <2>1, <2>2
<1>6. InHand' \subseteq InHand
  BY <1>3 DEF InHand, CalInv, CalibrationTypeOK, Idle
<1> QED BY <1>1, <1>3, <1>4, <1>5, <1>6, SameMade DEF Made

LEMMA OtherStep ==
  ASSUME CalInv, NEW p \in Calibrators,
         AskRelation(p) \/ AskFab(p) \/ Repeat(p) \/ Load(p)
  PROVE  CalInv'
<1>1. UNCHANGED <<arrived, results>>
  BY DEF AskRelation, AskFab, Repeat, Load
<1>2. OnFile' = OnFile
  BY <1>1 DEF OnFile
<1>3. CASE AskRelation(p)
  <2>1. CalibrationTypeOK' /\ InHand' \subseteq InHand
    BY <1>1, <1>3 DEF AskRelation, CalInv, CalibrationTypeOK, InHand
  <2> QED BY <1>1, <1>2, <2>1, SameMade DEF Made
<1>4. CASE AskFab(p)
  <2>1. FabMatch(arrived) \in MaybeFab
    BY FabFound
  <2>2. CalibrationTypeOK' /\ InHand' \subseteq InHand
    BY <1>1, <1>4, <2>1 DEF AskFab, CalInv, CalibrationTypeOK, InHand
  <2> QED BY <1>1, <1>2, <2>2, SameMade DEF Made
<1>5. CASE Repeat(p)
  <2>1. CalibrationTypeOK' /\ InHand' \subseteq InHand
    BY <1>1, <1>5 DEF Repeat, CalInv, CalibrationTypeOK, InHand, Idle, MaybeFab
  <2> QED BY <1>1, <1>2, <2>1, SameMade DEF Made
<1>6. CASE Load(p)
  <2>1. CalibrationTypeOK' /\ InHand' \subseteq InHand
    BY <1>1, <1>6 DEF Load, CalInv, CalibrationTypeOK, InHand
  <2> QED BY <1>1, <1>2, <2>1, SameMade DEF Made
<1> QED BY <1>3, <1>4, <1>5, <1>6

\* All claims are of one comparison, however many commands run.
LEMMA CalibrationInvariance == LinksSpec => []CalInv
<1>1. CalibrationInit => CalInv
  <2> SUFFICES ASSUME CalibrationInit PROVE CalInv
    OBVIOUS
  <2>1. CalibrationTypeOK
    BY DEF CalibrationInit, CalibrationTypeOK, Idle, MaybeFab
  <2>2. OnFile = {} /\ InHand = {}
    BY DEF CalibrationInit, OnFile, InHand, Idle, ToSet
  <2> QED BY <2>1, <2>2 DEF CalInv, OneComparison, Made
<1>2. CalInv /\ [CalibrationNext]_calibrationVars => CalInv'
  <2> SUFFICES ASSUME CalInv, [CalibrationNext]_calibrationVars PROVE CalInv'
    OBVIOUS
  <2>1. ASSUME NEW o \in FabOutcomes \cup SommOutcomes, Arrive(o) PROVE CalInv'
    <3>1. CalibrationTypeOK' /\ Made' = Made /\ arrived \subseteq arrived'
      BY <2>1 DEF Arrive, CalInv, CalibrationTypeOK, Made, OnFile, InHand
    <3> QED BY <3>1, SameMade
  <2>2. CASE Promote \/ UNCHANGED calibrationVars
    <3>1. UNCHANGED <<arrived, calibrating, results>>
      BY <2>2 DEF Promote, calibrationVars
    <3>2. CalibrationTypeOK' /\ Made' = Made /\ arrived \subseteq arrived'
      BY <3>1 DEF CalInv, CalibrationTypeOK, Made, OnFile, InHand
    <3> QED BY <3>2, SameMade
  <2>3. ASSUME NEW p \in Calibrators, Calibrate(p) PROVE CalInv'
    BY <2>3, AskSommStep, WriteStep, OtherStep DEF Calibrate
  <2> QED BY <2>1, <2>2, <2>3 DEF CalibrationNext
<1> QED BY <1>1, <1>2, LinksAreParts, PTL DEF CalibrationSpec

\* "Missing, duplicated, failed, or tuple-mismatched Fab/Somm evidence is
\* inconclusive" (docs/findings.md): no two commands claim the opposite of one
\* promotion, although each asks the store three times while it is written to.
THEOREM ClaimsStand == LinksSpec => []ClaimsNeverContradict
<1>1. CalInv => ClaimsNeverContradict
  <2> SUFFICES ASSUME CalInv, NEW r \in OnFile, NEW s \in OnFile, Claim(r), Claim(s)
               PROVE  r.id.state = s.id.state
    BY DEF ClaimsNeverContradict, Claim
  <2>1. r \in AllResults /\ s \in AllResults
    BY DEF CalInv, CalibrationTypeOK, OnFile, ToSet
  <2>2. r.somm = s.somm
    BY DEF CalInv, OneComparison, Made
  <2>3. PICK b \in BOOLEAN, f \in MaybeFab, m \in MaybeSomm : r = Result(b, f, m)
    BY <2>1 DEF AllResults
  <2>4. PICK c \in BOOLEAN, g \in MaybeFab, n \in MaybeSomm : s = Result(c, g, n)
    BY <2>1 DEF AllResults
  <2>5. m = n
    BY <2>2, <2>3, <2>4 DEF Result
  <2>6. r.id.state = ProcedureOutcome(m)
    BY <2>3, ClaimCompares
  <2>7. s.id.state = ProcedureOutcome(n)
    BY <2>4, ClaimCompares
  <2> QED BY <2>5, <2>6, <2>7
<1> QED BY <1>1, CalibrationInvariance, PTL

\* "exact replay is a no-op" (docs/findings.md): what has the identity of a result
\* on file is that result.
THEOREM ReplaysAgree == LinksSpec => []ReplaysNeverConflict
<1>1. CalInv => ReplaysNeverConflict
  <2> SUFFICES ASSUME CalInv, NEW r \in OnFile \cup InHand, NEW s \in OnFile, r.id = s.id
               PROVE  r = s
    BY DEF ReplaysNeverConflict
  <2>1. r \in AllResults /\ s \in AllResults
    BY DEF CalInv, CalibrationTypeOK, OnFile, InHand, ToSet
  <2> QED BY <2>1, IdentityTells
<1> QED BY <1>1, CalibrationInvariance, PTL

-----------------------------------------------------------------------------
(* What a reading tells of a finding.                                      *)

\* Relations by which the finding was acted on.
Acting == {a \in Actions : a.predicate \in {"acts_on", "promotes"}}

\* What was read so far was so when it was read, and only a refutation ends an
\* assertion.
ReadSound ==
  reading # Absent =>
    /\ reading.revisions <= revisions
    /\ reading.next <= reading.revisions + 1
    /\ \A f \in reading.found :
         /\ f.action.revision < reading.next
         /\ links[f.action] # "none"
         /\ ~f.active => links[f.action] = "refuted"
    /\ reading.at # Absent =>
         /\ reading.next > reading.revisions
         /\ reading.at.found \in reading.found
         /\ reading.at.contested => contests[reading.at.found.action.receipt] # "none"
         /\ reading.at.stored = TRUE => reading.at.found.action.receipt \in stored
    /\ \A r \in reading.receipts :
         /\ \E f \in reading.found : f.action = r.action /\ f.active = r.active
         /\ r.validity = "valid" => r.action.receipt \in stored

\* A relation on which the finding's having been acted on rests,
Standing(a) ==
  /\ a \in Acting
  /\ links[a] = "asserted"
  /\ a.receipt \in stored
  /\ a.revision <= revisions

\* and which the reading under way finds, too.
Noticed(a) ==
  reading # Absent =>
    /\ a.revision <= reading.revisions
    /\ a.revision < reading.next => \E f \in reading.found : f.action = a
    /\ reading.at # Absent /\ reading.at.found.action = a => reading.at.stored \in {Absent, TRUE}
    /\ \A r \in reading.receipts : r.action = a => r.validity = "valid"

ToldStands ==
  NothingTakenBack /\ told # Absent /\ told.everActedOn =>
    \E a \in Actions : Standing(a) /\ Noticed(a)

\* The inductive invariant.
FAInv ==
  /\ ActivityTypeOK
  /\ ReadSound
  /\ ToldStands

-----------------------------------------------------------------------------
\* What a reading found and judged is of relations of the finding.
LEMMA ActionTypes ==
  ASSUME NEW a \in Actions
  PROVE  /\ a.revision \in Nat
         /\ a.revision <= MaxRevisions
         /\ a.receipt \in Receipts
         /\ a.predicate \in Predicates
<1>1. a \in [revision : 1..MaxRevisions, predicate : Predicates, receipt : Receipts]
  BY ActivityAssumption
<1> QED BY <1>1, ActivityAssumption

LEMMA JudgedTypes ==
  ASSUME NEW f \in Found, NEW contested \in BOOLEAN, NEW there \in BOOLEAN,
         NEW fresh \in {"current", "unknown"}
  PROVE  /\ Judge(f, contested, there, fresh) \in Judged
         /\ Judge(f, contested, there, fresh).action = f.action
         /\ Judge(f, contested, there, fresh).active = f.active
         /\ Judge(f, contested, there, fresh).validity = "valid" <=> ~contested /\ there
BY DEF Judge, Judgement, Judged, Found, Validities, Freshnesses

LEMMA StoredTypes ==
  ASSUME NEW at \in [found : Found, contested : BOOLEAN, stored : {Absent} \cup BOOLEAN],
         NEW there \in BOOLEAN
  PROVE  /\ [at EXCEPT !.stored = there]
              \in [found : Found, contested : BOOLEAN, stored : {Absent} \cup BOOLEAN]
         /\ [at EXCEPT !.stored = there].found = at.found
         /\ [at EXCEPT !.stored = there].contested = at.contested
         /\ [at EXCEPT !.stored = there].stored = there
OBVIOUS

\* Commands and scans: what was read stays true of what is asserted.
LEMMA WorldStep ==
  ASSUME FAInv,
         \/ ReviseFinding
         \/ \E a \in Actions : LinkAction(a)
         \/ \E r \in Receipts : Contest(r) \/ StoreReceipt(r)
         \/ RecordRun
  PROVE  FAInv'
<1>1. /\ reading' = reading /\ told' = told
      /\ revisions <= revisions' /\ revisions' \in 1..MaxRevisions
      /\ links' \in [Actions -> States] /\ contests' \in [Receipts -> States]
      /\ stored \subseteq stored' /\ stored' \subseteq Receipts
      /\ \A a \in Actions : /\ links'[a] = "none" => links[a] = "none"
                            /\ links[a] = "refuted" => links'[a] = "refuted"
                            /\ links[a] # "none" /\ links'[a] # "refuted" => links'[a] = links[a]
      /\ \A r \in Receipts : contests'[r] = "none" => contests[r] = "none"
  BY ActivityAssumption DEF FAInv, ActivityTypeOK, ReviseFinding, LinkAction, Contest,
         StoreReceipt, RecordRun, Onward, States
<1>2. ActivityTypeOK'
  <2>1. coverage' \in {"none", "ok", "error"}
    BY DEF FAInv, ActivityTypeOK, ReviseFinding, LinkAction, Contest, StoreReceipt, RecordRun
  <2> QED BY <1>1, <2>1 DEF FAInv, ActivityTypeOK
<1>3. ReadSound'
  <2> SUFFICES ASSUME reading # Absent
               PROVE  ReadSound'
    BY <1>1 DEF ReadSound
  <2>1. reading \in Readings
    BY DEF FAInv, ActivityTypeOK
  <2>2. \A f \in reading.found : f.action \in Actions /\ f.active \in BOOLEAN
    BY <2>1 DEF Readings, Found
  <2>3. reading.at # Absent => reading.at.found.action.receipt \in Receipts
    <3> SUFFICES ASSUME reading.at # Absent PROVE reading.at.found.action.receipt \in Receipts
      OBVIOUS
    <3>1. reading.at.found.action \in Actions
      BY <2>1 DEF Readings, Found
    <3> QED BY <3>1, ActionTypes
  <2>4. reading.revisions \in Nat /\ revisions \in Nat /\ revisions' \in Nat
    BY <1>1, <2>1 DEF Readings, FAInv, ActivityTypeOK
  <2> QED BY <1>1, <2>2, <2>3, <2>4 DEF FAInv, ReadSound
<1>4. ToldStands'
  <2> SUFFICES ASSUME NothingTakenBack', told # Absent, told.everActedOn
               PROVE  \E a \in Actions : Standing(a)' /\ Noticed(a)'
    BY <1>1 DEF ToldStands
  <2>1. NothingTakenBack
    BY <1>1 DEF NothingTakenBack
  <2>2. PICK a \in Actions : Standing(a) /\ Noticed(a)
    BY <2>1 DEF FAInv, ToldStands
  <2>3. links'[a] = "asserted"
    BY <1>1, <2>2 DEF Standing, Acting, NothingTakenBack
  <2>4. a.revision \in Nat /\ revisions \in Nat /\ revisions' \in Nat
    BY <1>1, ActionTypes DEF FAInv, ActivityTypeOK
  <2>8. Standing(a)'
    BY <1>1, <2>2, <2>3, <2>4 DEF Standing, Acting
  <2>9. Noticed(a)'
    BY <1>1, <2>2, <2>3, <2>4 DEF Standing, Noticed
  <2> QED BY <2>8, <2>9
<1> QED BY <1>2, <1>3, <1>4 DEF FAInv

\* A reading that begins begins after what was told.
LEMMA ReadLedgerStep ==
  ASSUME FAInv, ReadLedger
  PROVE  FAInv'
<1>1. /\ reading' = [revisions |-> revisions, next |-> 1, found |-> {}, at |-> Absent, receipts |-> {}]
      /\ UNCHANGED <<revisions, links, contests, stored, coverage, told>>
  BY DEF ReadLedger, world
<1>2. ActivityTypeOK'
  BY <1>1, ActivityAssumption DEF FAInv, ActivityTypeOK, Readings
<1>3. ReadSound'
  BY <1>1 DEF FAInv, ActivityTypeOK, ReadSound
<1>4. ToldStands'
  <2> SUFFICES ASSUME NothingTakenBack, told # Absent, told.everActedOn
               PROVE  \E a \in Actions : Standing(a)' /\ Noticed(a)'
    BY <1>1 DEF ToldStands, NothingTakenBack
  <2>1. PICK a \in Actions : Standing(a)
    BY DEF FAInv, ToldStands
  <2>2. a.revision >= 1
    <3>1. a \in [revision : 1..MaxRevisions, predicate : Predicates, receipt : Receipts]
      BY ActivityAssumption
    <3> QED BY <3>1
  <2>3. a.revision \in Nat
    BY ActionTypes
  <2> QED BY <1>1, <2>1, <2>2, <2>3 DEF Standing, Noticed, Acting
<1> QED BY <1>2, <1>3, <1>4 DEF FAInv

\* The relations of one more revision.
LEMMA ReadRelationsStep ==
  ASSUME FAInv, ReadRelations
  PROVE  FAInv'
<1> DEFINE n == reading.next
           new == {f \in Found : /\ f.action.revision = n
                                 /\ links[f.action] # "none"
                                 /\ f.active <=> links[f.action] = "asserted"}
<1>1. /\ reading # Absent /\ reading \in Readings /\ n <= reading.revisions
      /\ reading' = [reading EXCEPT !.next = n + 1, !.found = @ \cup new]
      /\ UNCHANGED <<revisions, links, contests, stored, coverage, told>>
  BY DEF ReadRelations, world, FAInv, ActivityTypeOK
<1>2. /\ reading'.revisions = reading.revisions /\ reading'.next = n + 1
      /\ reading'.found = reading.found \cup new
      /\ reading'.at = reading.at /\ reading'.receipts = reading.receipts
  BY <1>1 DEF Readings
<1>3. n \in Nat /\ reading.revisions \in 1..MaxRevisions /\ MaxRevisions \in Nat
  BY <1>1, ActivityAssumption DEF Readings
<1>4. new \subseteq Found
  OBVIOUS
<1>5. ActivityTypeOK'
  <2>1. n + 1 \in 1..(MaxRevisions + 1)
    BY <1>1, <1>3
  <2>2. reading' \in Readings
    BY <1>1, <1>4, <2>1 DEF Readings
  <2> QED BY <1>1, <2>2 DEF FAInv, ActivityTypeOK
<1>6. \A f \in new : /\ f.action \in Actions /\ f.action.revision = n
                     /\ links[f.action] # "none"
                     /\ ~f.active => links[f.action] = "refuted"
  <2> SUFFICES ASSUME NEW f \in new
               PROVE  /\ f.action \in Actions
                      /\ ~f.active => links[f.action] = "refuted"
    OBVIOUS
  <2>1. f.action \in Actions /\ f.active \in BOOLEAN
    BY DEF Found
  <2>2. links[f.action] \in States
    BY <2>1 DEF FAInv, ActivityTypeOK
  <2> QED BY <2>1, <2>2 DEF States
<1>7. ReadSound'
  <2>1. \A f \in reading'.found :
          /\ f.action.revision < n + 1
          /\ links[f.action] # "none"
          /\ ~f.active => links[f.action] = "refuted"
    <3>1. \A f \in reading.found : f.action.revision \in Nat
      BY <1>1, ActionTypes DEF Readings, Found
    <3> QED BY <1>1, <1>2, <1>3, <1>6, <3>1 DEF FAInv, ReadSound
  <2>2. reading.at = Absent
    BY <1>1, <1>3 DEF FAInv, ReadSound
  <2> QED BY <1>1, <1>2, <1>3, <2>1, <2>2 DEF FAInv, ReadSound
<1>8. ToldStands'
  <2> SUFFICES ASSUME NothingTakenBack, told # Absent, told.everActedOn
               PROVE  \E a \in Actions : Standing(a)' /\ Noticed(a)'
    BY <1>1 DEF ToldStands, NothingTakenBack
  <2>1. PICK a \in Actions : Standing(a) /\ Noticed(a)
    BY DEF FAInv, ToldStands
  <2>2. a.revision = n => \E f \in new : f.action = a
    <3>1. [action |-> a, active |-> TRUE] \in Found
      BY DEF Found
    <3> QED BY <2>1, <3>1 DEF Standing
  <2>3. a.revision \in Nat
    BY ActionTypes
  <2>4. a.revision < n + 1 => \E f \in reading.found \cup new : f.action = a
    BY <1>1, <1>3, <2>1, <2>2, <2>3 DEF Noticed
  <2> HIDE DEF new, n
  <2>8. Standing(a)'
    BY <1>1, <1>2, <1>3, <2>1, <2>2, <2>3 DEF Standing, Acting
  <2>9. Noticed(a)'
    BY <1>1, <1>2, <2>1, <2>4 DEF Standing, Noticed
  <2> QED BY <2>8, <2>9
<1> QED BY <1>5, <1>7, <1>8 DEF FAInv

\* Whether the receipt of a relation is contested, and whether it is there.
LEMMA ReadContestsStep ==
  ASSUME FAInv, ReadContests
  PROVE  FAInv'
<1>1. reading # Absent /\ reading \in Readings /\ reading.next > reading.revisions
  BY DEF ReadContests, FAInv, ActivityTypeOK
<1>2. PICK f \in Unjudged :
        /\ reading' = [reading EXCEPT !.at =
             [found |-> f, contested |-> contests[f.action.receipt] = "asserted", stored |-> Absent]]
        /\ UNCHANGED <<revisions, links, contests, stored, coverage, told>>
  BY DEF ReadContests, world
<1>3. f \in reading.found /\ f \in Found /\ \A r \in reading.receipts : r.action # f.action
  BY <1>1 DEF Unjudged, Readings
<1> DEFINE at == [found |-> f, contested |-> contests[f.action.receipt] = "asserted", stored |-> Absent]
<1>4. /\ reading'.revisions = reading.revisions /\ reading'.next = reading.next
      /\ reading'.found = reading.found /\ reading'.receipts = reading.receipts
      /\ reading'.at = at
  BY <1>1, <1>2 DEF Readings
<1>5. at \in [found : Found, contested : BOOLEAN, stored : {Absent} \cup BOOLEAN]
  BY <1>3
<1>6. reading' \in Readings /\ reading' # Absent
  BY <1>1, <1>2, <1>5, ActivityAssumption DEF Readings
<1>7. ActivityTypeOK'
  BY <1>2, <1>6 DEF FAInv, ActivityTypeOK
<1>8. ReadSound'
  <2>1. at.stored # TRUE
    BY ActivityAssumption
  <2>2. at.contested => contests[f.action.receipt] # "none"
    OBVIOUS
  <2> HIDE DEF at
  <2>3. at.found = f
    BY DEF at
  <2> QED BY <1>1, <1>2, <1>3, <1>4, <1>6, <2>1, <2>2, <2>3 DEF FAInv, ReadSound
<1>9. ToldStands'
  <2> SUFFICES ASSUME NothingTakenBack, told # Absent, told.everActedOn
               PROVE  \E a \in Actions : Standing(a)' /\ Noticed(a)'
    BY <1>2 DEF ToldStands, NothingTakenBack
  <2>1. PICK a \in Actions : Standing(a) /\ Noticed(a)
    BY DEF FAInv, ToldStands
  <2>2. at.stored = Absent
    OBVIOUS
  <2> HIDE DEF at
  <2> QED BY <1>1, <1>2, <1>4, <1>6, <2>1, <2>2 DEF Standing, Noticed, Acting
<1> QED BY <1>7, <1>8, <1>9 DEF FAInv

LEMMA ReadEventStep ==
  ASSUME FAInv, ReadEvent
  PROVE  FAInv'
<1> DEFINE receipt == reading.at.found.action.receipt
<1>1. /\ reading # Absent /\ reading \in Readings /\ reading.at # Absent
      /\ reading' = [reading EXCEPT !.at.stored = receipt \in stored]
      /\ UNCHANGED <<revisions, links, contests, stored, coverage, told>>
  BY DEF ReadEvent, world, FAInv, ActivityTypeOK
<1>0. PICK there \in BOOLEAN : there = (receipt \in stored)
  <2>1. (receipt \in stored) \in BOOLEAN
    OBVIOUS
  <2> QED BY <2>1, Zenon
<1>2. reading.at \in [found : Found, contested : BOOLEAN, stored : {Absent} \cup BOOLEAN]
  BY <1>1 DEF Readings
<1> DEFINE at == [reading.at EXCEPT !.stored = there]
<1> HIDE DEF receipt
<1>3. /\ at \in [found : Found, contested : BOOLEAN, stored : {Absent} \cup BOOLEAN]
      /\ at.found = reading.at.found /\ at.contested = reading.at.contested
      /\ at.stored = there
  BY <1>2, StoredTypes
<1>4. reading' = [reading EXCEPT !.at = at]
  BY <1>0, <1>1
<1> HIDE DEF at
<1>5. /\ reading'.revisions = reading.revisions /\ reading'.next = reading.next
      /\ reading'.found = reading.found /\ reading'.receipts = reading.receipts
      /\ reading'.at = at
  BY <1>1, <1>4 DEF Readings
<1>6. reading' \in Readings /\ reading' # Absent /\ at # Absent
  BY <1>1, <1>3, <1>4, ActivityAssumption DEF Readings
<1>7. ActivityTypeOK'
  BY <1>1, <1>6 DEF FAInv, ActivityTypeOK
<1>8. ReadSound'
  BY <1>0, <1>1, <1>3, <1>5, <1>6 DEF FAInv, ReadSound, receipt
<1>9. ToldStands'
  <2> SUFFICES ASSUME NothingTakenBack, told # Absent, told.everActedOn
               PROVE  \E a \in Actions : Standing(a)' /\ Noticed(a)'
    BY <1>1 DEF ToldStands, NothingTakenBack
  <2>1. PICK a \in Actions : Standing(a) /\ Noticed(a)
    BY DEF FAInv, ToldStands
  <2>2. at.found.action = a => at.stored = TRUE
    BY <1>0, <1>3, <2>1 DEF receipt, Standing
  <2> QED BY <1>1, <1>5, <1>6, <2>1, <2>2 DEF Standing, Noticed, Acting
<1> QED BY <1>7, <1>8, <1>9 DEF FAInv

\* The receipt is judged.
LEMMA ReadCoverageStep ==
  ASSUME FAInv, ReadCoverage
  PROVE  FAInv'
<1> DEFINE at == reading.at
           new == Judge(at.found, at.contested, at.stored, AdapterFreshness(coverage))
<1>1. /\ reading # Absent /\ reading \in Readings /\ at # Absent /\ at.stored # Absent
      /\ reading' = [reading EXCEPT !.at = Absent, !.receipts = @ \cup {new}]
      /\ UNCHANGED <<revisions, links, contests, stored, coverage, told>>
  BY DEF ReadCoverage, world, FAInv, ActivityTypeOK
<1>2. at.found \in Found /\ at.contested \in BOOLEAN /\ at.stored \in BOOLEAN
  BY <1>1 DEF Readings
<1>3. /\ new \in Judged
      /\ new.action = at.found.action /\ new.active = at.found.active
      /\ new.validity = "valid" <=> ~at.contested /\ at.stored
  BY <1>2, JudgedTypes DEF AdapterFreshness
<1> HIDE DEF new
<1>4. /\ reading'.revisions = reading.revisions /\ reading'.next = reading.next
      /\ reading'.found = reading.found /\ reading'.receipts = reading.receipts \cup {new}
      /\ reading'.at = Absent
  BY <1>1 DEF Readings
<1>5. reading' \in Readings
  BY <1>1, <1>3 DEF Readings
<1>6. ActivityTypeOK'
  BY <1>1, <1>5 DEF FAInv, ActivityTypeOK
<1>7. ReadSound'
  <2>1. at.found \in reading.found /\ (at.stored => at.found.action.receipt \in stored)
    BY <1>1, <1>2 DEF FAInv, ReadSound
  <2> QED BY <1>1, <1>3, <1>4, <2>1 DEF FAInv, ReadSound
<1>8. ToldStands'
  <2> SUFFICES ASSUME NothingTakenBack, told # Absent, told.everActedOn
               PROVE  \E a \in Actions : Standing(a)' /\ Noticed(a)'
    BY <1>1 DEF ToldStands, NothingTakenBack
  <2>1. PICK a \in Actions : Standing(a) /\ Noticed(a)
    BY DEF FAInv, ToldStands
  <2>2. at.contested = FALSE
    <3>1. at.found.action.receipt \in Receipts
      BY <1>2, ActionTypes DEF Found
    <3> QED BY <1>1, <1>2, <3>1 DEF FAInv, ReadSound, NothingTakenBack
  <2>3. new.action = a => new.validity = "valid"
    BY <1>1, <1>2, <1>3, <2>1, <2>2 DEF Noticed
  <2> QED BY <1>1, <1>4, <2>1, <2>3 DEF Standing, Noticed, Acting
<1> QED BY <1>6, <1>7, <1>8 DEF FAInv

\* What is told has a relation that stands,
LEMMA TellStep ==
  ASSUME FAInv, Tell
  PROVE  FAInv'
<1>1. /\ reading # Absent /\ reading \in Readings
      /\ reading' = Absent
      /\ told' = Projection(reading.revisions, reading.receipts)
      /\ UNCHANGED <<revisions, links, contests, stored, coverage>>
  BY DEF Tell, world, FAInv, ActivityTypeOK
<1>2. told' \in Projections
  BY <1>1 DEF Projection, Projections, Disposition, Dispositions, ProjectionFreshness, Freshnesses
<1>3. ToldStands'
  <2> SUFFICES ASSUME NothingTakenBack, told'.everActedOn
               PROVE  \E a \in Actions : Standing(a)' /\ Noticed(a)'
    BY <1>1 DEF ToldStands, NothingTakenBack
  <2>1. PICK r \in reading.receipts : /\ r.active /\ r.validity = "valid"
                                      /\ r.action.predicate \in {"acts_on", "promotes"}
    BY <1>1 DEF Projection
  <2>2. PICK f \in reading.found : f.action = r.action
    BY <1>1 DEF FAInv, ReadSound
  <2>3. r.action \in Actions
    BY <1>1 DEF Readings, Judged
  <2>4. r.action \in Acting
    BY <2>1, <2>3 DEF Acting
  <2>5. links[r.action] = "asserted"
    <3>1. links[r.action] \in States
      BY <2>3 DEF FAInv, ActivityTypeOK
    <3>2. links[r.action] # "none" /\ links[r.action] # "refuted"
      BY <1>1, <2>1, <2>2, <2>3 DEF FAInv, ReadSound, NothingTakenBack
    <3> QED BY <3>1, <3>2 DEF States
  <2>6. r.action.revision <= revisions
    <3>1. r.action.revision < reading.next /\ reading.next <= reading.revisions + 1
          /\ reading.revisions <= revisions
      BY <1>1, <2>2 DEF FAInv, ReadSound
    <3>2. r.action.revision \in Nat /\ reading.next \in Nat /\ reading.revisions \in Nat /\ revisions \in Nat
      BY <1>1, <2>3, ActionTypes DEF Readings, FAInv, ActivityTypeOK
    <3> QED BY <3>1, <3>2
  <2>7. r.action.receipt \in stored
    BY <1>1, <2>1 DEF FAInv, ReadSound
  <2> QED BY <1>1, <2>3, <2>4, <2>5, <2>6, <2>7 DEF Standing, Noticed, Acting
<1> QED BY <1>1, <1>2, <1>3 DEF FAInv, ActivityTypeOK, ReadSound

\* and a relation that stands is told again.
LEMMA ToldAgain ==
  ASSUME FAInv, Tell, NothingTakenBack, told # Absent, told.everActedOn
  PROVE  told'.everActedOn
<1>1. /\ reading # Absent /\ reading \in Readings
      /\ reading.next > reading.revisions /\ Unjudged = {}
      /\ told' = Projection(reading.revisions, reading.receipts)
  BY DEF Tell, FAInv, ActivityTypeOK
<1>2. PICK a \in Actions : Standing(a) /\ Noticed(a)
  BY DEF FAInv, ToldStands
<1>3. PICK f \in reading.found : f.action = a
  <2>1. a.revision \in Nat /\ reading.next \in Nat /\ reading.revisions \in Nat
    BY <1>1, ActionTypes DEF Readings
  <2> QED BY <1>1, <1>2, <2>1 DEF Noticed
<1>4. PICK r \in reading.receipts : r.action = a
  BY <1>1, <1>3 DEF Unjudged
<1>5. r.validity = "valid" /\ r.action.predicate \in {"acts_on", "promotes"}
  BY <1>1, <1>2, <1>4 DEF Noticed, Standing, Acting
<1>6. r.active
  <2>1. PICK g \in reading.found : g.action = a /\ g.active = r.active
    BY <1>1, <1>4 DEF FAInv, ReadSound
  <2>2. g.active \in BOOLEAN
    BY <1>1 DEF Readings, Found
  <2>3. ~g.active => links[a] = "refuted"
    BY <1>1, <2>1 DEF FAInv, ReadSound
  <2>4. g.active
    BY <1>2, <2>2, <2>3 DEF Standing
  <2> QED BY <2>1, <2>4
<1> QED BY <1>1, <1>5, <1>6 DEF Projection

-----------------------------------------------------------------------------
LEMMA ActivityStep ==
  ASSUME FAInv, [ActivityNext]_activityVars
  PROVE  FAInv'
<1>1. CASE UNCHANGED activityVars
  BY <1>1 DEF activityVars, world, FAInv, ActivityTypeOK, ReadSound, ToldStands,
              NothingTakenBack, Standing, Noticed, Acting
<1>2. CASE Read
  BY <1>2, ReadLedgerStep, ReadRelationsStep, ReadContestsStep, ReadEventStep,
     ReadCoverageStep, TellStep DEF Read
<1> QED BY <1>1, <1>2, WorldStep DEF ActivityNext

\* Readings are of what was there, and what was told stands.
THEOREM ActivityInvariance ==
  ActivitySpec => []FAInv
<1>1. ActivityInit => FAInv
  BY ActivityAssumption DEF ActivityInit, FAInv, ActivityTypeOK, States, ReadSound, ToldStands
<1>2. FAInv /\ [ActivityNext]_activityVars => FAInv'
  BY ActivityStep
<1> QED BY <1>1, <1>2, PTL DEF ActivitySpec

\* "historical ever_acted_on remains true after a valid receipt unless that
\* receipt or relation is explicitly refuted" (docs/boundaries.md): however the
\* queries of a reading interleave with commands and scans.
THEOREM ActedOnStays ==
  ActivitySpec => EverActedOnStays
<1> DEFINE Kept == told # Absent /\ told' # told /\ told.everActedOn =>
                     told'.everActedOn \/ ~NothingTakenBack
<1>1. FAInv /\ [ActivityNext]_activityVars => [Kept]_activityVars
  <2> SUFFICES ASSUME FAInv, ActivityNext, told # Absent, told' # told, told.everActedOn,
                      NothingTakenBack
               PROVE  told'.everActedOn
    BY DEF activityVars
  <2>1. Tell
    BY DEF ActivityNext, Read, ReviseFinding, LinkAction, Contest, StoreReceipt, RecordRun,
           ReadLedger, ReadRelations, ReadContests, ReadEvent, ReadCoverage
  <2> QED BY <2>1, ToldAgain
<1> QED BY <1>1, ActivityInvariance, PTL DEF ActivitySpec, EverActedOnStays
=============================================================================
