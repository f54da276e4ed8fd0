--------------------------- MODULE RelationStore ---------------------------
(***************************************************************************)
(* Directed relations in the SQLite index: MiltonStore.append_relation of  *)
(* src/milton/store.py over RelationRecord of src/milton/relations.py.     *)
(*                                                                         *)
(* append_relation decides with up to three SELECTs whether a record may   *)
(* be inserted, then INSERTs it.  `with self._connection` opens no         *)
(* transaction in Python's sqlite3: one starts at the INSERT.  So each     *)
(* SELECT reads what is committed at that moment, and another process may  *)
(* commit between any two statements; that is why every statement is an    *)
(* action here.                                                            *)
(*                                                                         *)
(* All the rows are of one relation_id: every statement but the lookup by  *)
(* record_id filters on it, and a record_id includes it.                   *)
(***************************************************************************)
EXTENDS Integers, Sequences, FiniteSets

CONSTANTS
  Procs,     \* milton processes: ingests and `findings relate/unrelate`
  Evidence,  \* evidence event ids
  Times,     \* recorded_at values
  MaxRows,   \* bound: no command starts once there are this many rows
  None       \* Python's None

\* record_id hashes the whole content, so a record is its own identity.
Assertions ==
  [state : {"asserted"}, evidence : SUBSET Evidence, at : Times, supersedes : {None}]
Refutations ==
  [state : {"refuted"}, evidence : {{}}, at : Times, supersedes : Assertions]
Records == Assertions \cup Refutations

ASSUME ConstantsAssumption ==
  /\ Times \subseteq Nat
  /\ MaxRows \in Nat
  /\ None \notin Records

VARIABLES
  rows,   \* relation_records in sequence order
  pc,     \* the statement each process executes next
  record  \* the record each process is appending, or None

vars == <<rows, pc, record>>

Stored == {rows[i] : i \in 1..Len(rows)}
Asserted == {r \in Stored : r.state = "asserted"}

\* RelationRecord.refute of the assertion a.
RefutationOf(a, t) ==
  [state |-> "refuted", evidence |-> {}, at |-> t, supersedes |-> a]

-----------------------------------------------------------------------------
Init ==
  /\ rows = <<>>
  /\ pc = [p \in Procs |-> "idle"]
  /\ record = [p \in Procs |-> None]

Goto(p, label) == pc' = [pc EXCEPT ![p] = label]

\* The command ends: it inserted, it saw a replay, or a check raised.
Finish(p) ==
  /\ Goto(p, "idle")
  /\ record' = [record EXCEPT ![p] = None]

Begin(p, r) ==
  /\ pc[p] = "idle"
  /\ Len(rows) < MaxRows
  /\ Goto(p, "lookup")
  /\ record' = [record EXCEPT ![p] = r]
  /\ UNCHANGED rows

\* An adapter, or `findings relate`, asserts the relation.
Relate(p) == \E a \in Assertions : Begin(p, a)

\* `findings unrelate`: refutes the last row of relation_history, which must be
\* an assertion.
Unrelate(p) ==
  /\ rows # <<>>
  /\ rows[Len(rows)].state = "asserted"
  /\ \E t \in Times : Begin(p, RefutationOf(rows[Len(rows)], t))

\* SELECT ... WHERE record_id: a stored record is a replay.
Lookup(p) ==
  /\ pc[p] = "lookup"
  /\ \/ /\ record[p] \in Stored
        /\ Finish(p)
     \/ /\ record[p] \notin Stored
        /\ Goto(p, "current")
        /\ UNCHANGED record
  /\ UNCHANGED rows

\* Mutant: a refuted relation may be asserted again.
CurrentAllowsRevival(r) ==
  IF rows = <<>>
  THEN r.state = "asserted"
  ELSE r.state = "refuted" => r.supersedes = rows[Len(rows)]

\* What the last row lets through: a first row must be an assertion, a refuted
\* relation takes no more, and a refutation supersedes the last row.
CurrentAllows(r) ==
  IF rows = <<>>
  THEN r.state = "asserted"
  ELSE LET current == rows[Len(rows)]
       IN  /\ current.state # "refuted"
           /\ r.state = "refuted" => r.supersedes = current

\* SELECT ... ORDER BY sequence DESC LIMIT 1.
ReadCurrent(p) ==
  /\ pc[p] = "current"
  /\ \/ /\ ~CurrentAllows(record[p])
        /\ Finish(p)
     \/ /\ CurrentAllows(record[p])
        /\ Goto(p, IF rows = <<>> THEN "insert" ELSE "history")
        /\ UNCHANGED record
  /\ UNCHANGED rows

\* Mutants: a refutation at the time of an assertion; evidence already there.
HistoryAllowsSameTime(r) ==
  IF r.state = "asserted"
  THEN ~(r.evidence \subseteq UNION {a.evidence : a \in Asserted})
  ELSE \A a \in Asserted : r.at >= a.at

HistoryAllowsRepeats(r) ==
  r.state = "asserted" \/ \A a \in Asserted : r.at > a.at

\* An assertion must bring evidence no earlier one has; a refutation must be
\* later than every assertion.
HistoryAllows(r) ==
  IF r.state = "asserted"
  THEN ~(r.evidence \subseteq UNION {a.evidence : a \in Asserted})
  ELSE \A a \in Asserted : r.at > a.at

\* SELECT of the assertions (evidence) or relation_history (times).
ReadHistory(p) ==
  /\ pc[p] = "history"
  /\ \/ /\ ~HistoryAllows(record[p])
        /\ Finish(p)
     \/ /\ HistoryAllows(record[p])
        /\ Goto(p, "insert")
        /\ UNCHANGED record
  /\ UNCHANGED rows

\* INSERT and commit; UNIQUE(record_id) raises IntegrityError.
Insert(p) ==
  /\ pc[p] = "insert"
  /\ rows' = IF record[p] \in Stored THEN rows ELSE Append(rows, record[p])
  /\ Finish(p)

Step(p) == Lookup(p) \/ ReadCurrent(p) \/ ReadHistory(p) \/ Insert(p)

Next == \E p \in Procs : Relate(p) \/ Unrelate(p) \/ Step(p)

Spec == Init /\ [][Next]_vars

-----------------------------------------------------------------------------
(* Properties *)

TypeOK ==
  /\ rows \in Seq(Records)
  /\ pc \in [Procs -> {"idle", "lookup", "current", "history", "insert"}]
  /\ record \in [Procs -> Records \cup {None}]

\* current_relations: the last row, if it is an assertion.
Live == rows # <<>> /\ rows[Len(rows)].state = "asserted"

\* "a refuted relation has a closed history" (append_relation): nothing follows
\* a refutation, so the relation never comes back to current_relations.
ClosedHistory ==
  \A i \in 1..Len(rows) : rows[i].state = "refuted" => i = Len(rows)

\* A refutation answers the assertions before it: it supersedes the row just
\* before it and is later than all of them.
RefutationAnswers ==
  \A i \in 1..Len(rows) : rows[i].state = "refuted" =>
    /\ i > 1 /\ rows[i].supersedes = rows[i-1]
    /\ \A j \in 1..(i-1) : rows[j].state = "asserted" => rows[j].at < rows[i].at

\* "a corroborating relation assertion requires new evidence": no assertion
\* repeats what the earlier ones already rest on.
FreshEvidence ==
  \A i \in 2..Len(rows) : rows[i].state = "asserted" =>
    ~(rows[i].evidence \subseteq UNION {rows[j].evidence : j \in 1..(i-1)})
=============================================================================
