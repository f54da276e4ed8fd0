--------------------------- MODULE CrosswalkStore ---------------------------
(***************************************************************************)
(* Identity joins in the SQLite index: MiltonStore.append_crosswalk of     *)
(* src/milton/store.py over CrosswalkRecord of src/milton/crosswalk.py.    *)
(*                                                                         *)
(* As in RelationStore, two SELECTs and an INSERT decide, and each sees    *)
(* what is committed when it runs.  All the rows are of one link_id.       *)
(***************************************************************************)
EXTENDS Integers, Sequences

CONSTANTS
  Procs,    \* milton processes, and library callers
  Bodies,   \* what a record says: confidence, method, evidence, note
  Times,    \* recorded_at values
  MaxRows,  \* bound: no append starts once there are this many rows
  None      \* Python's None

\* record_id hashes link, state and time: the body is not in it.
RecordIds == {"asserted", "refuted"} \X Times
Records ==
  [state : {"asserted", "refuted"}, at : Times, body : Bodies,
   supersedes : RecordIds \cup {None}]
RecordId(r) == <<r.state, r.at>>

VARIABLES
  rows,   \* crosswalk_records in sequence order
  pc,     \* the statement each process executes next
  record  \* the record each process is appending, or None

vars == <<rows, pc, record>>

WithId(id) == {i \in 1..Len(rows) : RecordId(rows[i]) = id}

\* What a new record must supersede: the last row, or nothing.
Current == IF rows = <<>> THEN None ELSE RecordId(rows[Len(rows)])

-----------------------------------------------------------------------------
Init ==
  /\ rows = <<>>
  /\ pc = [p \in Procs |-> "idle"]
  /\ record = [p \in Procs |-> None]

Goto(p, label) == pc' = [pc EXCEPT ![p] = label]

\* append_crosswalk returns or raises.
Finish(p) ==
  /\ Goto(p, "idle")
  /\ record' = [record EXCEPT ![p] = None]

Begin(p, r) ==
  /\ pc[p] = "idle"
  /\ Len(rows) < MaxRows
  /\ Goto(p, "lookup")
  /\ record' = [record EXCEPT ![p] = r]
  /\ UNCHANGED rows

\* CrosswalkRecord.create, by an adapter: it never supersedes anything.
Assert(p) ==
  \E t \in Times, b \in Bodies :
    Begin(p, [state |-> "asserted", at |-> t, body |-> b, supersedes |-> None])

\* CrosswalkRecord.refute on the last record of crosswalk_history, whatever its
\* state.
Refute(p) ==
  /\ rows # <<>>
  /\ \E t \in Times, b \in Bodies :
       Begin(p, [state |-> "refuted", at |-> t, body |-> b, supersedes |-> Current])

\* SELECT ... WHERE record_id: the same document is a replay, another one raises
\* RecordConflictError.
Lookup(p) ==
  /\ pc[p] = "lookup"
  /\ \/ /\ WithId(RecordId(record[p])) # {}
        /\ Finish(p)
     \/ /\ WithId(RecordId(record[p])) = {}
        /\ Goto(p, "current")
        /\ UNCHANGED record
  /\ UNCHANGED rows

\* Mutant: only a first record's supersedes is checked.
ReadFirst(p) ==
  /\ pc[p] = "current"
  /\ \/ /\ rows = <<>> /\ record[p].supersedes # None
        /\ Finish(p)
     \/ /\ rows # <<>> \/ record[p].supersedes = None
        /\ Goto(p, "insert")
        /\ UNCHANGED record
  /\ UNCHANGED rows

\* SELECT ... ORDER BY sequence DESC LIMIT 1.
ReadCurrent(p) ==
  /\ pc[p] = "current"
  /\ \/ /\ record[p].supersedes # Current
        /\ Finish(p)
     \/ /\ record[p].supersedes = Current
        /\ Goto(p, "insert")
        /\ UNCHANGED record
  /\ UNCHANGED rows

\* INSERT and commit; UNIQUE(record_id) raises IntegrityError.
Insert(p) ==
  /\ pc[p] = "insert"
  /\ rows' = IF WithId(RecordId(record[p])) = {} THEN Append(rows, record[p]) ELSE rows
  /\ Finish(p)

Step(p) == Lookup(p) \/ ReadCurrent(p) \/ Insert(p)

Next == \E p \in Procs : Assert(p) \/ Refute(p) \/ Step(p)

Spec == Init /\ [][Next]_vars

-----------------------------------------------------------------------------
(* Properties *)

TypeOK ==
  /\ rows \in Seq(Records)
  /\ pc \in [Procs -> {"idle", "lookup", "current", "insert"}]
  /\ record \in [Procs -> Records \cup {None}]

\* "enforcing a linear and inspectable history" (append_crosswalk): each record
\* supersedes the one before it, and nothing follows a record that was refuted
\* but further refutations, so a refuted join never becomes current again.
LinearJoins ==
  \A i \in 1..Len(rows) :
    /\ rows[i].supersedes = IF i = 1 THEN None ELSE RecordId(rows[i-1])
    /\ rows[i].state = IF i = 1 THEN "asserted" ELSE "refuted"
=============================================================================
