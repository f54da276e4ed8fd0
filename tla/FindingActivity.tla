-------------------------- MODULE FindingActivity --------------------------
(***************************************************************************)
(* What was done about a finding: build_finding_activity of                *)
(* src/milton/findings.py.  It reads the ledger, then the action relations *)
(* of each revision, and then for each of these relations who contests the *)
(* receipt, the receipt's event and how its adapter was covered: every one *)
(* a query of its own on a database and a file that commands and scans     *)
(* write to meanwhile.  RelationStore models how a relation is appended    *)
(* and FindingLedger how a revision is; here each is one step.             *)
(***************************************************************************)
EXTENDS Naturals, FiniteSets

CONSTANTS
  Actions,       \* relations of the finding's revisions to receipts
  Receipts,      \* what they name as receipts, all of one adapter
  MaxRevisions,  \* bound: revisions of the finding
  Absent         \* Python's None

Predicates == {"acts_on", "refutes", "evaluates", "promotes"}
States == {"none", "asserted", "refuted"}   \* the last record of a relation
Validities == {"valid", "invalid", "unknown"}
Freshnesses == {"current", "unknown", "invalid", "not_applicable"}
Dispositions ==
  {"none", "conflicted", "promoted", "acted_on", "refuted", "evaluated"}
Found == [action : Actions, active : BOOLEAN]
Judged ==
  [action : Actions, active : BOOLEAN, validity : Validities, freshness : Freshnesses]
Projections == [disposition : Dispositions, everActedOn : BOOLEAN, freshness : Freshnesses]
Readings ==
  [revisions : 1..MaxRevisions,         \* how many the ledger had
   next      : 1..(MaxRevisions + 1),   \* the revision to query the relations of
   found     : SUBSET Found,
   at        : {Absent} \cup [found : Found, contested : BOOLEAN, stored : {Absent} \cup BOOLEAN],
   receipts  : SUBSET Judged]

ASSUME ActivityAssumption ==
  /\ Actions \subseteq [revision : 1..MaxRevisions, predicate : Predicates, receipt : Receipts]
  /\ MaxRevisions \in Nat \ {0}
  /\ Absent \notin BOOLEAN \cup Projections \cup Readings
  /\ Absent \notin [found : Found, contested : BOOLEAN, stored : {Absent} \cup BOOLEAN]

VARIABLES
  revisions,  \* how many revisions the ledger has; the last one is current
  links,      \* the state of each action relation
  contests,   \* of each receipt: the state of a `refutes` relation to it that
              \* is not of a finding
  stored,     \* the receipts whose events are in the store
  coverage,   \* what the last run of the receipts' adapter was
  reading,    \* the projection being read, or None
  told        \* the last projection, or None

world == <<revisions, links, contests, stored, coverage>>
activityVars == <<world, reading, told>>

-----------------------------------------------------------------------------
(* The projection of what was read.                                        *)

\* _adapter_freshness: a full and current run of the adapter, or not.
AdapterFreshness(run) == IF run = "ok" THEN "current" ELSE "unknown"

Judgement(f, validity, freshness) ==
  [action |-> f.action, active |-> f.active, validity |-> validity, freshness |-> freshness]

\* Mutant: a receipt counts only while its adapter is covered.
JudgeByFreshness(f, contested, there, fresh) ==
  IF contested THEN Judgement(f, "invalid", "invalid")
  ELSE IF there /\ fresh = "current" THEN Judgement(f, "valid", fresh)
  ELSE Judgement(f, "unknown", "unknown")

\* _validate_action_receipt: an event that is there makes a receipt valid,
\* however old the news; one that is missing although everything was read makes
\* it invalid.
Judge(f, contested, there, fresh) ==
  IF contested THEN Judgement(f, "invalid", "invalid")
  ELSE IF there THEN Judgement(f, "valid", fresh)
  ELSE IF fresh = "current" THEN Judgement(f, "invalid", "invalid")
  ELSE Judgement(f, "unknown", "unknown")

\* _disposition
Disposition(predicates) ==
  LET actedOn == predicates \cap {"acts_on", "promotes"} # {}
  IN  IF "refutes" \in predicates /\ actedOn THEN "conflicted"
      ELSE IF "promotes" \in predicates THEN "promoted"
      ELSE IF actedOn THEN "acted_on"
      ELSE IF "refutes" \in predicates THEN "refuted"
      ELSE IF "evaluates" \in predicates THEN "evaluated" ELSE "none"

\* _projection_freshness
ProjectionFreshness(receipts) ==
  LET values == {r.freshness : r \in receipts}
  IN  IF values = {} THEN "not_applicable"
      ELSE IF "invalid" \in values THEN "invalid"
      ELSE IF "unknown" \in values THEN "unknown" ELSE "current"

\* build_finding_activity, when everything was read.
Projection(n, receipts) ==
  LET active == {r \in receipts : r.active}
      current == {r \in active : r.action.revision = n}
      valid(rs) == {r \in rs : r.validity = "valid"}
  IN  [disposition |-> Disposition({r.action.predicate : r \in valid(current)}),
       everActedOn |-> \E r \in valid(active) : r.action.predicate \in {"acts_on", "promotes"},
       freshness   |-> ProjectionFreshness(current)]

-----------------------------------------------------------------------------
ActivityInit ==
  /\ revisions = 1
  /\ links = [a \in Actions |-> "none"]
  /\ contests = [r \in Receipts |-> "none"]
  /\ stored = {}
  /\ coverage = "none"
  /\ reading = Absent
  /\ told = Absent

\* The last record of a relation: asserted once, and then refuted for good.
Onward(state) == IF state = "none" THEN "asserted" ELSE "refuted"

\* A reviewer or a generator revises the finding.
ReviseFinding ==
  /\ revisions < MaxRevisions
  /\ revisions' = revisions + 1
  /\ UNCHANGED <<links, contests, stored, coverage, reading, told>>

\* An adapter, `findings relate` or `findings unrelate`.
LinkAction(a) ==
  /\ links[a] # "refuted"
  /\ links' = [links EXCEPT ![a] = Onward(@)]
  /\ UNCHANGED <<revisions, contests, stored, coverage, reading, told>>

Contest(r) ==
  /\ contests[r] # "refuted"
  /\ contests' = [contests EXCEPT ![r] = Onward(@)]
  /\ UNCHANGED <<revisions, links, stored, coverage, reading, told>>

\* A scan appends the event of a receipt.
StoreReceipt(r) ==
  /\ r \notin stored
  /\ stored' = stored \cup {r}
  /\ UNCHANGED <<revisions, links, contests, coverage, reading, told>>

\* A scan is through with the receipts' adapter: record_adapter_run.
RecordRun ==
  /\ \E run \in {"ok", "error"} : coverage' = run
  /\ UNCHANGED <<revisions, links, contests, stored, reading, told>>

\* ledger.history(finding_id)
ReadLedger ==
  /\ reading = Absent
  /\ reading' = [revisions |-> revisions, next |-> 1, found |-> {}, at |-> Absent, receipts |-> {}]
  /\ UNCHANGED <<world, told>>

\* store.relation_records of the next revision
ReadRelations ==
  /\ reading # Absent
  /\ reading.next <= reading.revisions
  /\ reading' = [reading EXCEPT
       !.next = @ + 1,
       !.found = @ \cup {f \in Found : /\ f.action.revision = reading.next
                                       /\ links[f.action] # "none"
                                       /\ f.active <=> links[f.action] = "asserted"}]
  /\ UNCHANGED <<world, told>>

Unjudged == {f \in reading.found : \A r \in reading.receipts : r.action # f.action}

\* store.incoming_relations of the receipt of a relation
ReadContests ==
  /\ reading # Absent
  /\ reading.next > reading.revisions
  /\ reading.at = Absent
  /\ \E f \in Unjudged :
       reading' = [reading EXCEPT !.at =
         [found |-> f, contested |-> contests[f.action.receipt] = "asserted", stored |-> Absent]]
  /\ UNCHANGED <<world, told>>

\* store.event_for_ref
ReadEvent ==
  /\ reading # Absent
  /\ reading.at # Absent
  /\ reading.at.stored = Absent
  /\ reading' = [reading EXCEPT !.at.stored = reading.at.found.action.receipt \in stored]
  /\ UNCHANGED <<world, told>>

\* store.source_coverage, and the receipt is judged
ReadCoverage ==
  /\ reading # Absent
  /\ reading.at # Absent
  /\ reading.at.stored # Absent
  /\ reading' = [reading EXCEPT
       !.at = Absent,
       !.receipts = @ \cup {Judge(reading.at.found, reading.at.contested, reading.at.stored,
                                  AdapterFreshness(coverage))}]
  /\ UNCHANGED <<world, told>>

\* The projection is returned.
Tell ==
  /\ reading # Absent
  /\ reading.next > reading.revisions
  /\ reading.at = Absent
  /\ Unjudged = {}
  /\ told' = Projection(reading.revisions, reading.receipts)
  /\ reading' = Absent
  /\ UNCHANGED world

Read == ReadLedger \/ ReadRelations \/ ReadContests \/ ReadEvent \/ ReadCoverage \/ Tell

ActivityNext ==
  \/ ReviseFinding
  \/ \E a \in Actions : LinkAction(a)
  \/ \E r \in Receipts : Contest(r) \/ StoreReceipt(r)
  \/ RecordRun
  \/ Read

ActivitySpec == ActivityInit /\ [][ActivityNext]_activityVars

-----------------------------------------------------------------------------
ActivityTypeOK ==
  /\ revisions \in 1..MaxRevisions
  /\ links \in [Actions -> States]
  /\ contests \in [Receipts -> States]
  /\ stored \subseteq Receipts
  /\ coverage \in {"none", "ok", "error"}
  /\ reading \in {Absent} \cup Readings
  /\ told \in {Absent} \cup Projections

\* Nobody took back a relation by which the finding was acted on, or contested
\* a receipt.
NothingTakenBack ==
  /\ \A a \in Actions : a.predicate \in {"acts_on", "promotes"} => links[a] # "refuted"
  /\ \A r \in Receipts : contests[r] = "none"

\* "historical ever_acted_on remains true after a valid receipt unless that
\* receipt or relation is explicitly refuted.  Temporary source unavailability
\* qualifies freshness but does not erase history" (docs/boundaries.md): what a
\* reading has told, later readings tell, although the finding is revised, its
\* relations are written and adapters run in between and while they read.
EverActedOnStays ==
  [][told # Absent /\ told' # told /\ told.everActedOn =>
       told'.everActedOn \/ ~NothingTakenBack]_activityVars
=============================================================================
