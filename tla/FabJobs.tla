------------------------------ MODULE FabJobs ------------------------------
(***************************************************************************)
(* The adapter of Fab, src/milton/adapters/fab.py.  Fab keeps a ledger of  *)
(* its jobs, and newer versions also write a receipt per step; the output  *)
(* of an attempt tells the session it ran as.  The root is                 *)
(* [ledger, receipts, stdouts], each of these a source of its own, but     *)
(* what the ledger and the outputs are read into depends on the receipts   *)
(* that were found when they were looked for, before anything is read.     *)
(***************************************************************************)
EXTENDS Records

JobSession(job) == EventId("fab", "session", job)
JobRef(job) == Ref("fab.job", job)

FabEvent(kind, native, at, job, parent, payload) ==
  NormalizedEvent("fab", kind, native, at, JobSession(job), parent, payload)

JobOpened(job, at, told) ==
  NormalizedEvent("fab", "session", job, at, None, None, [status |-> "submitted", told |-> told])

\* _submitted_crosswalks
SubmittedCrosswalks(line) ==
  {CrosswalkRecord(JobRef(line.job), Ref("correlation", c)) : c \in {line.job} \cup line.correlations}
  \cup {CrosswalkRecord(JobRef(line.job), JobRef(r)) : r \in {line.repairs} \ {None, line.job}}

AttemptStatus(outcome) ==
  CASE outcome = "succeeded" -> "succeeded"
    [] outcome \in {"errored", "stuck", "out_of_turns", "agent_blocked"} -> "failed"
    [] OTHER -> "unknown"

TerminalStatuses == {"succeeded", "cancelled", "failed", "escalated"}
TerminalStatus(status) ==
  CASE status = "succeeded" -> "succeeded" [] status = "cancelled" -> "abandoned" [] OTHER -> "failed"

\* Mutant: the ledger is told whatever receipts there are.
NoCoverage(receipts) == {}

\* _receipt_coverage: which steps of which jobs have a receipt.
ReceiptCoverage(receipts) ==
  {<<r.job, r.kind, IF r.kind = "attempt_finished" THEN r.index ELSE None>> :
     r \in {r \in receipts : r.kind = "attempt_finished" => r.index # None}}

\* One line of the ledger, the n-th.  A step that has a receipt is left to it.
ReadLedgerLine(line, n, coverage) ==
  CASE line.type = "submitted" /\ <<line.job, "job_submitted", None>> \notin coverage ->
         Yield({JobOpened(line.job, line.at, "ledger")}, SubmittedCrosswalks(line), {})
    [] line.type \in {"attempt_finished", "attempt_finished_post_cancel"}
       /\ <<line.job, "attempt_finished", line.index>> \notin coverage ->
         Yield({FabEvent("outcome", <<"attempt", line.job, line.index, line.type>>, line.at,
                         line.job, None,
                         OutcomePayload("fab.attempt", AttemptStatus(line.outcome), line.job))},
               {}, {})
    [] line.type = "status_changed" /\ line.to \in TerminalStatuses
       /\ <<line.job, "job_outcome", None>> \notin coverage ->
         Yield({FabEvent("outcome", <<"terminal", line.job, n>>, line.at, line.job, None,
                         OutcomePayload("fab.job", TerminalStatus(line.to), line.job))}, {}, {})
    [] OTHER -> Nothing

\* FabAdapter.read of the ledger: the receipts are looked for when it is called, the
\* lines are read when the records are asked for.  What was seen of the receipts may
\* be less than there are by then.
ReadLedger(root, seen, since) ==
  All({ReadLedgerLine(root.ledger[n], n, ReceiptCoverage(seen)) :
         n \in {n \in DOMAIN root.ledger : root.ledger[n].at >= since}})

-----------------------------------------------------------------------------
\* _receipt_outcome_status
ReceiptStatus(status) ==
  CASE status \in {"done", "ok", "pass", "passed", "succeeded", "success"} -> "succeeded"
    [] status \in {"cancelled", "parked"} -> "abandoned"
    [] status \in {"errored", "escalated", "fail", "failed", "needs_review", "uncertain"} -> "failed"
    [] OTHER -> "unknown"

\* The event of a receipt, if its kind has one and its coordinates are there.
ReceiptEvents(r) ==
  LET outcome(native, type, reference) ==
        {FabEvent("outcome", native, r.at, r.job, None,
                  OutcomePayload(type, ReceiptStatus(r.status), reference))}
  IN  CASE r.kind = "job_submitted" -> {JobOpened(r.job, r.at, "receipt")}
        [] r.kind = "attempt_finished" /\ r.attempt # None ->
             outcome(r.attempt, "fab.attempt", r.job)
        [] r.kind \in {"job_outcome", "delivery_outcome"} ->
             outcome(<<r.kind, r.job>>, "fab.job", r.job)
        [] r.kind = "verifier" -> outcome(r.id, "fab.verifier", r.id)
        [] r.kind = "artifact" /\ r.artifact # None ->
             {FabEvent("outcome", r.id, r.at, r.job, None,
                OutcomePayload(IF r.artifact.ns = "git.commit" THEN "git.commit" ELSE "fab.artifact",
                               "succeeded", r.artifact.value))}
        [] OTHER -> {}

\* The event that the links of a receipt rest on, or the id of the receipt.
ReceiptEvidence(r) ==
  IF ReceiptEvents(r) = {} THEN {r.id} ELSE {e.id : e \in ReceiptEvents(r)}

\* _receipt_relations: every receipt repeats that its attempt is one of the job;
\* only the first one is taken for it.
ReceiptRelations(r) ==
  {RelationRecord(s[1], s[2], s[3], ReceiptEvidence(r)) :
     s \in {s \in r.relations : s[2] = "attempt_of" => r.kind = "attempt_started"}}

ReceiptCrosswalks(r) ==
  IF r.kind = "attempt_started" /\ r.attempt # None /\ r.correlation # None
  THEN {CrosswalkRecord(Ref("fab.attempt", r.attempt), Ref("correlation", r.correlation))}
  ELSE {}

\* What Fab sums up for a step: it is not an amount of its own.
ReceiptRollup(r) ==
  {FabEvent("cost", <<"cost", r.id>>, r.at, r.job,
      IF ReceiptEvents(r) = {} THEN None ELSE CHOOSE i \in ReceiptEvidence(r) : TRUE,
      [role |-> "rollup", amount |-> a.amount, authority |-> "fab", key |-> <<"fab.receipt", r.id>>,
       scope |-> "source", economic |-> "unknown", basis |-> "unknown", accuracy |-> "unknown"]) :
     a \in {r.accounting} \ {None}}

\* _read_execution_receipt
ReadReceipt(r, since) ==
  IF r.at < since THEN Nothing
  ELSE Yield(ReceiptEvents(r) \cup ReceiptRollup(r), ReceiptCrosswalks(r), ReceiptRelations(r))

-----------------------------------------------------------------------------
HarnessNamespace ==
  ("claude-cli" :> "claude-code.session") @@ ("codex" :> "codex.session")
    @@ ("opencode" :> "opencode.session")

\* discover: an output is a source of its own unless a receipt that is seen tells how
\* the attempt ended; _receipt_session_id: the first line that names a session.
ReadStdout(stdout, seen, since) ==
  LET told == /\ stdout.modified >= since
              /\ stdout.backend \in DOMAIN HarnessNamespace
              /\ ~\E r \in seen : /\ r.kind = "attempt_finished" /\ r.job = stdout.job
                                  /\ r.index = stdout.index
      named == SelectSeq(stdout.sessions, LAMBDA s : s # None)
  IN  IF ~told \/ named = <<>> THEN Nothing
      ELSE Yield({}, {CrosswalkRecord(JobRef(stdout.job),
                                      Ref(HarnessNamespace[stdout.backend], Head(named)))}, {})
=============================================================================
