--------------------------- MODULE GeneratorBatch ---------------------------
(***************************************************************************)
(* The generators' way into the finding ledger: append_gate_findings       *)
(* (src/milton/generators/george_gates.py), append_memory_findings         *)
(* (memory.py) and append_motif_findings (motifs.py), which are one loop.  *)
(* A batch looks at the ledger once, without the lock, and then offers     *)
(* its candidates one by one, each in an append of its own, while other    *)
(* processes, reviewers and generators, append to the same file.  A        *)
(* candidate that the ledger was seen to have is passed over; a refusal    *)
(* ends the batch where it is.                                             *)
(***************************************************************************)
EXTENDS FindingLedger

CONSTANT Projections  \* the sequences of candidates that generators find

Candidates == [finding : Findings, grade : Grades \ {"refuted"}, says : Contents]
Batches ==
  [candidates : Projections, next : Nat \ {0}, at : Times,
   seen : [Findings -> Revisions \cup {None}]]

ASSUME ProjectionsAssumption ==
  /\ Projections \subseteq Seq(Candidates)
  /\ None \notin Batches

VARIABLE batch  \* the batch that each process is at, or None

batchVars == <<vars, batch>>

-----------------------------------------------------------------------------
\* FindingLedger.current: the last line of each finding.
Current ==
  [f \in Findings |->
    IF \E i \in 1..Len(lines) : IsCurrent(lines, Len(lines), i, f)
    THEN lines[CHOOSE i \in 1..Len(lines) : IsCurrent(lines, Len(lines), i, f)]
    ELSE None]

\* _same_candidate: what it says and the grade; not when it was generated.
Same(revision, candidate) ==
  revision.grade = candidate.grade /\ revision.says = candidate.says

\* candidate.to_revision, or existing.revise with what the candidate says.
Revision(candidate, existing, at) ==
  [finding |-> candidate.finding, at |-> at, grade |-> candidate.grade, says |-> candidate.says,
   supersedes |-> IF existing = None THEN None ELSE RevisionId(existing)]

InBatch(p) == batch[p] # None
Candidate(p) == batch[p].candidates[batch[p].next]
Existing(p) == batch[p].seen[Candidate(p).finding]
Remaining(p) == batch[p].next <= Len(batch[p].candidates)

BatchInit == Init /\ batch = [p \in Procs |-> None]

\* `milton generate` or `memory audit --append`: ledger.current() is read
\* without the lock; an unreadable file ends the command.
StartBatch(p) ==
  /\ pc[p] = "idle"
  /\ ~InBatch(p)
  /\ Readable
  /\ Len(lines) < MaxLines
  /\ \E candidates \in Projections, t \in Times :
       batch' = [batch EXCEPT ![p] =
                   [candidates |-> candidates, next |-> 1, at |-> t, seen |-> Current]]
  /\ UNCHANGED vars

\* The candidate is what was seen: replayed += 1.
PassOver(p) ==
  /\ pc[p] = "idle"
  /\ InBatch(p) /\ Remaining(p)
  /\ Existing(p) # None
  /\ Same(Existing(p), Candidate(p))
  /\ batch' = [batch EXCEPT ![p].next = @ + 1]
  /\ UNCHANGED vars

\* Mutant: a candidate is offered whatever the ledger says already.
OfferAlways(p) ==
  /\ pc[p] = "idle"
  /\ InBatch(p) /\ Remaining(p)
  /\ Start(p, Revision(Candidate(p), Existing(p), batch[p].at))
  /\ UNCHANGED batch

\* The candidate is new, or says something else: ledger.append is called.
Offer(p) ==
  /\ pc[p] = "idle"
  /\ InBatch(p) /\ Remaining(p)
  /\ Existing(p) # None => ~Same(Existing(p), Candidate(p))
  /\ Start(p, Revision(Candidate(p), Existing(p), batch[p].at))
  /\ UNCHANGED batch

\* The batch is through: (inserted, replayed) is returned.
EndBatch(p) ==
  /\ pc[p] = "idle"
  /\ InBatch(p) /\ ~Remaining(p)
  /\ batch' = [batch EXCEPT ![p] = None]
  /\ UNCHANGED vars

\* append has returned: current[finding] is the revision, and on.
Advance(p) ==
  batch' = IF InBatch(p)
           THEN [batch EXCEPT ![p].next = @ + 1, ![p].seen[req[p].finding] = req[p]]
           ELSE batch

\* append has raised, or the process is gone: the rest is not tried.
Abandon(p) == batch' = [batch EXCEPT ![p] = None]

\* Mutant: a refusal is counted as a replay.
CarryOn(p) == Refuse(p) /\ Advance(p)

\* append does not write: a replay returns False, everything else raises.
Refused(p) ==
  /\ Refuse(p)
  /\ IF Readable /\ \E i \in 1..Len(lines) : lines[i] = req[p]
     THEN Advance(p) ELSE Abandon(p)

\* Commands of reviewers, and the appends of everybody.
BatchNext ==
  \/ \E p \in Procs :
       \/ ~InBatch(p) /\ (Create(p) \/ Revise(p)) /\ UNCHANGED batch
       \/ StartBatch(p) \/ PassOver(p) \/ Offer(p) \/ EndBatch(p)
       \/ (Admit(p) \/ WritePart(p) \/ Flush(p) \/ Close(p)) /\ UNCHANGED batch
       \/ Sync(p) /\ Advance(p)
       \/ Refused(p)
       \/ (Fail(p) \/ Crash(p)) /\ Abandon(p)
  \/ PowerLoss /\ batch' = [p \in Procs |-> None]

BatchSpec == BatchInit /\ [][BatchNext]_batchVars

\* As FairSpec: what holds the lock runs on.
FairBatchSpec ==
  BatchSpec /\ \A p \in Procs :
    /\ WF_batchVars(Flush(p) /\ UNCHANGED batch)
    /\ WF_batchVars(Sync(p) /\ Advance(p))
    /\ WF_batchVars(Close(p) /\ UNCHANGED batch)

-----------------------------------------------------------------------------
\* What a batch has put behind it is on file: each candidate up to where it is
\* was written, by this batch or by somebody else, with its grade and with what
\* it says.  A batch that returns has told everything; one that is refused has
\* told everything before the refusal.
BatchTold ==
  \A p \in {p \in Procs : InBatch(p)} :
    \A k \in 1..(batch[p].next - 1) :
      \E i \in 1..Len(lines) :
        /\ lines[i] # Torn
        /\ lines[i].finding = batch[p].candidates[k].finding
        /\ Same(lines[i], batch[p].candidates[k])

\* "Append new/changed leads and replay identical candidates without
\* duplicates": a batch never writes a line that says, with the same grade,
\* what the finding's current revision says already, although the ledger may
\* have moved on since the batch looked at it.
NoIdleRevision ==
  [][\A p \in Procs :
       /\ InBatch(p) /\ lock = p
       /\ Len(lines') > Len(lines) /\ lines'[Len(lines')] = req[p]
       => ~\E i \in 1..Len(lines) :
             /\ IsCurrent(lines, Len(lines), i, req[p].finding)
             /\ Same(lines[i], Candidate(p))]_batchVars
=============================================================================
