--------------------------- MODULE ReceiptSources ---------------------------
(***************************************************************************)
(* The adapters of sources that hold receipts or an inventory: Git logs    *)
(* (src/milton/adapters/git.py), Chip and Spindle receipts (chip.py,       *)
(* spindle.py), research outcomes (barnowl_research_outcome.py) and memory *)
(* files (memory_files.py).  A row that does not parse is not in the       *)
(* content; what a row must satisfy besides that is modelled.              *)
(***************************************************************************)
EXTENDS Records

OutcomeEvent(adapter, native, at, type, status, reference, detail) ==
  NormalizedEvent(adapter, "outcome", native, at, None, None,
                  [type |-> type, status |-> status, reference |-> reference, detail |-> detail])

\* RelationRecord.create as these adapters call it: resting on the row's event.
Receipt(event, subject, predicate, object) ==
  RelationRecord(subject, predicate, object, {event.id})

-----------------------------------------------------------------------------
(* Git.  A repository is its name and its commits; a commit has the refs   *)
(* that point to it at the moment (%D).                                    *)

\* GitAdapter.read, commit by commit, of the log of all refs.
ReadCommit(repo, commit) ==
  LET event == OutcomeEvent("git", <<repo, commit.sha>>, commit.at, "git.commit", "succeeded",
                            commit.sha, [parents |-> commit.parents, refs |-> commit.refs])
  IN  Yield({event},
            {CrosswalkRecord(Ref("git.commit-instance", <<repo, commit.sha>>),
                             Ref("git.commit", commit.sha))}, {})

ReadGit(repo, commits, since) ==
  All({ReadCommit(repo, c) : c \in {c \in commits : c.committed >= since}})

-----------------------------------------------------------------------------
(* Chip.                                                                   *)

\* _validated_receipt of chip.py
IsCandidateReceipt(r) ==
  r.schema = "chip.candidate-receipt/v1" /\ r.outcome = "candidate-recorded" /\ r.sorted

\* ChipAdapter.read with _receipt_relations
ReadChip(lines, since) ==
  LET told(r) ==
        LET candidate == Ref("chip.candidate", r.candidate)
            event == OutcomeEvent("chip", r.id, r.at, "chip.candidate", "succeeded", r.candidate,
                                  [finding |-> r.finding, revision |-> r.revision])
        IN  Yield({event}, {},
              {Receipt(event, Ref("milton.finding-revision", r.revision), "produced", candidate),
               Receipt(event, Ref("chip.candidate-receipt", r.id), "verifies", candidate)})
  IN  All({told(r) : r \in {r \in ToSet(lines) : IsCandidateReceipt(r) /\ r.at >= since}})

-----------------------------------------------------------------------------
(* Spindle: one receipt per file, of an evaluation or of a promotion.      *)

\* _validated_receipt of spindle.py
IsProcedureReceipt(r) ==
  /\ r.schema \in {"evaluation", "promotion"}
  /\ r.origin # None /\ r.tuple # None /\ r.baseline # None
  /\ IF r.schema = "evaluation" THEN r.evaluation # None
     ELSE r.binding # None /\ r.evaluationReceipt # None

\* SpindleAdapter.read
SpindleEvent(r) ==
  OutcomeEvent("spindle", r.id, r.at,
    IF r.schema = "evaluation" THEN "spindle.evaluation" ELSE "spindle.promotion",
    IF r.eligible THEN "succeeded" ELSE "failed",
    IF r.schema = "evaluation" THEN r.evaluation ELSE r.binding,
    [origin |-> r.origin, tuple |-> r.tuple, baseline |-> r.baseline,
     evaluationReceipt |-> IF r.schema = "promotion" THEN r.evaluationReceipt ELSE None])

\* _receipt_relations of spindle.py
SpindleRelations(r) ==
  LET event == SpindleEvent(r)
      ref == Ref(IF r.schema = "evaluation" THEN "spindle.evaluation-receipt"
                 ELSE "spindle.promotion-receipt", r.id)
      does == IF r.schema = "evaluation" THEN "evaluates" ELSE "promotes"
  IN  {Receipt(event, Ref("milton.finding-revision", r.origin.revision), does, ref),
       Receipt(event, ref, does, Ref("chip.candidate", r.origin.candidate))}
      \cup IF r.schema = "evaluation" THEN {}
           ELSE {Receipt(event, ref, "produced", Ref("spindle.binding", r.binding))}

ReadSpindle(r, since) ==
  IF IsProcedureReceipt(r) /\ r.at >= since
  THEN Yield({SpindleEvent(r)}, {}, SpindleRelations(r)) ELSE Nothing

-----------------------------------------------------------------------------
(* Research outcomes of Barnowl.                                           *)

\* _validate_calls: votes and, where known, calls are told once, and each row
\* says something.
CallsAreValid(calls) ==
  /\ \A i \in DOMAIN calls : calls[i].vote >= 1 /\ {calls[i].call, calls[i].served} # {None}
  /\ \A i, j \in DOMAIN calls :
       i # j => /\ calls[i].vote # calls[j].vote
                /\ calls[i].call = calls[j].call => calls[i].call = None

\* _validate_event: a line that fails is passed over; extra is whether it has
\* fields that are unknown or forbidden.
IsResearchOutcome(line) ==
  /\ ~line.extra
  /\ CallsAreValid(line.calls)
  /\ line.judged \in BOOLEAN
  /\ line.supersedes # line.id

ResearchOutcome == "barnowl.research-outcome"

\* _normalize_event: the outcome, and every coordinate that is not itself.
ReadResearchLine(line) ==
  LET event == OutcomeEvent("barnowl-research-outcome", line.id, line.at, ResearchOutcome,
                 IF line.judged THEN "succeeded" ELSE "failed", line.id,
                 [calls |-> line.calls, attempt |-> line.attempt, correlation |-> line.correlation,
                  domain |-> line.domain, treatment |-> line.treatment, workload |-> line.workload,
                  authority |-> line.authority, judged |-> line.judged, label |-> line.label,
                  supersedes |-> line.supersedes])
      self == Ref(ResearchOutcome, line.id)
  IN  Yield({event},
        {CrosswalkRecord(self, c) : c \in {line.correlation} \ {self}},
        {Receipt(event, Ref("somm.call", line.calls[i].call), "produced", self) :
           i \in {i \in DOMAIN line.calls : line.calls[i].call # None}}
        \cup {Receipt(event, self, "part_of", a) : a \in {line.attempt} \ {self}}
        \cup {Receipt(event, self, "evaluates", d) : d \in {line.domain} \ {self}})

\* BarnowlResearchOutcomeAdapter.read
ReadBarnowl(lines, since) ==
  All({ReadResearchLine(l) : l \in {l \in ToSet(lines) : IsResearchOutcome(l) /\ l.at >= since}})

-----------------------------------------------------------------------------
(* Memory files: a root has an inventory of items and a log of accesses.   *)

MemoryAdapters == {"native-memory", "decision-memory"}
MemorySystem(adapter) == IF adapter = "native-memory" THEN "factory-native" ELSE adapter

MemoryItem(system, root, locator) == <<system, root, locator>>

MemoryEvent(adapter, native, at, system, root, item, stage, state, supersededBy, content) ==
  NormalizedEvent(adapter, "memory_evidence", native, at, None, None,
    [system |-> system, item |-> MemoryItem(system, root, item.locator), itemKind |-> item.kind,
     stage |-> stage, state |-> state, supersededBy |-> supersededBy, content |-> content])

\* The inventory of _read_memory_root: an item is told as it is now, at its
\* last change, whatever the window began with.
MemoryInventory(adapter, system, root, items) ==
  {MemoryEvent(adapter, <<MemoryItem(system, root, i.locator), "inventory">>, i.at, system, root,
               i, "inventory", "observed", None, i.content) : i \in items}

\* The accesses of _read_memory_root: only of items of the inventory.
MemoryAccesses(adapter, system, root, items, log, since) ==
  {MemoryEvent(adapter, <<"access", MemoryItem(system, root, p[2].locator), p[1]>>, p[1].at, system,
               root, p[2], p[1].stage, p[1].state, p[1].supersededBy, None) :
     p \in {p \in ToSet(log) \X items : p[1].item = p[2].locator /\ p[1].at >= since}}

ReadMemory(adapter, system, root, items, log, since) ==
  Yield(MemoryInventory(adapter, system, root, items)
          \cup MemoryAccesses(adapter, system, root, items, log, since), {}, {})
=============================================================================
