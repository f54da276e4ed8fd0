---------------------------- MODULE MemoryAudit ----------------------------
(***************************************************************************)
(* The memory audit of src/milton/generators/memory.py: what memory        *)
(* evidence says of each item that is inventoried, and the disposition it  *)
(* recommends.  A host reports of a stage that an item was or was not      *)
(* observed in it; what it does not report is unknown.  Days are the unit  *)
(* of time.                                                                *)
(***************************************************************************)
EXTENDS Records, FiniteSetsExt

AuditedStages == {"loaded", "retrieved", "referenced", "applied"}

\* MemoryAuditConfig
MemoryConfigOK(config) == config.cutoff \in Nat /\ config.nonUseDays \in Nat \ {0}

\* What build_memory_audit selects, by system and item.
MemoryEvidence(events, config) ==
  {e \in events : e.kind = "memory_evidence" /\ e.at < config.cutoff}
FamilyOf(system, item, evidence) == {e \in evidence : e.system = system /\ e.item = item}

\* Mutant: what not all latest reports have observed was not observed.
ConflictIsNonUse(family, stage) ==
  LET reports == {e \in family : e.stage = stage}
      states == {e.state : e \in {e \in reports : \A f \in reports : f.at <= e.at}}
  IN  CASE states = {} -> "unknown"
        [] states = {"observed"} -> "observed"
        [] OTHER -> "not_observed"

\* _stage_status: what the latest reports of a stage agree on.
StageStatus(family, stage) ==
  LET reports == {e \in family : e.stage = stage}
      states == {e.state : e \in {e \in reports : \A f \in reports : f.at <= e.at}}
  IN  CASE states = {} -> "unknown"
        [] Cardinality(states) = 1 -> CHOOSE s \in states : TRUE
        [] OTHER -> "conflicted"

Recommendation(disposition, reason, grade) ==
  [disposition |-> disposition, reason |-> reason, grade |-> grade]

\* _recommend
Recommend(status, age, superseded, config) ==
  LET said == {status[stage] : stage \in AuditedStages}
      unused == said = {"not_observed"}
  IN  CASE "conflicted" \in said -> Recommendation("none", "conflicted", None)
        [] "conflicted" \notin said /\ status["applied"] = "observed" ->
             Recommendation("keep", "applied", "candidate")
        [] "conflicted" \notin said /\ status["applied"] # "observed" /\ "observed" \in said ->
             Recommendation("keep", "accessed", "lead")
        [] said \cap {"conflicted", "observed"} = {} /\ age < config.nonUseDays ->
             Recommendation("none", "too-recent", None)
        [] unused /\ age >= config.nonUseDays /\ superseded ->
             Recommendation("retire", "superseded-non-use", "candidate")
        [] unused /\ age >= config.nonUseDays /\ ~superseded ->
             Recommendation("park", "complete-non-use", "candidate")
        [] OTHER -> Recommendation("none", "signals-unknown", None)

\* One item: it is as old as its latest inventory, and superseded if any of its
\* evidence ever named a successor.
AuditItem(family, config) ==
  LET inventory == {e \in family : e.stage = "inventory" /\ e.state = "observed"}
      status == [stage \in AuditedStages |-> StageStatus(family, stage)]
      inventoried == Max({e.at : e \in inventory})
      superseded == \E e \in family : e.supersededBy # None
      advice == Recommend(status, config.cutoff - inventoried, superseded, config)
  IN  [family |-> family, inventoried |-> inventoried, status |-> status, superseded |-> superseded,
       disposition |-> advice.disposition, reason |-> advice.reason, grade |-> advice.grade]

\* build_memory_audit: evidence of what is not inventoried is passed over.
MemoryItems(events, config) ==
  LET evidence == MemoryEvidence(events, config)
      families == {FamilyOf(e.system, e.item, evidence) : e \in evidence}
  IN  {AuditItem(f, config) :
         f \in {f \in families : \E e \in f : e.stage = "inventory" /\ e.state = "observed"}}

\* _candidate: the subject of a finding has the disposition in it, and its
\* snapshot is made of all evidence, whatever item that is about.
MemoryCandidates(events, config) ==
  {LET e == CHOOSE e \in i.family : TRUE
   IN  [subject |-> <<i.disposition, e.system, e.item>>, kind |-> "memory_hygiene",
        grade |-> i.grade, reason |-> i.reason, evidence |-> {f.id : f \in i.family},
        snapshot |-> <<config, {f.id : f \in MemoryEvidence(events, config)}>>,
        coverage |-> Cardinality({s \in AuditedStages : i.status[s] # "unknown"})] :
     i \in {i \in MemoryItems(events, config) : i.disposition # "none"}}
=============================================================================
