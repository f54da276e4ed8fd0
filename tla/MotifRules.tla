----------------------------- MODULE MotifRules -----------------------------
(***************************************************************************)
(* Failure motifs of src/milton/generators/motifs.py.  A synthesis made    *)
(* elsewhere proposes that sessions fail in the same way; the projection   *)
(* takes from the events what each session supports, and lets a proposal   *)
(* through only above floors.  Of the tool or the action that is repeated  *)
(* most only its existence matters, so all that are repeated are kept.     *)
(***************************************************************************)
EXTENDS WorkGraph

Terminal == {"failed", "reverted", "abandoned"}

MotifConfigOK(config) ==
  /\ config.since < config.cutoff
  /\ {config.recurrence, config.receipts, config.aggregation} \subseteq Nat \ {0}

\* The snapshot of a scan: its window and every event in it.
MotifWindow(events, config) == {e \in events : config.since <= e.at /\ e.at < config.cutoff}
MotifSnapshot(events, config) == <<config, {e.id : e \in MotifWindow(events, config)}>>

\* What is found twice or more among some events.
Repeated(found, value) ==
  {value[e] : e \in {e \in found : value[e] # None /\ \E f \in found \ {e} : value[f] = value[e]}}

\* One facet of extract_failure_facets: a session with its own event and all
\* events of the window that are told of it directly.
Facet(root, family) ==
  LET tools == {e \in family : e.kind = "tool_call"}
      failed == {e \in tools : e.status = "failed"}
      outcomes == {e \in family : e.kind = "outcome"}
  IN  [session        |-> root.id, native |-> root.native, adapter |-> root.adapter,
       events         |-> {e.id : e \in family},
       receipts       |-> {e.id : e \in outcomes \cup failed},
       repeated       |-> Repeated(tools, [e \in tools |-> e.tool]),
       repeatedFailed |-> Repeated(failed, [e \in failed |-> e.tool]),
       repeatedAction |-> Repeated(failed, [e \in failed |-> e.action]),
       errors         |-> {e.error : e \in tools} \ {None},
       outcomes       |-> {e.status : e \in outcomes},
       scopeChanges   |-> SumFunction([e \in {e \in family : "scopeChanges" \in DOMAIN e} |-> e.scopeChanges])]

\* extract_failure_facets: of sessions that are in the window and have used a
\* tool or come to an outcome there.
Facets(events, config) ==
  LET selected == MotifWindow(events, config)
      roots == {e \in selected : e.kind = "session"}
      family(root) == {root} \cup {e \in selected : e.kind # "session" /\ e.session = root.id}
  IN  {Facet(root, family(root)) : root \in
         {root \in roots : \E e \in family(root) : e.kind \in {"tool_call", "outcome"}}}

\* Mutant: any repeated tool supports a loop.
SupportsAnyRepetition(motif, facet) ==
  CASE motif = "retry-storm"     -> facet.repeatedAction # {}
    [] motif = "permission-loop" -> facet.repeated # {} /\ "permission" \in facet.errors
    [] motif = "context-drift"   -> facet.scopeChanges > 0 /\ facet.outcomes \cap Terminal # {}
    [] OTHER -> FALSE

\* _facet_supports
FacetSupports(motif, facet) ==
  CASE motif = "retry-storm"     -> facet.repeatedAction # {}
    [] motif = "permission-loop" -> facet.repeatedFailed # {} /\ "permission" \in facet.errors
    [] motif = "context-drift"   -> facet.scopeChanges > 0 /\ facet.outcomes \cap Terminal # {}
    [] OTHER -> FALSE

\* find_corroborating_receipts: outcomes of the work that a session without
\* receipts is connected to, before the cutoff.
CorroboratingReceipts(facet, config, events, crosswalks, relations) ==
  LET root == [kind |-> "session", adapter |-> facet.adapter, native |-> facet.native]
      connected == ConnectedWorkRefs(EventRef(root), 4, crosswalks, relations)
      found == UNION {EventsForRef(ref, events) : ref \in connected}
  IN  IF facet.receipts # {} \/ facet.adapter = "somm" \/ EventRef(root) = None THEN {}
      ELSE {e.id : e \in {e \in EventFamily({f.id : f \in found}, events) :
                            e.kind = "outcome" /\ e.at < config.cutoff}}

\* The proposal of a synthesis for one motif, against what the scan found.
\* external[s]: the receipts that corroborate session s.
AssessMotif(proposal, facets, external, config, decision) ==
  LET selected == {f \in facets : f.session \in proposal.sessions}
      receipts(f) == f.receipts \cup external[f.session]
      received == {f \in selected : receipts(f) # {}}
      assessed(state, reason) ==
        [motif |-> proposal.motif, state |-> state, reason |-> reason,
         sessions |-> proposal.sessions, received |-> Cardinality(received),
         evidence |-> UNION {f.events \cup receipts(f) : f \in selected}]
      floors ==
        << <<proposal.sessions \subseteq {f.session : f \in facets}, "unknown-session">>,
           <<\A f \in selected : FacetSupports(proposal.motif, f), "facet-unsupported">>,
           <<Cardinality(selected) >= config.recurrence, "insufficient-recurrence">>,
           <<Cardinality(received) >= config.receipts, "insufficient-receipts">>,
           <<Cardinality(selected) >= config.aggregation, "private-small-group">>,
           <<decision # "offline", "evaluation-offline">> >>
      missed == {i \in DOMAIN floors : ~floors[i][1]}
  IN  IF missed = {} THEN assessed("eligible", "evidence-floors-met")
      ELSE assessed("abstain", floors[Min(missed)][2])

\* What an evaluation must agree on with the synthesis and with the scan.
EvaluationFits(evaluation, synthesis, config) ==
  \/ evaluation = None
  \/ /\ evaluation.generator = "milton.failure-motifs/v1"
     /\ evaluation.tuple = synthesis.tuple
     /\ config.recurrence >= evaluation.floors.recurrence
     /\ config.aggregation >= evaluation.floors.aggregation

\* build_motif_projection, or None where it raises.
MotifProjection(synthesis, evaluation, config, events, crosswalks, relations) ==
  LET facets == Facets(events, config)
      external == [s \in {f.session : f \in facets} |->
                     CorroboratingReceipts(CHOOSE f \in facets : f.session = s, config,
                                           events, crosswalks, relations)]
      decision == IF evaluation = None THEN None ELSE evaluation.decision
  IN  IF \/ synthesis.snapshot # MotifSnapshot(events, config)
         \/ ~EvaluationFits(evaluation, synthesis, config)
      THEN None
      ELSE {AssessMotif(p, facets, external, config, decision) : p \in synthesis.proposals}

\* The candidates: no higher than the evaluation of the generator allows.
MotifCandidates(assessments, synthesis, evaluation) ==
  {[subject  |-> a.motif, kind |-> "failure_motif",
    grade    |-> IF evaluation # None /\ evaluation.decision = "surface" THEN "candidate" ELSE "lead",
    sessions |-> a.sessions, evidence |-> a.evidence, snapshot |-> synthesis.snapshot] :
     a \in {a \in assessments : a.state = "eligible"}}
=============================================================================
