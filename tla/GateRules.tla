----------------------------- MODULE GateRules -----------------------------
(***************************************************************************)
(* The George gate rules of src/milton/generators/george_gates.py: which   *)
(* gates of a window are resolved, minted again and again, or old and      *)
(* never consulted, and the finding each of these makes.  Gate evidence    *)
(* has a coordinate: <<"gate", name>>, <<"target", mint>> for the gate of  *)
(* a mint, or None.  Days are the unit of time.                            *)
(***************************************************************************)
EXTENDS Records

\* GateDetectorConfig: the window [since, cutoff), the state of the source and
\* the thresholds.
GateConfigOK(config) ==
  /\ config.since \in Nat /\ config.cutoff \in Nat /\ config.since < config.cutoff
  /\ {config.remintThreshold, config.remintDays, config.oldDays} \subseteq Nat \ {0}

GateEvidence(events, config) ==
  {e \in events : e.kind = "gate_evidence" /\ config.since <= e.at /\ e.at < config.cutoff}

Mints(evidence) == {e \in evidence : e.evidence = "mint"}

\* _canonical_evidence_coordinate: a decision about a mint is about its gate,
\* if the mint is in the window and has one.
CanonicalCoordinate(e, evidence) ==
  LET gates == {m.coordinate : m \in {m \in Mints(evidence) :
                  m.coordinate # None /\ e.coordinate = <<"target", m.mint>>}}
  IN  IF e.evidence # "mint" /\ gates # {} THEN CHOOSE g \in gates : TRUE
      ELSE e.coordinate

\* Mutant: the window starts over behind a full one.
DensestTumbling(mints, days) ==
  LET starts == {m \in mints : ~\E n \in mints : n.at < m.at}
      window(m) == {n \in mints : m.at <= n.at /\ n.at <= m.at + days}
  IN  IF mints = {} THEN {} ELSE window(CHOOSE m \in starts : TRUE)

\* _densest_window: the most mints that lie within so many days, the earliest
\* such window if there are several.
DensestWindow(mints, days) ==
  LET place(m) == <<m.at, m.id>>
      upTo(m) == {n \in mints : (n = m \/ Before(place(n), place(m))) /\ m.at <= n.at + days}
      most == {m \in mints : \A n \in mints : Cardinality(upTo(n)) <= Cardinality(upTo(m))}
  IN  IF mints = {} THEN {}
      ELSE upTo(CHOOSE m \in most : \A n \in most \ {m} : Before(place(m), place(n)))

Assessment(rule, state, reason, coordinate, mints, supporting) ==
  [rule |-> rule, state |-> state, reason |-> reason, coordinate |-> coordinate,
   mints |-> {m.mint : m \in mints}, evidence |-> {e.id : e \in mints \cup supporting}]

Rules == {"condition-resolved", "re-minted", "old-unconsulted"}
SettledStates == {"resolved", "retired", "refuted", "acted"}

\* The rules on one gate: its mints, and the evidence of the window on it.
AssessGate(gate, mints, related, config) ==
  LET resolved == {e \in related : e.evidence \in {"decision", "disposition"} /\ e.status \in SettledStates}
      window == DensestWindow(mints, config.remintDays)
      reminted == Cardinality(window) >= config.remintThreshold
      consults == {e \in related : e.evidence = "consult"}
      said == {e.consultation : e \in consults}
      age == config.cutoff - Min({m.at : m \in mints})
      old == CASE resolved # {} -> <<"not_detected", "already-resolved">>
               [] resolved = {} /\ age < config.oldDays -> <<"not_detected", "too-young">>
               [] resolved = {} /\ age >= config.oldDays /\ "consulted" \in said ->
                    <<"not_detected", "consulted">>
               [] resolved = {} /\ age >= config.oldDays /\ "consulted" \notin said
                    /\ "not_consulted" \in said -> <<"detected", "explicit-not-consulted">>
               [] OTHER -> <<"abstain", "consultation-unknown">>
  IN  {IF resolved # {}
       THEN Assessment("condition-resolved", "detected", "resolution-receipt", gate, mints, resolved)
       ELSE Assessment("condition-resolved", "not_detected", "no-resolution", gate, mints, {}),
       IF reminted
       THEN Assessment("re-minted", "detected", "re-mint-threshold", gate, window, {})
       ELSE Assessment("re-minted", "not_detected", "below-threshold", gate, window, {}),
       Assessment("old-unconsulted", old[1], old[2], gate, mints, consults)}

\* Mutant: only evidence that names the gate itself is looked at.
AssessmentsByName(events, config) ==
  LET evidence == GateEvidence(events, config)
      gates == {m.coordinate : m \in Mints(evidence)} \ {None}
  IN  UNION {AssessGate(g, {m \in Mints(evidence) : m.coordinate = g},
                        {e \in evidence : e.coordinate = g}, config) : g \in gates}

\* detect_george_gates: the assessments.
GateAssessments(events, config) ==
  LET evidence == GateEvidence(events, config)
      mints == Mints(evidence)
      gates == {m.coordinate : m \in mints} \ {None}
      unkeyed == {Assessment(rule, "abstain",
                             IF m.ambiguous THEN "coordinate-ambiguous" ELSE "coordinate-unavailable",
                             None, {m}, {}) :
                    rule \in Rules, m \in {m \in mints : m.coordinate = None}}
      of(g) == {m \in mints : m.coordinate = g}
      related(g) == {e \in evidence : CanonicalCoordinate(e, evidence) = g}
  IN  unkeyed \cup
      IF config.source # "fresh"
      THEN {Assessment(rule, "abstain", "stale-source", g, of(g), {}) : rule \in Rules, g \in gates}
      ELSE UNION {AssessGate(g, of(g), related(g), config) : g \in gates}

KindOfRule == [r \in Rules |->
  CASE r = "condition-resolved" -> "stale_gate"
    [] r = "re-minted"          -> "failure_motif"
    [] r = "old-unconsulted"    -> "memory_hygiene"]

\* detect_george_gates: the findings, each a lead.  The snapshot is made of the
\* window and all of its evidence, whichever gate that is about.
GateCandidates(events, config) ==
  LET evidence == GateEvidence(events, config)
      mints == Mints(evidence)
      keyed == {m \in mints : m.coordinate # None}
  IN  {[subject  |-> <<a.rule, a.coordinate>>, kind |-> KindOfRule[a.rule], grade |-> "lead",
        reason   |-> a.reason, mints |-> a.mints, evidence |-> a.evidence,
        snapshot |-> <<config, {e.id : e \in evidence}>>,
        coverage |-> <<Cardinality(keyed), Max({Cardinality(mints), 1})>>] :
          a \in {a \in GateAssessments(events, config) : a.state = "detected"}}
=============================================================================
