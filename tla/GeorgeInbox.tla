---------------------------- MODULE GeorgeInbox ----------------------------
(***************************************************************************)
(* The adapter of George's inbox, src/milton/adapters/george.py: a line is *)
(* an entry, and is read into an event, the links it states, and what it   *)
(* says of a gate or of a finding.  An entry has the fields that are read, *)
(* None where it has none; a line that does not parse is None.             *)
(***************************************************************************)
EXTENDS Records

EntryStatus(kind) ==
  CASE kind = "done"     -> "succeeded"
    [] kind = "blocker"  -> "failed"
    [] kind = "obviated" -> "reverted"
    [] OTHER             -> "unknown"

EntryEventId(entry) == EventId("george", "outcome", entry.id)
EntryRef(entry) == Ref("george.entry", entry.id)

\* The entry's event; attributes are left out.
EntryEvent(entry) ==
  NormalizedEvent("george", "outcome", entry.id, entry.at, None, None,
    OutcomePayload("george." \o entry.kind, EntryStatus(entry.kind),
                   IF entry.refs = <<>> THEN None ELSE Head(entry.refs)))

\* _entry_crosswalks
EntryCrosswalks(entry) ==
  {CrosswalkRecord(EntryRef(entry), right) : right \in
     {Ref(p[1], p[2]) : p \in
        {p \in {<<"fab.job", entry.job>>, <<"git.commit", entry.sha>>, <<"george.run", entry.run>>}
                 \cup IF entry.harness \in {"codex", "claude"}
                      THEN {<<IF entry.harness = "codex" THEN "codex.session"
                                                         ELSE "claude-code.session", entry.session>>}
                      ELSE {} : p[2] # None}}}

\* _entry_relations: a commit is the product of the job, if there is one.
EntryRelations(entry) ==
  {RelationRecord(EntryRef(entry), "verifies", Ref("fab.job", j), {EntryEventId(entry)}) :
     j \in {entry.job} \ {None}}
  \cup
  {RelationRecord(IF entry.job # None THEN Ref("fab.job", entry.job) ELSE EntryRef(entry),
                  "produced", Ref("git.commit", g), {EntryEventId(entry)}) :
     g \in {entry.sha} \ {None}}

-----------------------------------------------------------------------------
(* What an entry says of a gate.                                           *)

\* _gate_coordinate: the coordinate it states, or the only thing it refers to.
GateCoordinate(entry) ==
  LET targets == ToSet(entry.refs) \cup entry.edges
  IN  CASE entry.coordinate # None -> [at |-> <<"gate", entry.coordinate>>, ambiguous |-> FALSE]
        [] entry.coordinate = None /\ Cardinality(targets) = 1 ->
             [at |-> <<"target", CHOOSE t \in targets : TRUE>>, ambiguous |-> FALSE]
        [] OTHER -> [at |-> None, ambiguous |-> Cardinality(targets) > 1]

Classification(kind, mint, status, consultation) ==
  [kind |-> kind, mint |-> mint, status |-> status, consultation |-> consultation]

Consultation(said) ==
  CASE said = TRUE -> "consulted" [] said = FALSE -> "not_consulted" [] OTHER -> None

\* _gate_classification: what kind of gate evidence the entry is, or None.  Only
\* an entry that refers to something can decide or dispose of a gate.
GateClassification(entry) ==
  LET human == "needs:human" \in entry.tags \/ entry.gate
      decides == /\ entry.kind = "decision" /\ entry.refs # <<>>
                 /\ entry.tags \cap {"resolved-by-human", "gate-decision"} # {}
      disposes == /\ entry.kind \in {"done", "obviated"} /\ entry.refs # <<>>
                  /\ "gate-disposition" \in entry.tags
  IN  CASE human -> Classification("mint", entry.id, "open", None)
        [] ~human /\ entry.consult # None ->
             Classification("consult", entry.consult.mint, "open", Consultation(entry.consult.said))
        [] ~human /\ entry.consult = None /\ decides ->
             Classification("decision", None,
                            IF "resolved-by-human" \in entry.tags THEN "resolved" ELSE "open", None)
        [] ~human /\ entry.consult = None /\ ~decides /\ disposes ->
             Classification("disposition", None,
                            IF entry.kind = "done" THEN "resolved" ELSE "retired", None)
        [] OTHER -> None

GateId(entry) == EventId("george", "gate_evidence", entry.id)

GatePredicate ==
  [mint |-> "part_of", consult |-> "evaluates", decision |-> "evaluates", disposition |-> "acts_on"]

\* _gate_evidence_records
GateRecords(entry) ==
  LET class == GateClassification(entry)
      gate == GateCoordinate(entry)
      ref == Ref(IF class.kind = "mint" THEN "george.gate-mint" ELSE "george.gate-event", entry.id)
  IN  IF class = None THEN Nothing
      ELSE Yield(
        {NormalizedEvent("george", "gate_evidence", entry.id, entry.at, None, EntryEventId(entry),
           [evidence |-> class.kind, coordinate |-> gate.at, ambiguous |-> gate.ambiguous,
            mint |-> class.mint, status |-> class.status, consultation |-> class.consultation])},
        {CrosswalkRecord(EntryRef(entry), ref)},
        {RelationRecord(ref, GatePredicate[class.kind], Ref("george.gate", g), {GateId(entry)}) :
           g \in {gate.at} \ {None}})

-----------------------------------------------------------------------------
DispositionPredicate ==
  [accepted |-> "evaluates", deferred |-> "evaluates", refuted |-> "refutes", acted |-> "acts_on"]

\* _finding_disposition_records: the entry answers a finding, at an exact
\* revision, if it is the receipt that it says it is.
DispositionRecords(entry) ==
  LET d == entry.disposition
  IN  IF d = None THEN Nothing
      ELSE IF d.receipt # entry.id THEN Nothing
      ELSE Yield(
        {}, {CrosswalkRecord(EntryRef(entry), Ref("george.disposition", entry.id))},
        {RelationRecord(Ref("milton.finding-revision", d.revision), DispositionPredicate[d.answer],
                        Ref("george.disposition", entry.id), {EntryEventId(entry)})})

ReadEntry(entry) ==
  Both(Yield({EntryEvent(entry)}, EntryCrosswalks(entry), EntryRelations(entry)),
       Both(GateRecords(entry), DispositionRecords(entry)))

\* GeorgeAdapter.read: entry by entry; a line that does not parse is passed over.
ReadGeorge(lines, since) ==
  All({ReadEntry(entry) : entry \in {entry \in ToSet(lines) \ {None} : entry.at >= since}})
=============================================================================
