--------------------------- MODULE Effectiveness ---------------------------
(***************************************************************************)
(* The effectiveness projection of src/milton/barnowl_effectiveness.py:    *)
(* which research outcomes of a window follow up on which, what the work   *)
(* for them cost, and whether anything may be claimed from that.  A config *)
(* is the window and the join threshold, in percent; an unbounded end is a *)
(* time before or after everything.                                        *)
(***************************************************************************)
EXTENDS WorkGraph

Standardized == {"ADMITTED", "REJECTED", "CORROBORATED"}

EffectivenessConfigOK(config) == config.since < config.until /\ config.threshold \in 0..100

\* raw_bucket: an error, one of the standardized judgments, or neither.
Bucket(receipt) ==
  CASE ~receipt.detail.judged -> "error"
    [] receipt.detail.judged /\ receipt.detail.label \in Standardized -> receipt.detail.label
    [] OTHER -> "unmapped"

Receipts(events) == {e \in events : e.kind = "outcome" /\ e.type = Barnowl}
WindowOf(found, config) == {e \in found : config.since <= e.at /\ e.at < config.until}

\* _current_crosswalks_as_of and _current_relations_as_of: the last record of
\* a link before the cutoff, if it asserts the link.
LinksAsOf(records, cutoff) ==
  LET known == {i \in DOMAIN records : records[i].at < cutoff}
      last == {i \in known : \A j \in known : records[j].link = records[i].link => j <= i}
  IN  {records[i].link : i \in {i \in last : records[i].asserted}}

\* The attribution of the window's costs, to the research outcomes in it only.
EffectiveRecords(events, crosswalks, relations, config) ==
  LET before == {e \in events : e.at < config.until}
      outside == Receipts(events) \ WindowOf(Receipts(events), config)
      costs == {e \in WindowOf(events, config) : e.kind = "cost"}
  IN  Attributions(before \ outside, LinksAsOf(crosswalks, config.until),
                   LinksAsOf(relations, config.until), {e.id : e \in costs}, {Barnowl})

\* Mutant: an amount counts for every outcome that it may be of.
RecordsOfAnyState(receipts, records) ==
  {r \in records : \E c \in r.best, receipt \in receipts : c.ref = Ref(Barnowl, receipt.reference)}

\* _attributed_records_by_receipt
RecordsFor(receipts, records) ==
  {r \in records : /\ r.state = "attributed"
                   /\ \E c \in r.best, receipt \in receipts : c.ref = Ref(Barnowl, receipt.reference)}

CostOf(receipts, records) == Amount({r.cost : r \in RecordsFor(receipts, records)})

-----------------------------------------------------------------------------
(* What is counted.                                                        *)

\* _receipt_coordinate_coverage: a call that a receipt names is joined if a cost
\* of that call is attributed to that receipt.
JoinCoverage(selected, records, events) ==
  LET slots == UNION {{r} \X DOMAIN r.detail.calls : r \in selected}
      named == {s \in slots : s[1].detail.calls[s[2]].call # None}
      of(s) == {r \in records : CallRoot(r.cost, events) = Ref("somm.call", s[1].detail.calls[s[2]].call)}
  IN  [named   |-> Cardinality(named),
       joined  |-> Cardinality({s \in named : of(s) \cap RecordsFor({s[1]}, records) # {}}),
       missing |-> Cardinality({s \in named : of(s) = {}})]

\* _selected_window_allocation: the amounts of the window, by state and reason.
Allocation(records) ==
  [states  |-> [s \in {r.state : r \in records} |->
                  <<Cardinality({r \in records : r.state = s}), TotalOf(records, s)>>],
   reasons |-> [why \in {r.reason : r \in records} |->
                  Cardinality({r \in records : r.reason = why})]]

\* _source_coverage
SourceCoverage(selected, known, records) ==
  [selected |-> Cardinality(selected), earlier |-> Cardinality(known \ selected),
   costs    |-> [a \in {r.cost.adapter : r \in records} |->
                   Cardinality({r \in records : r.cost.adapter = a})]]

\* _receipt_metrics
ReceiptMetrics(receipts, records) ==
  [outcomes |-> Cardinality(receipts),
   attempts |-> Cardinality({r.detail.attempt : r \in receipts}),
   observations |-> Cardinality(RecordsFor(receipts, records)),
   cost     |-> CostOf(receipts, records),
   withCost |-> Cardinality({r \in receipts : RecordsFor({r}, records) # {}}),
   yields   |-> [b \in Standardized \cup {"error", "unmapped"} |->
                   Cardinality({r \in receipts : Bucket(r) = b})]]

\* _raw_outcome_dimensions and _aggregate_receipt_groups
Grouped(receipts, records, key) ==
  {<<k, ReceiptMetrics({r \in receipts : key[r] = k}, records)>> : k \in Range(key)}
RawDimension(r) ==
  <<r.detail.workload, r.detail.treatment, r.detail.authority, r.detail.domain.ns,
    r.detail.judged, r.detail.label>>

-----------------------------------------------------------------------------
(* Follow-up chains.  A receipt has at most one predecessor.               *)

Links(selected) == {l \in selected \X selected : l[2].detail.supersedes = l[1].reference}

\* The receipts that a receipt follows on, however far back.
Predecessors(receipt, links) ==
  LET back == {<<l[2], l[1]>> : l \in links}
  IN  Reach({l[1] : l \in {l \in links : l[2] = receipt}}, back)[Cardinality(links)]

\* _cycles
Cycles(links) ==
  {Predecessors(l[1], links) : l \in {l \in links : l[1] \in Predecessors(l[1], links)}}

\* The gaps of _build_current_chains: the links or receipts of each kind.
Gaps(selected, known) ==
  LET links == Links(selected)
      open == {r \in selected : r.detail.supersedes # None /\ ~\E l \in links : l[2] = r}
      outside == {r \in open : \E k \in known : k.reference = r.detail.supersedes}
  IN  [outside_window |-> outside,
       missing_target |-> open \ outside,
       cross_domain   |-> {l \in links : l[1].detail.domain # l[2].detail.domain},
       non_increasing_timestamp |-> {l \in links : l[1].at >= l[2].at},
       fork           |-> {l \in links : \E m \in links : m[1] = l[1] /\ m[2] # l[2]},
       cycle          |-> Cycles(links)]

\* Mutant: only the receipts at a gap are invalid.
InvalidAtGaps(selected, gaps) ==
  gaps.outside_window \cup gaps.missing_target \cup (UNION gaps.cycle)
    \cup UNION {{l[1], l[2]} : l \in gaps.cross_domain \cup gaps.non_increasing_timestamp \cup gaps.fork}

\* Everything connected to a receipt at a gap is invalid.
Invalid(selected, gaps) ==
  LET links == Links(selected)
      at == gaps.outside_window \cup gaps.missing_target \cup (UNION gaps.cycle)
              \cup UNION {{l[1], l[2]} : l \in gaps.cross_domain \cup gaps.non_increasing_timestamp
                                                 \cup gaps.fork}
  IN  Reach(at, BothWays(links))[Cardinality(selected)]

\* The chains of what is left, each from its first receipt to its last.
Chains(selected, invalid) ==
  LET valid == selected \ invalid
      links == Links(valid)
      from(root) ==
        LET walk[n \in Nat] ==
              IF n = 0 THEN <<root>>
              ELSE LET before == walk[n - 1]
                       next == {l[2] : l \in {l \in links : l[1] = Last(before)}}
                   IN  IF next = {} THEN before ELSE Append(before, CHOOSE r \in next : TRUE)
        IN  walk[Cardinality(valid)]
  IN  {from(root) : root \in {r \in valid : ~\E l \in links : l[2] = r}}

\* _component_count: how many groups of receipts that follow on each other.
ComponentCount(receipts, links) ==
  LET reach(r) == Reach({r}, BothWays(links))[Cardinality(receipts)]
  IN  Cardinality({reach(r) : r \in receipts})

TerminalBucket(chain) == Bucket(Last(chain))
ContainsAdmitted(chain) == \E i \in DOMAIN chain : Bucket(chain[i]) = "ADMITTED"
LaterCorroborated(chain) == ContainsAdmitted(chain) /\ TerminalBucket(chain) = "CORROBORATED"

\* A chain of more than one treatment is of none of them.
TreatmentOf(chain) ==
  IF \A i, j \in DOMAIN chain : chain[i].detail.treatment = chain[j].detail.treatment
  THEN chain[1].detail.treatment ELSE None

\* _semantic_funnel
Funnel(chains, invalid, links, records) ==
  LET costOf(some) == SumFunction([c \in some |-> CostOf(Range(c), records)])
      row(some) == [chains   |-> Cardinality(some), cost |-> costOf(some),
                    admitted |-> costOf({c \in some : ContainsAdmitted(c)}),
                    later    |-> costOf({c \in some : LaterCorroborated(c)})]
  IN  [all |-> row(chains),
       excluded |-> [components |-> ComponentCount(invalid, links), cost |-> CostOf(invalid, records)],
       terminals |-> [b \in Standardized \cup {"error", "unmapped"} |->
                        Cardinality({c \in chains : TerminalBucket(c) = b})],
       treatments |-> {<<t, row({c \in chains : TreatmentOf(c) = t})>> : t \in {TreatmentOf(c) : c \in chains}}]

\* Mutant: a gap in the follow-up does not matter if there are whole chains.
ReasonsDespiteGaps(coverage, records, gaps, chains, config) ==
  {reason \in {"below_join_threshold", "ambiguous_or_invalid_followup", "no_standardized_admissions",
               "insufficient_later_followup"} :
     CASE reason = "below_join_threshold" ->
            coverage.named = 0 \/ 100 * coverage.joined < config.threshold * coverage.named
       [] reason = "ambiguous_or_invalid_followup" ->
            \/ \E r \in records : r.state = "ambiguous"
            \/ \E c \in chains : TerminalBucket(c) = "unmapped"
       [] reason = "no_standardized_admissions" -> ~\E c \in chains : ContainsAdmitted(c)
       [] OTHER -> \E c \in chains : ContainsAdmitted(c) /\ TerminalBucket(c) = "ADMITTED"}

\* _claimability: why nothing may be claimed; nothing if it may.
Reasons(coverage, records, gaps, chains, config) ==
  {reason \in {"below_join_threshold", "ambiguous_or_invalid_followup", "no_standardized_admissions",
               "insufficient_later_followup"} :
     CASE reason = "below_join_threshold" ->
            coverage.named = 0 \/ 100 * coverage.joined < config.threshold * coverage.named
       [] reason = "ambiguous_or_invalid_followup" ->
            \/ \E r \in records : r.state = "ambiguous"
            \/ \E gap \in DOMAIN gaps : gaps[gap] # {}
            \/ \E c \in chains : TerminalBucket(c) = "unmapped"
       [] reason = "no_standardized_admissions" -> ~\E c \in chains : ContainsAdmitted(c)
       [] OTHER -> \E c \in chains : ContainsAdmitted(c) /\ TerminalBucket(c) = "ADMITTED"}

\* What the document of the projection says.
Document(selected, known, records, coverage, gaps, invalid, chains, config) ==
  [window     |-> config,
   selected   |-> selected,
   records    |-> records,
   chains     |-> chains,
   invalid    |-> invalid,
   coverage   |-> coverage,
   raw        |-> Grouped(selected, records, [r \in selected |-> RawDimension(r)]),
   workloads  |-> Grouped(selected, records, [r \in selected |-> r.detail.workload]),
   treatments |-> Grouped(selected, records, [r \in selected |-> r.detail.treatment]),
   sources    |-> SourceCoverage(selected, known, records),
   allocation |-> Allocation(records),
   funnel     |-> Funnel(chains, invalid, Links(selected), records),
   reasons    |-> Reasons(coverage, records, gaps, chains, config)]

\* The chains of what is valid.
FollowUp(selected, known, records, coverage, gaps, invalid, config) ==
  Document(selected, known, records, coverage, gaps, invalid, Chains(selected, invalid), config)

\* What the amounts cover, and which receipts a gap makes invalid.
Attributed(selected, known, records, events, gaps, config) ==
  FollowUp(selected, known, records, JoinCoverage(selected, records, events), gaps,
           Invalid(selected, gaps), config)

\* build_barnowl_effectiveness, of all records of links ever appended.
BarnowlEffectiveness(events, crosswalks, relations, config) ==
  LET before == {e \in events : e.at < config.until}
      known == Receipts(before)
      selected == WindowOf(known, config)
  IN  Attributed(selected, known, EffectiveRecords(events, crosswalks, relations, config), before,
                 Gaps(selected, known), config)
=============================================================================
