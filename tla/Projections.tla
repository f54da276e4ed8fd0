---------------------------- MODULE Projections ----------------------------
(***************************************************************************)
(* What the generators and the effectiveness projection say of an index    *)
(* that fills in whatever order.  They read the index and change nothing   *)
(* of it.  archive.asked has the configs that they are run with: gates,    *)
(* memory, motifs and effectiveness.                                       *)
(***************************************************************************)
EXTENDS LiveSources, GateRules, MemoryAudit, MotifRules, Effectiveness

NothingAsked == [gates |-> {}, memory |-> {}, motifs |-> {}, effectiveness |-> {}]

\* What the commands refuse to be run with is not asked, and George gives each
\* entry one id, which is that of the event it is told as.
ASSUME AskedAssumption ==
  \A a \in Archives :
    /\ \A config \in a.asked.gates : GateConfigOK(config)
    /\ \A config \in a.asked.memory : MemoryConfigOK(config)
    /\ \A asked \in a.asked.motifs : MotifConfigOK(asked.config)
    /\ \A config \in a.asked.effectiveness : EffectivenessConfigOK(config)
    /\ \A e, f \in {e \in Tellable(a) : e.kind = "gate_evidence" /\ e.evidence = "mint"} :
         e.mint = f.mint => e.id = f.id

\* Research outcomes are told by their adapter and have a reference, and name so
\* many calls; _parse_receipt refuses any other.
ASSUME ReceiptsAssumption ==
  \A a \in Archives : a.asked.effectiveness # {} =>
    \A r \in Receipts(Tellable(a)) : /\ r.adapter = "barnowl-research-outcome" /\ r.reference # None
                                    /\ IsFiniteSet(DOMAIN r.detail.calls)

-----------------------------------------------------------------------------
\* A gate is found to be minted again exactly if so many of its mints in the
\* window lie that close together, wherever in time.  It is found to be
\* resolved exactly if someone settled it, by its name or by one of its mints,
\* whatever came first; and one that is found old and not consulted is old,
\* unsettled, and nobody said that it was consulted (docs/george-gates.md).
GateVerdicts ==
  \A config \in {c \in archive.asked.gates : c.source = "fresh"} :
    LET evidence == GateEvidence(events, config)
        mintsOf(g) == {m \in Mints(evidence) : m.coordinate = g}
        named(e) == {m \in Mints(evidence) : e.coordinate = <<"target", m.mint>> /\ m.coordinate # None}
        about(g) == {e \in evidence \ Mints(evidence) :
                       IF named(e) = {} THEN e.coordinate = g ELSE named(e) \cap mintsOf(g) # {}}
        settled(g) == \E e \in about(g) : /\ e.evidence \in {"decision", "disposition"}
                                          /\ e.status \in SettledStates
    IN  \A a \in {a \in GateAssessments(events, config) : a.coordinate # None} :
          CASE a.rule = "re-minted" ->
                 a.state = "detected"
                   <=> \E close \in SUBSET mintsOf(a.coordinate) :
                         /\ Cardinality(close) >= config.remintThreshold
                         /\ \A m, n \in close : m.at <= n.at + config.remintDays
            [] a.rule = "condition-resolved" -> a.state = "detected" <=> settled(a.coordinate)
            [] OTHER ->
                 a.state = "detected" =>
                   /\ ~settled(a.coordinate)
                   /\ \E m \in mintsOf(a.coordinate) : m.at + config.oldDays <= config.cutoff
                   /\ ~\E e \in about(a.coordinate) : /\ e.evidence = "consult"
                                                      /\ e.consultation = "consulted"

\* An item of memory is given up only if its inventory is old, and for every
\* stage somebody reported that it was not used, and nobody at that time or
\* later that it was; if a successor is not named, it is only parked.
GivenUpOnlyUnused ==
  \A config \in archive.asked.memory :
    \A i \in {i \in MemoryItems(events, config) : i.disposition \in {"park", "retire"}} :
      /\ i.family \subseteq {e \in events : e.kind = "memory_evidence"}
      /\ \A e \in i.family : e.stage = "inventory" /\ e.state = "observed"
                               => e.at + config.nonUseDays <= config.cutoff
      /\ \A stage \in {"loaded", "retrieved", "referenced", "applied"} :
           \E e \in i.family :
             /\ e.stage = stage /\ e.state = "not_observed"
             /\ \A f \in i.family : f.stage = stage /\ f.state = "observed" => f.at < e.at
      /\ i.disposition = "retire" <=> \E e \in i.family : e.supersededBy # None

\* A motif that surfaces is borne out by the window alone: every session of the
\* proposal is in it and failed there in the way of the motif (an action retried, a
\* tool that fails again beside an error of permission, an unhappy end after changes
\* of scope), the sessions are as many as the floors ask for, and what is cited was
\* done in one of them.
MotifsAreBorneOut ==
  \A asked \in archive.asked.motifs :
    LET config == asked.config
        window == {e \in events : config.since <= e.at /\ e.at < config.cutoff}
        failures(s) == {e \in window : e.kind = "tool_call" /\ e.session = s /\ e.status = "failed"}
        again(s, same(_, _)) == \E e, f \in failures(s) : e # f /\ same(e, f)
        proposals == [motif : {"retry-storm", "permission-loop", "context-drift"},
                      sessions : SUBSET {e.id : e \in {e \in archive.events : e.kind = "session"}}]
        synthesis == [snapshot |-> MotifSnapshot(events, config), tuple |-> asked.tuple,
                      proposals |-> proposals]
        found == MotifProjection(synthesis, asked.evaluation, config, events, crosswalks, relations)
    IN  found # None =>
        \A a \in {a \in found : a.state = "eligible"} :
          /\ Cardinality(a.sessions) >= config.recurrence
          /\ Cardinality(a.sessions) >= config.aggregation
          /\ \A s \in a.sessions :
               /\ \E e \in window : e.kind = "session" /\ e.id = s
               /\ CASE a.motif = "retry-storm" ->
                         again(s, LAMBDA e, f : e.action # None /\ e.action = f.action)
                    [] a.motif = "permission-loop" ->
                         /\ again(s, LAMBDA e, f : e.tool # None /\ e.tool = f.tool)
                         /\ \E e \in window : /\ e.kind = "tool_call" /\ e.session = s
                                              /\ e.error = "permission"
                    [] OTHER ->
                         /\ \E e \in window : /\ e.kind = "outcome" /\ e.session = s
                                              /\ e.status \in {"failed", "reverted", "abandoned"}
                         /\ \E e \in window : s \in {e.id, e.session} /\ "scopeChanges" \in DOMAIN e
          /\ a.evidence \subseteq {e.id : e \in {e \in window : {e.id, e.session} \cap a.sessions # {}}}

-----------------------------------------------------------------------------
\* Every record of the links that was ever appended: what is refuted was
\* asserted before, and the refutation came last.
AllRecords(current, gone) ==
  LET asserted(l) == [link |-> l, asserted |-> TRUE, at |-> 0]
      withdrawn(l) == [link |-> l, asserted |-> FALSE, at |-> archive.asked.refutedAt]
  IN  SetToSeq({asserted(l) : l \in current \cup gone}) \o SetToSeq({withdrawn(l) : l \in gone})

\* The projection for every window that is asked for.
EffectivenessFound ==
  {BarnowlEffectiveness(events, AllRecords(crosswalks, {}), AllRecords(relations, refuted), config) :
     config \in archive.asked.effectiveness}

\* Chains are whole: every receipt of the window is excluded or in one chain, a
\* chain is of one thing and goes forward in time, each receipt in it follows
\* on the one before, nothing else follows on any of them, and what is
\* attributed to a receipt is in the cost of one chain or excluded with it
\* (docs/outcome-attribution.md, "Exact current chains").
ChainsAreWhole ==
  \A found \in EffectivenessFound :
    LET members == UNION {Range(c) : c \in found.chains}
    IN  /\ members = found.selected \ found.invalid
        /\ \A c, d \in found.chains : c # d => Range(c) \cap Range(d) = {}
        /\ \A c \in found.chains :
             /\ \A i \in 2..Len(c) : /\ c[i].detail.supersedes = c[i - 1].reference
                                     /\ c[i].detail.domain = c[1].detail.domain
                                     /\ c[i - 1].at < c[i].at
             /\ c[1].detail.supersedes = None
             /\ \A r \in found.selected \ Range(c), i \in DOMAIN c :
                  r.detail.supersedes # c[i].reference
        /\ found.funnel.all.cost + found.funnel.excluded.cost
             = TotalOf(found.records, "attributed")

\* However the window is cut, it is the same outcomes and the same amounts: by
\* workload, by treatment or by what was found, the receipts of the window are
\* counted once and what is attributed to them is; with what is ambiguous and
\* what is left unallocated, that is all that the window cost; and a call that
\* a receipt names is not both joined to it and missing.
CutsAgree ==
  \A found \in EffectivenessFound :
    LET spent(state) == IF state \in DOMAIN found.allocation.states
                        THEN found.allocation.states[state][2] ELSE 0
    IN  /\ \A by \in {"raw", "workloads", "treatments"} :
             /\ SumFunction([g \in found[by] |-> g[2].outcomes]) = found.sources.selected
             /\ SumFunction([g \in found[by] |-> g[2].cost]) = spent("attributed")
        /\ spent("attributed") + spent("ambiguous") + spent("unallocated")
             = Amount(Selected(WindowOf(events, found.window)))
        /\ found.coverage.joined + found.coverage.missing <= found.coverage.named

\* Something is claimed only if nothing is open: every receipt of the window
\* that admits something has a standardized result or an error of the same
\* thing after it, no receipt refers to one that is not in the window, and no
\* amount of the window could be of two receipts.
ClaimsAreBacked ==
  \A found \in {found \in EffectivenessFound : found.reasons = {}} :
    /\ \E r \in found.selected : Bucket(r) = "ADMITTED"
    /\ \A r \in found.selected :
         /\ Bucket(r) = "ADMITTED" =>
              \E s \in found.selected : /\ s.detail.domain = r.detail.domain /\ s.at > r.at
                                        /\ Bucket(s) \notin {"ADMITTED", "unmapped"}
         /\ r.detail.supersedes # None =>
              \E s \in found.selected : s.reference = r.detail.supersedes
    /\ TotalOf(found.records, "ambiguous") = 0
=============================================================================
